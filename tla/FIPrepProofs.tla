---------------------------- MODULE FIPrepProofs ----------------------------
(***************************************************************************)
(* Proofs about FIPrep, for any number of parties, batch size, threshold   *)
(* above 0 and amounts of gates and batches, and whatever the parties      *)
(* draw: every message is received for what it was sent for.  With         *)
(* threshold 0 that is not so: P1 then sends back to itself over the queue *)
(* that still holds its own shares of the products.                        *)
(***************************************************************************)
EXTENDS FIPrep, StreamLemmas

\* What a message is sent for: an item of a function, or a product.
Functions4 == {"ind", "unpacked", "zero", "zeroProd"}

Tag == (Functions4 \X Nat \X Nat) \cup ({"prod", "back"} \X Nat)

\* The items of the functions behind the first n.
ItemsBehind(n) ==
  FlattenSeq([f \in 1 .. Len(FIPrepRecv) |-> IF f <= n THEN << >> ELSE Items(FIPrepRecv[f])])

\* The products behind the first n, on their way to P1 or back.
ProductsBehind(kind, n) == [j \in 1 .. NProducts - n |-> << kind, n + j >>]

ReceivesBack(p, q) == q = 0 /\ p >= Threshold

\* What q has not sent to p yet.
StillToSend(p, q) ==
  ItemsBehind(sent[q])
  \o (IF p = 0 /\ ~prodSent[q] THEN ProductsBehind("prod", 0) ELSE << >>)
  \o (IF ReceivesBack(p, q) THEN ProductsBehind("back", opened) ELSE << >>)

TypesOK ==
  /\ sent \in [Parties -> 0 .. 4] /\ received \in [Parties -> 0 .. 4]
  /\ prodSent \in [Parties -> BOOLEAN]
  /\ opened \in 0 .. NProducts
  /\ shrProd = [p \in Parties |-> shrProd[p]]
  /\ \A p \in Parties : IsSeq(shrProd[p]) /\ Len(shrProd[p]) <= NProducts
  /\ chan = [p \in Parties |-> [q \in Parties |-> chan[p][q]]]
  /\ \A p, q \in Parties : IsSeq(chan[p][q]) /\ TagsOf(chan[p][q]) \in Seq(Tag)

\* What is on its way and what is still to be sent is what is still to be received.
Fits(p, q) == TagsOf(chan[q][p]) \o StillToSend(p, q) = StillToReceive(p, q)

InOrder == \A p, q \in Parties : Fits(p, q)

Ordered == TypesOK /\ InOrder

-----------------------------------------------------------------------------
(* What there is to send and to receive.                                    *)

\* Tags end to end, however they are put together.
LEMMA EndToEnd == \A a, b, c \in Seq(Tag) : a \o (b \o c) = (a \o b) \o c
BY ThreeParts

\* Packs and blocks can be counted.
LEMMA Counts ==
  /\ NProducts \in Nat
  /\ \A f \in Functions4 : Packs(f) \in Nat /\ Blocks(f) \in Nat
<1>0. BatchSize \in Nat /\ NMultBatches \in Nat /\ NInOutBatches \in Nat /\ NIndShrs \in Nat /\ Threshold \in Nat
  BY ThresholdAssumption, AmountsAssumption
<1>1. NProducts \in Nat
  BY <1>0 DEF NProducts
<1>2. ASSUME NEW f \in Functions4 PROVE Packs(f) \in Nat /\ Blocks(f) \in Nat
  <2>1. Amount(f) \in Nat
    BY <1>0, <1>2 DEF Amount, Functions4
  <2>2. \A a \in Nat, b \in Nat \ {0} : a \div b \in Nat
    OBVIOUS
  <2>3. Amount(f) + Threshold \in Nat /\ Threshold + 1 \in Nat \ {0}
    BY <1>0, <2>1
  <2>4. Blocks(f) \in Nat
    BY <2>2, <2>3 DEF Blocks
  <2>. QED
    BY <1>0, <2>4 DEF Packs
<1>. QED
  BY <1>1, <1>2

\* The items of a function.
LEMMA ItemsType == \A f \in Functions4 : Items(f) \in Seq(Tag)
<1> SUFFICES ASSUME NEW f \in Functions4 PROVE Items(f) \in Seq(Tag)
  OBVIOUS
<1>1. PICK n \in Nat : n = Packs(f)
  BY Counts
<1>2. PICK m \in Nat : m = Blocks(f)
  BY Counts
<1>3. \A pack, block \in Nat : << f, pack, block >> \in Tag
  BY DEF Functions4, Tag
<1>4. \A pack \in 1 .. n : [block \in 1 .. m |-> << f, pack, block >>] \in Seq(Tag)
  BY <1>3
<1>5. [pack \in 1 .. n |-> [block \in 1 .. m |-> << f, pack, block >>]] \in Seq(Seq(Tag))
  BY <1>4
<1>. QED
  BY <1>1, <1>2, <1>5, FlattenType DEF Items

\* One function after the other.
LEMMA ItemsInTurn ==
  /\ \A n \in 0 .. 4 : ItemsBehind(n) \in Seq(Tag)
  /\ \A n \in 0 .. 3 : ItemsBehind(n) = Items(FIPrepRecv[n + 1]) \o ItemsBehind(n + 1)
  /\ ItemsBehind(4) = << >>
<1> DEFINE g(n) == [f \in 1 .. Len(FIPrepRecv) |-> IF f <= n THEN << >> ELSE Items(FIPrepRecv[f])]
<1>1. PICK a, b, c, d : /\ a = Items(FIPrepRecv[1]) /\ b = Items(FIPrepRecv[2])
                        /\ c = Items(FIPrepRecv[3]) /\ d = Items(FIPrepRecv[4])
  OBVIOUS
<1>2. Len(FIPrepRecv) = 4 /\ \A i \in 1 .. 4 : FIPrepRecv[i] \in Functions4
  BY DEF FIPrepRecv, Functions4
<1>3. a \in Seq(Tag) /\ b \in Seq(Tag) /\ c \in Seq(Tag) /\ d \in Seq(Tag) /\ << >> \in Seq(Tag)
  BY <1>1, <1>2, ItemsType
<1>4. ASSUME NEW n \in 0 .. 4
      PROVE  /\ g(n) \in Seq(Seq(Tag)) /\ Len(g(n)) = 4
             /\ g(n)[1] = IF 1 <= n THEN << >> ELSE a
             /\ g(n)[2] = IF 2 <= n THEN << >> ELSE b
             /\ g(n)[3] = IF 3 <= n THEN << >> ELSE c
             /\ g(n)[4] = IF 4 <= n THEN << >> ELSE d
  <2>1. \A f \in 1 .. 4 : (IF f <= n THEN << >> ELSE Items(FIPrepRecv[f])) \in Seq(Tag)
    BY <1>2, <1>3, ItemsType
  <2>. QED
    BY <1>1, <1>2, <2>1
<1>5. ASSUME NEW n \in 0 .. 4
      PROVE  ItemsBehind(n) = (IF 1 <= n THEN << >> ELSE a) \o ((IF 2 <= n THEN << >> ELSE b)
                                \o ((IF 3 <= n THEN << >> ELSE c) \o (IF 4 <= n THEN << >> ELSE d)))
  <2>1. PICK h : h = g(n)
    OBVIOUS
  <2>2. FlattenSeq(h) = h[1] \o (h[2] \o (h[3] \o h[4]))
    BY <1>4, <2>1, FlattenFour
  <2>3. ItemsBehind(n) = FlattenSeq(h)
    BY <2>1 DEF ItemsBehind
  <2>4. /\ h[1] = (IF 1 <= n THEN << >> ELSE a) /\ h[2] = (IF 2 <= n THEN << >> ELSE b)
        /\ h[3] = (IF 3 <= n THEN << >> ELSE c) /\ h[4] = (IF 4 <= n THEN << >> ELSE d)
    <3> HIDE DEF g
    <3>. QED
      BY <1>4, <2>1
  <2>. QED
    BY <2>2, <2>3, <2>4
<1> HIDE DEF g
<1>6. \A s \in Seq(Tag) : << >> \o s = s /\ s \o << >> = s
  BY ConcatEmptySeq
<1>7. c \o d \in Seq(Tag) /\ b \o (c \o d) \in Seq(Tag) /\ a \o (b \o (c \o d)) \in Seq(Tag)
  <2>1. c \o d \in Seq(Tag)
    BY <1>3, ConcatProperties
  <2>2. b \o (c \o d) \in Seq(Tag)
    BY <1>3, <2>1, ConcatProperties
  <2>. QED
    BY <1>3, <2>1, <2>2, ConcatProperties
<1>8. ItemsBehind(0) = a \o (b \o (c \o d))
  BY <1>5, SMTT(30)
<1>9. ItemsBehind(1) = b \o (c \o d)
  BY <1>5, <1>6, <1>7, SMTT(30)
<1>10. ItemsBehind(2) = c \o d
  BY <1>5, <1>6, <1>7
<1>11. ItemsBehind(3) = d
  BY <1>3, <1>5, <1>6
<1>12. ItemsBehind(4) = << >>
  BY <1>3, <1>5, <1>6
<1>13. d = d \o << >>
  BY <1>3, <1>6
<1>14. \A n \in 0 .. 4 : n = 0 \/ n = 1 \/ n = 2 \/ n = 3 \/ n = 4
  OBVIOUS
<1>15. \A n \in 0 .. 3 : n = 0 \/ n = 1 \/ n = 2 \/ n = 3
  OBVIOUS
<1>16. \A n \in 0 .. 4 : ItemsBehind(n) \in Seq(Tag)
  BY <1>3, <1>7, <1>8, <1>9, <1>10, <1>11, <1>12, <1>14
<1>17. \A n \in 0 .. 3 : ItemsBehind(n) = Items(FIPrepRecv[n + 1]) \o ItemsBehind(n + 1)
  <2>1. /\ ItemsBehind(0) = Items(FIPrepRecv[1]) \o ItemsBehind(1)
        /\ ItemsBehind(1) = Items(FIPrepRecv[2]) \o ItemsBehind(2)
        /\ ItemsBehind(2) = Items(FIPrepRecv[3]) \o ItemsBehind(3)
        /\ ItemsBehind(3) = Items(FIPrepRecv[4]) \o ItemsBehind(4)
    BY <1>1, <1>8, <1>9, <1>10, <1>11, <1>12, <1>13
  <2>2. 0 + 1 = 1 /\ 1 + 1 = 2 /\ 2 + 1 = 3 /\ 3 + 1 = 4
    OBVIOUS
  <2>3. TAKE n \in 0 .. 3
  <2>4. n = 0 \/ n = 1 \/ n = 2 \/ n = 3
    BY <1>15
  <2>5. CASE n = 0
    BY <2>1, <2>2, <2>5
  <2>6. CASE n = 1
    BY <2>1, <2>2, <2>6
  <2>7. CASE n = 2
    BY <2>1, <2>2, <2>7
  <2>8. CASE n = 3
    BY <2>1, <2>2, <2>8
  <2>. QED
    BY <2>4, <2>5, <2>6, <2>7, <2>8
<1>. QED
  BY <1>12, <1>16, <1>17

\* One product after the other.
LEMMA ProductsInTurn ==
  ASSUME NEW kind \in {"prod", "back"}
  PROVE  /\ \A n \in 0 .. NProducts : ProductsBehind(kind, n) \in Seq(Tag)
         /\ \A n \in 0 .. NProducts : n < NProducts =>
              /\ << << kind, n + 1 >> >> \in Seq(Tag)
              /\ ProductsBehind(kind, n) = << << kind, n + 1 >> >> \o ProductsBehind(kind, n + 1)
         /\ ProductsBehind(kind, NProducts) = << >>
<1>0. PICK m \in Nat : m = NProducts
  BY Counts
<1>1. \A i \in Nat : << kind, i >> \in Tag
  BY DEF Tag
<1>2. ASSUME NEW n \in 0 .. m
      PROVE  /\ ProductsBehind(kind, n) \in Seq(Tag) /\ Len(ProductsBehind(kind, n)) = m - n
             /\ \A j \in 1 .. m - n : ProductsBehind(kind, n)[j] = << kind, n + j >>
  BY <1>0, <1>1 DEF ProductsBehind
<1>3. ASSUME NEW n \in 0 .. m, n < m
      PROVE  /\ << << kind, n + 1 >> >> \in Seq(Tag)
             /\ ProductsBehind(kind, n) = << << kind, n + 1 >> >> \o ProductsBehind(kind, n + 1)
  <2>0. n + 1 \in Nat
    OBVIOUS
  <2>1. PICK e \in Tag : e = << kind, n + 1 >>
    BY <1>1, <2>0
  <2>2. PICK k \in Nat : k = m - n - 1
    BY <1>3
  <2>3. n + 1 \in 0 .. m /\ m - (n + 1) = k /\ m - n = k + 1
    BY <1>3, <2>2
  <2>4. PICK r : r = ProductsBehind(kind, n + 1)
    OBVIOUS
  <2>5. r \in Seq(Tag) /\ Len(r) = k /\ \A j \in 1 .. k : r[j] = << kind, n + 1 + j >>
    BY <1>2, <2>3, <2>4
  <2>6. << e >> \in Seq(Tag) /\ Len(<< e >>) = 1 /\ << e >>[1] = e
    OBVIOUS
  <2>7. /\ << e >> \o r \in Seq(Tag) /\ Len(<< e >> \o r) = k + 1
        /\ \A j \in 1 .. k + 1 : (<< e >> \o r)[j] = IF j <= 1 THEN e ELSE r[j - 1]
    BY <2>5, <2>6, ConcatProperties
  <2>8. PICK s : s = ProductsBehind(kind, n)
    OBVIOUS
  <2>9. s \in Seq(Tag) /\ Len(s) = k + 1 /\ \A j \in 1 .. k + 1 : s[j] = << kind, n + j >>
    BY <1>2, <2>3, <2>8
  <2>10. ASSUME NEW j \in 1 .. k + 1 PROVE s[j] = (<< e >> \o r)[j]
    <3>1. CASE j = 1
      BY <2>1, <2>7, <2>9, <3>1
    <3>2. CASE j # 1
      <4>1. PICK h \in 1 .. k : h = j - 1
        BY <3>2
      <4>2. (<< e >> \o r)[j] = r[h] /\ n + 1 + h = n + j
        BY <2>7, <3>2, <4>1
      <4>. QED
        BY <2>5, <2>9, <4>2
    <3>. QED
      BY <3>1, <3>2
  <2>11. s = << e >> \o r
    BY <2>7, <2>9, <2>10, SeqEqual
  <2>. QED
    BY <2>1, <2>4, <2>6, <2>8, <2>11
<1>4. ProductsBehind(kind, m) = << >>
  <2>1. ProductsBehind(kind, m) \in Seq(Tag) /\ Len(ProductsBehind(kind, m)) = 0
    BY <1>2
  <2>. QED
    BY <2>1, EmptySeq
<1>. QED
  BY <1>0, <1>2, <1>3, <1>4

-----------------------------------------------------------------------------
(* The messages between two parties.                                        *)

\* What a party still receives, with the names used here.
LEMMA ToReceive ==
  \A p, q : StillToReceive(p, q) =
    ItemsBehind(received[p])
    \o (IF p = 0 THEN ProductsBehind("prod", opened) ELSE << >>)
    \o (IF ReceivesBack(p, q) THEN ProductsBehind("back", Len(shrProd[p])) ELSE << >>)
BY DEF StillToReceive, ItemsBehind, ProductsBehind, ReceivesBack

\* Everything there is to send or receive consists of tags.
LEMMA StillTypes ==
  ASSUME TypesOK, NEW p \in Parties, NEW q \in Parties
  PROVE  /\ StillToSend(p, q) \in Seq(Tag) /\ StillToReceive(p, q) \in Seq(Tag)
         /\ TagsOf(chan[q][p]) \in Seq(Tag)
<1>1. ItemsBehind(sent[q]) \in Seq(Tag) /\ ItemsBehind(received[p]) \in Seq(Tag)
  BY ItemsInTurn DEF TypesOK
<1>2. Len(shrProd[p]) \in 0 .. NProducts /\ opened \in 0 .. NProducts /\ 0 \in 0 .. NProducts
  <2>1. Len(shrProd[p]) \in Nat
    BY DEF TypesOK, IsSeq
  <2>. QED
    BY <2>1, Counts DEF TypesOK
<1>3. \A n \in 0 .. NProducts : ProductsBehind("prod", n) \in Seq(Tag) /\ ProductsBehind("back", n) \in Seq(Tag)
  BY ProductsInTurn
<1>4. PICK x, y, v, w :
        /\ x = IF p = 0 /\ ~prodSent[q] THEN ProductsBehind("prod", 0) ELSE << >>
        /\ y = IF ReceivesBack(p, q) THEN ProductsBehind("back", opened) ELSE << >>
        /\ v = IF p = 0 THEN ProductsBehind("prod", opened) ELSE << >>
        /\ w = IF ReceivesBack(p, q) THEN ProductsBehind("back", Len(shrProd[p])) ELSE << >>
  OBVIOUS
<1>5. x \in Seq(Tag) /\ y \in Seq(Tag) /\ v \in Seq(Tag) /\ w \in Seq(Tag)
  BY <1>2, <1>3, <1>4
<1>6. StillToSend(p, q) = ItemsBehind(sent[q]) \o x \o y /\ StillToReceive(p, q) = ItemsBehind(received[p]) \o v \o w
  BY <1>4, ToReceive DEF StillToSend
<1>7. \A a, b, c \in Seq(Tag) : a \o b \o c \in Seq(Tag)
  <2>1. \A a, b \in Seq(Tag) : a \o b \in Seq(Tag)
    BY ConcatProperties
  <2>. QED
    BY <2>1
<1>. QED
  BY <1>1, <1>5, <1>6, <1>7 DEF TypesOK

\* Nothing happens between q and p.
LEMMA PairKept ==
  ASSUME NEW p \in Parties, NEW q \in Parties, Fits(p, q),
         chan'[q][p] = chan[q][p], sent'[q] = sent[q], received'[p] = received[p],
         p = 0 => prodSent'[q] = prodSent[q] /\ opened' = opened,
         ReceivesBack(p, q) => opened' = opened /\ Len(shrProd'[p]) = Len(shrProd[p])
  PROVE  Fits(p, q)'
<1>1. StillToSend(p, q)' = StillToSend(p, q)
  BY DEF StillToSend, ReceivesBack, ProductsBehind, ItemsBehind
<1>2. StillToReceive(p, q)' = StillToReceive(p, q)
  BY DEF StillToReceive, ReceivesBack
<1>3. TagsOf(chan[q][p])' = TagsOf(chan[q][p])
  BY DEF TagsOf
<1>. QED
  BY <1>1, <1>2, <1>3 DEF Fits

\* q sends p what comes next.
LEMMA PairSends ==
  ASSUME TypesOK, NEW p \in Parties, NEW q \in Parties, Fits(p, q),
         NEW t \in Seq(Tag), NEW rest \in Seq(Tag),
         TagsOf(chan[q][p])' = TagsOf(chan[q][p]) \o t,
         StillToSend(p, q) = t \o rest, StillToSend(p, q)' = rest,
         StillToReceive(p, q)' = StillToReceive(p, q)
  PROVE  Fits(p, q)' /\ TagsOf(chan[q][p])' \in Seq(Tag)
<1>1. PICK s \in Seq(Tag) : s = TagsOf(chan[q][p])
  BY StillTypes
<1>2. (s \o t) \o rest = s \o (t \o rest) /\ s \o t \in Seq(Tag)
  <2>1. s \o t \in Seq(Tag)
    BY ConcatProperties
  <2>2. s \in Seq(Tag) /\ t \in Seq(Tag) /\ rest \in Seq(Tag)
    OBVIOUS
  <2>3. s \o (t \o rest) = (s \o t) \o rest
    BY <2>2, EndToEnd
  <2>. QED
    BY <2>1, <2>3
<1>3. s \o (t \o rest) = StillToReceive(p, q)
  BY <1>1 DEF Fits
<1>4. TagsOf(chan[q][p])' = s \o t
  BY <1>1
<1>. QED
  BY <1>2, <1>3, <1>4 DEF Fits

\* p receives from q what comes next.
LEMMA PairReceives ==
  ASSUME TypesOK, NEW p \in Parties, NEW q \in Parties, Fits(p, q),
         NEW t \in Seq(Tag), NEW rest \in Seq(Tag),
         Len(t) <= Len(chan[q][p]),
         chan'[q][p] = SubSeq(chan[q][p], Len(t) + 1, Len(chan[q][p])),
         StillToReceive(p, q) = t \o rest, StillToReceive(p, q)' = rest,
         StillToSend(p, q)' = StillToSend(p, q)
  PROVE  Fits(p, q)' /\ IsSeq(chan'[q][p]) /\ TagsOf(chan'[q][p]) \in Seq(Tag)
<1>1. PICK s \in Seq(Tag) : s = TagsOf(chan[q][p])
  BY StillTypes
<1>2. PICK u \in Seq(Tag) : u = StillToSend(p, q)
  BY StillTypes
<1>3. PICK c : c = chan[q][p]
  OBVIOUS
<1>4. PICK n \in Nat : n = Len(t)
  OBVIOUS
<1>5. IsSeq(c) /\ Len(c) \in Nat /\ n \in 0 .. Len(c)
  <2>1. IsSeq(c)
    BY <1>3 DEF TypesOK
  <2>2. Len(c) \in Nat
    BY <2>1 DEF IsSeq
  <2>3. n <= Len(c)
    BY <1>3, <1>4
  <2>. QED
    BY <2>1, <2>2, <2>3
<1>6. /\ IsSeq(SubSeq(c, n + 1, Len(c))) /\ Len(s) = Len(c)
      /\ TagsOf(SubSeq(c, n + 1, Len(c))) = SubSeq(s, n + 1, Len(s))
  BY <1>1, <1>3, <1>5, TagsLeft
<1>7. SubSeq(s, n + 1, Len(s)) \o u = rest
  <2>1. s \o u = t \o rest
    BY <1>1, <1>2 DEF Fits
  <2>2. Len(t) <= Len(s)
    BY <1>4, <1>5, <1>6
  <2>. QED
    BY <1>4, <2>1, <2>2, Cancel
<1>8. SubSeq(s, n + 1, Len(s)) \in Seq(Tag)
  <2>1. Len(s) \in Nat
    OBVIOUS
  <2>. QED
    BY <2>1
<1>9. chan'[q][p] = SubSeq(c, n + 1, Len(c))
  BY <1>3, <1>4
<1>10. TagsOf(chan[q][p])' = SubSeq(s, n + 1, Len(s)) /\ TagsOf(chan'[q][p]) = SubSeq(s, n + 1, Len(s))
  BY <1>6, <1>9 DEF TagsOf
<1>. QED
  BY <1>2, <1>6, <1>7, <1>8, <1>9, <1>10 DEF Fits

\* Messages made of the members of a sequence have these as their tags.
LEMMA TagsMade ==
  ASSUME NEW t \in Seq(Tag), NEW m, DOMAIN m = DOMAIN t, m = [i \in DOMAIN t |-> m[i]],
         \A i \in DOMAIN t : m[i].tag = t[i]
  PROVE  IsSeq(m) /\ TagsOf(m) = t /\ Len(m) = Len(t)
<1>1. PICK n \in Nat : n = Len(t) /\ DOMAIN t = 1 .. n
  OBVIOUS
<1>2. IsSeq(m) /\ Len(m) = n
  BY <1>1, FromPlaces
<1>3. TagsOf(m) = [i \in 1 .. n |-> t[i]]
  BY <1>1, <1>2 DEF TagsOf
<1>4. t = [i \in 1 .. n |-> t[i]]
  BY <1>1
<1>. QED
  BY <1>1, <1>2, <1>3, <1>4

\* What SendEach does to the channels.
LEMMA EachSent ==
  ASSUME TypesOK, NEW p \in Parties, NEW msgs, SendEach(p, msgs)
  PROVE  /\ chan' = [r \in Parties |-> [q \in Parties |-> chan'[r][q]]]
         /\ \A q \in Parties : chan'[p][q] = chan[p][q] \o msgs[q]
         /\ \A r, q \in Parties : r # p => chan'[r][q] = chan[r][q]
<1>1. chan' = [chan EXCEPT ![p] = [q \in Parties |-> chan[p][q] \o msgs[q]]]
  BY DEF SendEach
<1>2. chan = [r \in Parties |-> [q \in Parties |-> chan[r][q]]]
  BY DEF TypesOK
<1>3. DOMAIN chan = Parties /\ \A r \in Parties : chan[r] = [q \in Parties |-> chan[r][q]]
  BY <1>2
<1>. QED
  BY <1>1, <1>3

\* A function is sent to everybody, item by item.
LEMMA SendKeepsOrder ==
  ASSUME Ordered, NEW p \in Parties, PartiesSend(p)
  PROVE  Ordered'
<1>0. TypesOK /\ InOrder
  BY DEF Ordered
<1>1. PICK n \in 0 .. 3 : n = sent[p]
  <2>1. sent[p] < Len(FIPrepSend)
    BY DEF PartiesSend
  <2>2. sent[p] \in 0 .. 4 /\ Len(FIPrepSend) = 4
    BY <1>0 DEF TypesOK, FIPrepSend
  <2>. QED
    BY <2>1, <2>2
<1>2. PICK t : t = Items(FIPrepSend[n + 1])
  OBVIOUS
<1>3. t \in Seq(Tag) /\ ItemsBehind(n) = t \o ItemsBehind(n + 1) /\ ItemsBehind(n + 1) \in Seq(Tag)
  <2>1. FIPrepSend[n + 1] \in Functions4 /\ FIPrepSend[n + 1] = FIPrepRecv[n + 1]
    BY DEF FIPrepSend, FIPrepRecv, Functions4
  <2>2. n + 1 \in 0 .. 4
    OBVIOUS
  <2>. QED
    BY <1>2, <2>1, <2>2, ItemsType, ItemsInTurn
<1>4. PICK msgs : /\ SendEach(p, msgs)
                  /\ \A q \in Parties : /\ DOMAIN msgs[q] = DOMAIN t
                                        /\ msgs[q] = [i \in DOMAIN t |-> msgs[q][i]]
                                        /\ \A i \in DOMAIN t : msgs[q][i].tag = t[i]
  <2> DEFINE f == FIPrepSend[sent[p] + 1]
             shares == [i \in DOMAIN Items(f) |->
                          SharesFromEvPoly(Dealt(f, Items(f)[i][2], draws[f][p][i]), NParties)]
             msgs == [q \in Parties |->
                        [i \in DOMAIN Items(f) |-> [val |-> shares[i][q + 1], tag |-> Items(f)[i]]]]
  <2>1. SendEach(p, msgs)
    BY DEF PartiesSend
  <2>2. t = Items(f)
    BY <1>1, <1>2
  <2>3. \A q \in Parties : msgs[q] = [i \in DOMAIN t |-> [val |-> shares[i][q + 1], tag |-> t[i]]]
    BY <2>2
  <2>4. \A q \in Parties : /\ DOMAIN msgs[q] = DOMAIN t
                           /\ msgs[q] = [i \in DOMAIN t |-> msgs[q][i]]
                           /\ \A i \in DOMAIN t : msgs[q][i].tag = t[i]
    <3> HIDE DEF msgs, shares
    <3>1. TAKE q \in Parties
    <3>2. PICK m : m = msgs[q]
      OBVIOUS
    <3>3. m = [i \in DOMAIN t |-> [val |-> shares[i][q + 1], tag |-> t[i]]]
      BY <2>3, <3>2
    <3>4. DOMAIN m = DOMAIN t /\ \A i \in DOMAIN t : m[i] = [val |-> shares[i][q + 1], tag |-> t[i]]
      BY <3>3
    <3>5. \A i \in DOMAIN t : m[i].tag = t[i]
      BY <3>4
    <3>6. m = [i \in DOMAIN t |-> m[i]]
      BY <3>3, <3>4
    <3>. QED
      BY <3>2, <3>4, <3>5, <3>6
  <2> HIDE DEF msgs
  <2>. QED
    BY <2>1, <2>4
<1>5. \A q \in Parties : IsSeq(msgs[q]) /\ TagsOf(msgs[q]) = t
  BY <1>3, <1>4, TagsMade
<1>6. /\ chan' = [r \in Parties |-> [q \in Parties |-> chan'[r][q]]]
      /\ \A q \in Parties : chan'[p][q] = chan[p][q] \o msgs[q]
      /\ \A r, q \in Parties : r # p => chan'[r][q] = chan[r][q]
  BY <1>0, <1>4, EachSent
<1>7. /\ UNCHANGED << received, prodSent, opened, shrProd >>
      /\ sent' \in [Parties -> 0 .. 4] /\ sent'[p] = n + 1 /\ \A r \in Parties : r # p => sent'[r] = sent[r]
  <2>1. sent' = [sent EXCEPT ![p] = @ + 1] /\ UNCHANGED << received, prodSent, opened, shrProd >>
    BY DEF PartiesSend
  <2>2. sent \in [Parties -> 0 .. 4] /\ sent[p] = n /\ n + 1 \in 0 .. 4
    BY <1>0, <1>1 DEF TypesOK
  <2>. QED
    BY <2>1, <2>2
<1>8. ASSUME NEW q \in Parties
      PROVE  Fits(q, p)' /\ IsSeq(chan'[p][q]) /\ TagsOf(chan'[p][q]) \in Seq(Tag)
  <2>1. PICK x, y : /\ x = IF q = 0 /\ ~prodSent[p] THEN ProductsBehind("prod", 0) ELSE << >>
                    /\ y = IF ReceivesBack(q, p) THEN ProductsBehind("back", opened) ELSE << >>
    OBVIOUS
  <2>2. x \in Seq(Tag) /\ y \in Seq(Tag)
    <3>1. 0 \in 0 .. NProducts /\ opened \in 0 .. NProducts /\ << >> \in Seq(Tag)
      BY <1>0, Counts DEF TypesOK
    <3>2. ProductsBehind("prod", 0) \in Seq(Tag) /\ ProductsBehind("back", opened) \in Seq(Tag)
      BY <3>1, ProductsInTurn
    <3>. QED
      BY <2>1, <3>1, <3>2
  <2>3. StillToSend(q, p) = ItemsBehind(n) \o x \o y
    BY <1>1, <2>1 DEF StillToSend
  <2>4. StillToSend(q, p)' = ItemsBehind(n + 1) \o x \o y
    BY <1>7, <2>1 DEF StillToSend, ReceivesBack, ProductsBehind, ItemsBehind
  <2>5. PICK rest \in Seq(Tag) : rest = ItemsBehind(n + 1) \o x \o y
    BY <1>3, <2>2, ConcatProperties
  <2>6. (t \o ItemsBehind(n + 1)) \o x \o y = t \o rest
    <3>1. PICK i \in Seq(Tag) : i = ItemsBehind(n + 1)
      BY <1>3
    <3>2. i \o x \in Seq(Tag)
      BY <2>2, ConcatProperties
    <3>3. PICK j \in Seq(Tag) : j = i \o x
      BY <3>2
    <3>6. t \in Seq(Tag) /\ i \in Seq(Tag) /\ j \in Seq(Tag) /\ x \in Seq(Tag) /\ y \in Seq(Tag)
      BY <1>3, <2>2
    <3>4. (t \o i) \o x = t \o j
      BY <3>3, <3>6, EndToEnd, SMTT(30)
    <3>5. t \o (j \o y) = (t \o j) \o y
      BY <3>6, EndToEnd, SMTT(30)
    <3>. QED
      BY <2>5, <3>1, <3>3, <3>4, <3>5
  <2>7. IsSeq(chan[p][q]) /\ Fits(q, p)
    BY <1>0 DEF TypesOK, InOrder
  <2>8. IsSeq(chan'[p][q]) /\ TagsOf(chan'[p][q]) = TagsOf(chan[p][q]) \o t
    <3>1. PICK c, m : c = chan[p][q] /\ m = msgs[q]
      OBVIOUS
    <3>2. IsSeq(c \o m) /\ TagsOf(c \o m) = TagsOf(c) \o TagsOf(m)
      BY <1>5, <2>7, <3>1, TagsBehind
    <3>3. chan'[p][q] = c \o m
      BY <1>6, <3>1
    <3>. QED
      BY <1>5, <3>1, <3>2, <3>3
  <2>9. TagsOf(chan[p][q])' = TagsOf(chan[p][q]) \o t /\ TagsOf(chan[p][q])' = TagsOf(chan'[p][q])
    BY <2>8 DEF TagsOf
  <2>10. StillToReceive(q, p)' = StillToReceive(q, p)
    BY <1>7 DEF StillToReceive
  <2>11. StillToSend(q, p) = t \o rest /\ StillToSend(q, p)' = rest
    BY <1>3, <2>3, <2>4, <2>5, <2>6
  <2>. QED
    BY <1>0, <1>3, <2>7, <2>8, <2>9, <2>10, <2>11, PairSends
<1>9. ASSUME NEW q \in Parties, NEW r \in Parties, r # p
      PROVE  Fits(q, r)' /\ IsSeq(chan'[r][q]) /\ TagsOf(chan'[r][q]) \in Seq(Tag)
  BY <1>0, <1>6, <1>7, <1>9, PairKept DEF TypesOK, InOrder
<1>10. \A q, r \in Parties : Fits(q, r)' /\ IsSeq(chan'[r][q]) /\ TagsOf(chan'[r][q]) \in Seq(Tag)
  BY <1>8, <1>9
<1>11. InOrder'
  BY <1>10 DEF InOrder
<1>12. TypesOK'
  BY <1>0, <1>6, <1>7, <1>10 DEF TypesOK
<1>. QED
  BY <1>11, <1>12 DEF Ordered

\* What ReceiveEach does to the channels.
LEMMA EachReceived ==
  ASSUME TypesOK, NEW p \in Parties, NEW n, ReceiveEach(p, n)
  PROVE  /\ chan' = [r \in Parties |-> [q \in Parties |-> chan'[r][q]]]
         /\ \A r \in Parties : /\ Len(chan[r][p]) >= n
                               /\ chan'[r][p] = SubSeq(chan[r][p], n + 1, Len(chan[r][p]))
         /\ \A r, q \in Parties : q # p => chan'[r][q] = chan[r][q]
<1>1. chan' = [q \in Parties |-> [chan[q] EXCEPT ![p] = SubSeq(chan[q][p], n + 1, Len(chan[q][p]))]]
  BY DEF ReceiveEach
<1>2. \A r \in Parties : Len(chan[r][p]) >= n
  BY DEF ReceiveEach
<1>3. \A r \in Parties : chan[r] = [q \in Parties |-> chan[r][q]]
  <2>1. chan = [r \in Parties |-> [q \in Parties |-> chan[r][q]]]
    BY DEF TypesOK
  <2>. QED
    BY <2>1
<1>. QED
  BY <1>1, <1>2, <1>3

\* A function is received from everybody, item by item.
LEMMA ReceiveKeepsOrder ==
  ASSUME Ordered, NEW p \in Parties, NEW f, Receives(p, f), UNCHANGED << sent, prodSent, opened, shrProd >>
  PROVE  Ordered'
<1>0. TypesOK /\ InOrder
  BY DEF Ordered
<1>1. PICK n \in 0 .. 3 : n = received[p]
  BY <1>0 DEF Receives, TypesOK, FIPrepRecv
<1>2. PICK t : t = Items(f)
  OBVIOUS
<1>3. t \in Seq(Tag) /\ ItemsBehind(n) = t \o ItemsBehind(n + 1) /\ ItemsBehind(n + 1) \in Seq(Tag)
  <2>1. f = FIPrepRecv[n + 1]
    BY <1>1 DEF Receives
  <2>2. f \in Functions4
    BY <2>1 DEF FIPrepRecv, Functions4
  <2>3. n + 1 \in 0 .. 4
    OBVIOUS
  <2>. QED
    BY <1>2, <2>1, <2>2, <2>3, ItemsType, ItemsInTurn
<1>4. /\ chan' = [r \in Parties |-> [q \in Parties |-> chan'[r][q]]]
      /\ \A r \in Parties : /\ Len(chan[r][p]) >= Len(t)
                            /\ chan'[r][p] = SubSeq(chan[r][p], Len(t) + 1, Len(chan[r][p]))
      /\ \A r, q \in Parties : q # p => chan'[r][q] = chan[r][q]
  BY <1>0, <1>2, EachReceived DEF Receives
<1>5. /\ received' \in [Parties -> 0 .. 4] /\ received'[p] = n + 1
      /\ \A r \in Parties : r # p => received'[r] = received[r]
  BY <1>0, <1>1 DEF Receives, TypesOK
<1>6. ASSUME NEW q \in Parties
      PROVE  Fits(p, q)' /\ IsSeq(chan'[q][p]) /\ TagsOf(chan'[q][p]) \in Seq(Tag)
  <2>1. PICK v, w : /\ v = IF p = 0 THEN ProductsBehind("prod", opened) ELSE << >>
                    /\ w = IF ReceivesBack(p, q) THEN ProductsBehind("back", Len(shrProd[p])) ELSE << >>
    OBVIOUS
  <2>2. v \in Seq(Tag) /\ w \in Seq(Tag)
    <3>1. Len(shrProd[p]) \in 0 .. NProducts
      BY <1>0, Counts DEF TypesOK, IsSeq
    <3>. QED
      BY <1>0, <2>1, <3>1, ProductsInTurn DEF TypesOK
  <2>3. StillToReceive(p, q) = ItemsBehind(n) \o v \o w
    BY <1>1, <2>1, ToReceive
  <2>4. StillToReceive(p, q)' = ItemsBehind(n + 1) \o v \o w
    <3>1. StillToReceive(p, q)' =
            ItemsBehind(received'[p])
            \o (IF p = 0 THEN ProductsBehind("prod", opened') ELSE << >>)
            \o (IF ReceivesBack(p, q) THEN ProductsBehind("back", Len(shrProd'[p])) ELSE << >>)
      BY DEF StillToReceive, ItemsBehind, ProductsBehind, ReceivesBack
    <3>. QED
      BY <1>5, <2>1, <3>1
  <2>5. PICK rest \in Seq(Tag) : rest = ItemsBehind(n + 1) \o v \o w
    BY <1>3, <2>2, ConcatProperties
  <2>6. (t \o ItemsBehind(n + 1)) \o v \o w = t \o rest
    <3>1. PICK i \in Seq(Tag) : i = ItemsBehind(n + 1)
      BY <1>3
    <3>2. i \o v \in Seq(Tag)
      BY <2>2, ConcatProperties
    <3>3. PICK j \in Seq(Tag) : j = i \o v
      BY <3>2
    <3>6. t \in Seq(Tag) /\ i \in Seq(Tag) /\ j \in Seq(Tag) /\ v \in Seq(Tag) /\ w \in Seq(Tag)
      BY <1>3, <2>2
    <3>4. (t \o i) \o v = t \o j
      BY <3>3, <3>6, EndToEnd, SMTT(30)
    <3>5. t \o (j \o w) = (t \o j) \o w
      BY <3>6, EndToEnd, SMTT(30)
    <3>. QED
      BY <2>5, <3>1, <3>3, <3>4, <3>5
  <2>7. Fits(p, q)
    BY <1>0 DEF InOrder
  <2>8. StillToSend(p, q)' = StillToSend(p, q)
    BY DEF StillToSend, ReceivesBack, ProductsBehind, ItemsBehind
  <2>9. StillToReceive(p, q) = t \o rest /\ StillToReceive(p, q)' = rest
    BY <1>3, <2>3, <2>4, <2>5, <2>6
  <2>10. Len(t) <= Len(chan[q][p])
    <3>1. Len(chan[q][p]) \in Nat /\ Len(t) \in Nat
      BY <1>0, <1>3 DEF TypesOK, IsSeq
    <3>. QED
      BY <1>4, <3>1
  <2>. QED
    BY <1>0, <1>3, <1>4, <2>7, <2>8, <2>9, <2>10, PairReceives
<1>7. ASSUME NEW q \in Parties, NEW r \in Parties, r # p
      PROVE  Fits(r, q)' /\ IsSeq(chan'[q][r]) /\ TagsOf(chan'[q][r]) \in Seq(Tag)
  BY <1>0, <1>4, <1>5, <1>7, PairKept DEF TypesOK, InOrder
<1>8. \A q, r \in Parties : Fits(r, q)' /\ IsSeq(chan'[q][r]) /\ TagsOf(chan'[q][r]) \in Seq(Tag)
  BY <1>6, <1>7
<1>9. InOrder'
  BY <1>8 DEF InOrder
<1>10. TypesOK'
  BY <1>0, <1>4, <1>5, <1>8 DEF TypesOK
<1>. QED
  BY <1>9, <1>10 DEF Ordered

-----------------------------------------------------------------------------
(* The products.                                                            *)

\* Who has been through all functions has only products to send and to receive.
LEMMA OnlyProducts ==
  ASSUME TypesOK, NEW p \in Parties, NEW q \in Parties
  PROVE  /\ sent[q] = 4 => StillToSend(p, q) =
              (IF p = 0 /\ ~prodSent[q] THEN ProductsBehind("prod", 0) ELSE << >>)
              \o (IF ReceivesBack(p, q) THEN ProductsBehind("back", opened) ELSE << >>)
         /\ received[p] = 4 => StillToReceive(p, q) =
              (IF p = 0 THEN ProductsBehind("prod", opened) ELSE << >>)
              \o (IF ReceivesBack(p, q) THEN ProductsBehind("back", Len(shrProd[p])) ELSE << >>)
<1>1. PICK x, v : /\ x = IF p = 0 /\ ~prodSent[q] THEN ProductsBehind("prod", 0) ELSE << >>
                  /\ v = IF p = 0 THEN ProductsBehind("prod", opened) ELSE << >>
  OBVIOUS
<1>2. x \in Seq(Tag) /\ v \in Seq(Tag)
  <2>1. 0 \in 0 .. NProducts /\ opened \in 0 .. NProducts /\ << >> \in Seq(Tag)
    BY Counts DEF TypesOK
  <2>2. ProductsBehind("prod", 0) \in Seq(Tag) /\ ProductsBehind("prod", opened) \in Seq(Tag)
    BY <2>1, ProductsInTurn
  <2>. QED
    BY <1>1, <2>1, <2>2
<1>3. << >> \o x = x /\ << >> \o v = v
  BY <1>2, ConcatEmptySeq
<1>4. sent[q] = 4 => StillToSend(p, q) =
        x \o (IF ReceivesBack(p, q) THEN ProductsBehind("back", opened) ELSE << >>)
  BY <1>1, <1>3, ItemsInTurn DEF StillToSend
<1>5. received[p] = 4 => StillToReceive(p, q) =
        v \o (IF ReceivesBack(p, q) THEN ProductsBehind("back", Len(shrProd[p])) ELSE << >>)
  BY <1>1, <1>3, ItemsInTurn, ToReceive
<1>. QED
  BY <1>1, <1>4, <1>5

\* Nothing behind or before tags leaves them as they are.
LEMMA NoneBehind == << >> \in Seq(Tag) /\ \A a \in Seq(Tag) : a \o << >> = a /\ << >> \o a = a
BY ConcatEmptySeq

\* A party's shares of the products go to P1.
LEMMA ProductsKeepOrder ==
  ASSUME Ordered, Threshold # 0, NEW p \in Parties, GenProdPartiesSendP1(p)
  PROVE  Ordered'
<1>0. TypesOK /\ InOrder
  BY DEF Ordered
<1>1. PICK msgs : SendEach(p, msgs) /\ msgs = [q \in Parties |->
                    IF q # 0 THEN << >>
                    ELSE [i \in 1 .. NProducts |-> [val |-> ShareOfProduct(p, i), tag |-> << "prod", i >>]]]
  BY DEF GenProdPartiesSendP1
<1>2. PICK n \in Nat : n = NProducts
  BY Counts
<1>3. PICK t : t = ProductsBehind("prod", 0)
  OBVIOUS
<1>4. t \in Seq(Tag) /\ DOMAIN t = 1 .. n /\ \A i \in 1 .. n : t[i] = << "prod", i >>
  <2>1. 0 \in 0 .. NProducts /\ n - 0 = n /\ \A i \in 1 .. n : 0 + i = i
    BY <1>2
  <2>2. t \in Seq(Tag)
    BY <1>3, <2>1, ProductsInTurn
  <2>3. t = [j \in 1 .. n |-> << "prod", 0 + j >>]
    BY <1>2, <1>3, <2>1 DEF ProductsBehind
  <2>. QED
    BY <2>1, <2>2, <2>3
<1>5. \A q \in Parties : q # 0 => msgs[q] = << >>
  BY <1>1
<1>6. 0 \in Parties => IsSeq(msgs[0]) /\ TagsOf(msgs[0]) = t
  <2>1. HAVE 0 \in Parties
  <2>2. PICK m : m = msgs[0]
    OBVIOUS
  <2>3. m = [i \in 1 .. n |-> [val |-> ShareOfProduct(p, i), tag |-> << "prod", i >>]]
    BY <1>1, <1>2, <2>1, <2>2
  <2>4. DOMAIN m = 1 .. n /\ \A i \in 1 .. n : m[i] = [val |-> ShareOfProduct(p, i), tag |-> << "prod", i >>]
    BY <2>3
  <2>5. ASSUME NEW i \in 1 .. n PROVE m[i].tag = t[i]
    <3>1. PICK v : v = ShareOfProduct(p, i)
      OBVIOUS
    <3>2. m[i] = [val |-> v, tag |-> << "prod", i >>]
      BY <2>4, <3>1
    <3>3. m[i].tag = << "prod", i >>
      BY <3>2
    <3>. QED
      BY <1>4, <3>3
  <2>6. m = [i \in DOMAIN t |-> m[i]]
    BY <1>4, <2>3, <2>4
  <2>. QED
    BY <1>4, <2>2, <2>4, <2>5, <2>6, TagsMade
<1>7. /\ chan' = [r \in Parties |-> [q \in Parties |-> chan'[r][q]]]
      /\ \A q \in Parties : chan'[p][q] = chan[p][q] \o msgs[q]
      /\ \A r, q \in Parties : r # p => chan'[r][q] = chan[r][q]
  <2>1. SendEach(p, msgs)
    BY <1>1
  <2>. QED
    BY <1>0, <2>1, EachSent
<1>8. /\ UNCHANGED << sent, received, opened, shrProd >> /\ sent[p] = 4 /\ ~prodSent[p]
      /\ prodSent' \in [Parties -> BOOLEAN] /\ prodSent'[p] = TRUE
      /\ \A r \in Parties : r # p => prodSent'[r] = prodSent[r]
  BY <1>0 DEF GenProdPartiesSendP1, Joined, FIPrepSend, TypesOK
<1>9. ASSUME NEW q \in Parties, q = 0
      PROVE  Fits(q, p)' /\ IsSeq(chan'[p][q]) /\ TagsOf(chan'[p][q]) \in Seq(Tag)
  <2>1. ~ReceivesBack(q, p)
    BY <1>9, ThresholdAssumption DEF ReceivesBack
  <2>2. StillToSend(q, p) = t \o << >>
    BY <1>0, <1>3, <1>8, <1>9, <2>1, OnlyProducts
  <2>3. StillToSend(q, p)' = << >>
    <3>1. StillToSend(q, p)' = ItemsBehind(4) \o << >> \o << >>
      BY <1>8, <1>9, <2>1 DEF StillToSend, ReceivesBack, ItemsBehind
    <3>. QED
      BY <3>1, NoneBehind, ItemsInTurn
  <2>4. IsSeq(chan[p][q]) /\ Fits(q, p)
    BY <1>0 DEF TypesOK, InOrder
  <2>5. IsSeq(chan'[p][q]) /\ TagsOf(chan'[p][q]) = TagsOf(chan[p][q]) \o t
    <3>1. PICK c, m : c = chan[p][q] /\ m = msgs[q]
      OBVIOUS
    <3>2. IsSeq(m) /\ TagsOf(m) = t
      BY <1>6, <1>9, <3>1
    <3>3. IsSeq(c \o m) /\ TagsOf(c \o m) = TagsOf(c) \o TagsOf(m)
      BY <2>4, <3>1, <3>2, TagsBehind
    <3>4. chan'[p][q] = c \o m
      BY <1>7, <3>1
    <3>. QED
      BY <3>1, <3>2, <3>3, <3>4
  <2>6. TagsOf(chan[p][q])' = TagsOf(chan[p][q]) \o t /\ TagsOf(chan[p][q])' = TagsOf(chan'[p][q])
    BY <2>5 DEF TagsOf
  <2>7. StillToReceive(q, p)' = StillToReceive(q, p)
    BY <1>8 DEF StillToReceive
  <2>. QED
    BY <1>0, <1>4, <2>2, <2>3, <2>4, <2>5, <2>6, <2>7, NoneBehind, PairSends
<1>10. ASSUME NEW q \in Parties, NEW r \in Parties, ~(r = p /\ q = 0)
      PROVE  Fits(q, r)' /\ IsSeq(chan'[r][q]) /\ TagsOf(chan'[r][q]) \in Seq(Tag)
  <2>1. chan'[r][q] = chan[r][q]
    <3>1. CASE r = p
      <4>1. PICK c : c = chan[r][q]
        OBVIOUS
      <4>2. c \in Seq(Range(c))
        BY <1>0, <4>1 DEF TypesOK, IsSeq
      <4>3. c \o << >> = c
        BY <4>2, ConcatEmptySeq
      <4>. QED
        BY <1>5, <1>7, <1>10, <3>1, <4>1, <4>3
    <3>2. CASE r # p
      BY <1>7, <3>2
    <3>. QED
      BY <3>1, <3>2
  <2>2. q = 0 => prodSent'[r] = prodSent[r]
    BY <1>8, <1>10
  <2>. QED
    BY <1>0, <1>8, <2>1, <2>2, PairKept DEF TypesOK, InOrder
<1>11. \A q, r \in Parties : Fits(q, r)' /\ IsSeq(chan'[r][q]) /\ TagsOf(chan'[r][q]) \in Seq(Tag)
  BY <1>9, <1>10
<1>12. InOrder'
  BY <1>11 DEF InOrder
<1>13. TypesOK'
  BY <1>0, <1>7, <1>8, <1>11 DEF TypesOK
<1>. QED
  BY <1>12, <1>13 DEF Ordered

\* The first message of a channel is taken.
LEMMA TakesFirst ==
  ASSUME TypesOK, NEW p \in Parties, NEW q \in Parties, chan[q][p] # << >>, NEW e
  PROVE  /\ Len(<< e >>) = 1 /\ 1 <= Len(chan[q][p])
         /\ Tail(chan[q][p]) = SubSeq(chan[q][p], 1 + 1, Len(chan[q][p]))
<1>1. PICK c : c = chan[q][p]
  OBVIOUS
<1>2. c \in Seq(Range(c)) /\ c # << >>
  BY <1>1 DEF TypesOK, IsSeq
<1>3. Tail(c) = SubSeq(c, 2, Len(c)) /\ Len(c) \in Nat \ {0}
  BY <1>2, TailIsSubSeq, EmptySeq
<1>4. 1 + 1 = 2 /\ 1 <= Len(c)
  BY <1>3
<1>. QED
  BY <1>1, <1>3, <1>4

\* A party that is sent its share of a product back takes it; the first t take none.
LEMMA BackKeepsOrder ==
  ASSUME Ordered, Threshold # 0, NEW p \in Parties, GenProdPartiesReceive(p)
  PROVE  Ordered'
<1>0. TypesOK /\ InOrder
  BY DEF Ordered
<1>1. PICK n \in Nat : n = Len(shrProd[p]) /\ n < NProducts
  <2>1. Len(shrProd[p]) < NProducts
    BY DEF GenProdPartiesReceive
  <2>2. Len(shrProd[p]) \in Nat
    BY <1>0 DEF TypesOK, IsSeq
  <2>. QED
    BY <2>1, <2>2
<1>2. /\ UNCHANGED << sent, received, prodSent, opened >> /\ received[p] = 4
      /\ IF p >= Threshold THEN Receive(0, p) ELSE UNCHANGED chan
  BY DEF GenProdPartiesReceive, Joined, FIPrepRecv
<1>3. /\ shrProd' = [r \in Parties |-> shrProd'[r]] /\ IsSeq(shrProd'[p]) /\ Len(shrProd'[p]) = n + 1
      /\ \A r \in Parties : r # p => shrProd'[r] = shrProd[r]
  <2>1. PICK e : shrProd' = [shrProd EXCEPT ![p] = Append(shrProd[p], e)]
    BY DEF GenProdPartiesReceive
  <2>2. shrProd = [r \in Parties |-> shrProd[r]]
    BY <1>0 DEF TypesOK
  <2>3. shrProd'[p] = Append(shrProd[p], e)
    BY <2>1, <2>2
  <2>4. PICK s : s = shrProd[p]
    OBVIOUS
  <2>5. s \in Seq(Range(s)) /\ Len(s) = n
    BY <1>0, <1>1, <2>4 DEF TypesOK, IsSeq
  <2>6. PICK R : R = Range(s) \cup {e}
    OBVIOUS
  <2>7. s \in Seq(R) /\ e \in R
    BY <2>5, <2>6
  <2>8. Append(s, e) \in Seq(R) /\ Len(Append(s, e)) = n + 1
    BY <2>5, <2>7
  <2>9. IsSeq(Append(s, e))
    BY <2>8, OwnMembers
  <2>. QED
    BY <2>1, <2>2, <2>3, <2>4, <2>8, <2>9
<1>4. chan' = [r \in Parties |-> [q \in Parties |-> chan'[r][q]]]
  <2>1. chan = [r \in Parties |-> [q \in Parties |-> chan[r][q]]]
    BY <1>0 DEF TypesOK
  <2>2. chan' = chan \/ chan' = [chan EXCEPT ![0][p] = Tail(chan[0][p])]
    BY <1>2 DEF Receive
  <2>. QED
    BY <2>1, <2>2
<1>5. ASSUME NEW q \in Parties, NEW r \in Parties, ~(r = 0 /\ q = p)
      PROVE  Fits(q, r)' /\ IsSeq(chan'[r][q]) /\ TagsOf(chan'[r][q]) \in Seq(Tag)
  <2>1. chan'[r][q] = chan[r][q]
    <3>1. chan = [x \in Parties |-> [y \in Parties |-> chan[x][y]]]
      BY <1>0 DEF TypesOK
    <3>2. chan' = chan \/ chan' = [chan EXCEPT ![0][p] = Tail(chan[0][p])]
      BY <1>2 DEF Receive
    <3>3. CASE chan' = chan
      BY <3>3
    <3>4. CASE chan' = [chan EXCEPT ![0][p] = Tail(chan[0][p])]
      <4>1. CASE r = 0
        <5>1. chan'[r] = [chan[r] EXCEPT ![p] = Tail(chan[0][p])]
          BY <3>1, <3>4, <4>1
        <5>2. q # p
          BY <1>5, <4>1
        <5>3. DOMAIN chan[r] = Parties
          BY <3>1
        <5>. QED
          BY <5>1, <5>2, <5>3
      <4>2. CASE r # 0
        BY <3>1, <3>4, <4>2
      <4>. QED
        BY <4>1, <4>2
    <3>. QED
      BY <3>2, <3>3, <3>4
  <2>2. ReceivesBack(q, r) => q # p
    BY <1>5 DEF ReceivesBack
  <2>. QED
    BY <1>0, <1>2, <1>3, <2>1, <2>2, PairKept DEF TypesOK, InOrder
<1>6. ASSUME 0 \in Parties, ~(p >= Threshold)
      PROVE  Fits(p, 0)' /\ IsSeq(chan'[0][p]) /\ TagsOf(chan'[0][p]) \in Seq(Tag)
  <2>1. ~ReceivesBack(p, 0)
    BY <1>6 DEF ReceivesBack
  <2>. QED
    BY <1>0, <1>2, <1>6, <2>1, PairKept DEF TypesOK, InOrder
<1>7. ASSUME 0 \in Parties, p >= Threshold
      PROVE  Fits(p, 0)' /\ IsSeq(chan'[0][p]) /\ TagsOf(chan'[0][p]) \in Seq(Tag)
  <2>1. ReceivesBack(p, 0) /\ p # 0
    BY <1>7, ThresholdAssumption DEF ReceivesBack
  <2>2. chan[0][p] # << >> /\ chan'[0][p] = Tail(chan[0][p])
    <3>1. chan = [x \in Parties |-> [y \in Parties |-> chan[x][y]]]
      BY <1>0 DEF TypesOK
    <3>2. chan[0][p] # << >> /\ chan' = [chan EXCEPT ![0][p] = Tail(chan[0][p])]
      BY <1>2, <1>7 DEF Receive, Arrived
    <3>. QED
      BY <1>7, <3>1, <3>2
  <2>3. PICK e : e = << "back", n + 1 >>
    OBVIOUS
  <2>4. PICK rest : rest = ProductsBehind("back", n + 1)
    OBVIOUS
  <2>5. << e >> \in Seq(Tag) /\ ProductsBehind("back", n) = << e >> \o rest /\ rest \in Seq(Tag)
    <3>1. n \in 0 .. NProducts /\ n + 1 \in 0 .. NProducts /\ n < NProducts
      BY <1>1, Counts
    <3>. QED
      BY <2>3, <2>4, <3>1, ProductsInTurn
  <2>6. StillToReceive(p, 0) = << e >> \o rest
    <3>1. StillToReceive(p, 0) = << >> \o ProductsBehind("back", n)
      BY <1>0, <1>1, <1>2, <1>7, <2>1, OnlyProducts
    <3>2. << e >> \o rest \in Seq(Tag)
      BY <2>5, ConcatProperties
    <3>. QED
      BY <2>5, <3>1, <3>2, NoneBehind
  <2>7. StillToReceive(p, 0)' = rest
    <3>1. StillToReceive(p, 0)' =
            ItemsBehind(received'[p])
            \o (IF p = 0 THEN ProductsBehind("prod", opened') ELSE << >>)
            \o (IF ReceivesBack(p, 0) THEN ProductsBehind("back", Len(shrProd'[p])) ELSE << >>)
      BY DEF StillToReceive, ItemsBehind, ProductsBehind, ReceivesBack
    <3>2. StillToReceive(p, 0)' = << >> \o << >> \o rest
      BY <1>2, <1>3, <2>1, <2>4, <3>1, ItemsInTurn
    <3>. QED
      BY <2>5, <3>2, NoneBehind
  <2>8. StillToSend(p, 0)' = StillToSend(p, 0)
    BY <1>2 DEF StillToSend, ReceivesBack, ProductsBehind, ItemsBehind
  <2>9. /\ Len(<< e >>) = 1 /\ 1 <= Len(chan[0][p])
        /\ chan'[0][p] = SubSeq(chan[0][p], 1 + 1, Len(chan[0][p]))
    BY <1>0, <1>7, <2>2, TakesFirst
  <2>10. Fits(p, 0)
    BY <1>0, <1>7 DEF InOrder
  <2>. QED
    BY <1>0, <1>7, <2>5, <2>6, <2>7, <2>8, <2>9, <2>10, PairReceives
<1>8. \A q, r \in Parties : Fits(q, r)' /\ IsSeq(chan'[r][q]) /\ TagsOf(chan'[r][q]) \in Seq(Tag)
  BY <1>5, <1>6, <1>7
<1>9. InOrder'
  BY <1>8 DEF InOrder
<1>10. \A r \in Parties : IsSeq(shrProd'[r]) /\ Len(shrProd'[r]) <= NProducts
  <2>1. TAKE r \in Parties
  <2>2. CASE r = p
    <3>1. n + 1 <= NProducts
      BY <1>1, Counts
    <3>. QED
      BY <1>3, <2>2, <3>1
  <2>3. CASE r # p
    <3>1. shrProd'[r] = shrProd[r] /\ IsSeq(shrProd[r]) /\ Len(shrProd[r]) <= NProducts
      BY <1>0, <1>3, <2>3 DEF TypesOK
    <3>. QED
      BY <3>1
  <2>. QED
    BY <2>2, <2>3
<1>11. TypesOK'
  BY <1>0, <1>2, <1>3, <1>4, <1>8, <1>10 DEF TypesOK
<1>. QED
  BY <1>9, <1>11 DEF Ordered

\* What one round of P1 does to the channels.
LEMMA RoundOfP1 ==
  ASSUME TypesOK, GenProdP1ReceivesAndSends
  PROVE  /\ \A r \in Parties : chan[r][0] # << >>
         /\ chan' = [r \in Parties |-> [q \in Parties |-> chan'[r][q]]]
         /\ \A r, q \in Parties : r # 0 /\ q # 0 => chan'[r][q] = chan[r][q]
         /\ \A r \in Parties : r # 0 => chan'[r][0] = Tail(chan[r][0])
         /\ \E w : /\ chan'[0][0] = Tail(chan[0][0]) \o w[0]
                   /\ \A q \in Parties : q # 0 => chan'[0][q] = chan[0][q] \o w[q]
                   /\ \A q \in Parties : SentBackTo(q) =>
                        \E v : w[q] = << [val |-> v, tag |-> << "back", opened + 1 >>] >>
                   /\ \A q \in Parties : ~SentBackTo(q) => w[q] = << >>
<1> DEFINE i == opened + 1
           pack == PackOf(i)
           secret == SecretFromPointAndShares(PointOf(pack), [j \in 1 .. NParties |-> Received(j - 1, 0)])
           shares == SharesFromEvPoly(Opened(secret, pack), NParties)
           back(q) == IF SentBackTo(q) THEN << [val |-> shares[q + 1], tag |-> << "back", i >>] >> ELSE << >>
           taken == [q \in Parties |-> [chan[q] EXCEPT ![0] = Tail(@)]]
<1>0. 0 \in Parties
  BY NPartiesAssumption DEF Parties
<1>1. chan' = [taken EXCEPT ![0] = [q \in Parties |-> taken[0][q] \o back(q)]]
  BY DEF GenProdP1ReceivesAndSends
<1>2. \A r \in Parties : chan[r][0] # << >>
  BY DEF GenProdP1ReceivesAndSends, Arrived
<1>3. chan = [r \in Parties |-> [q \in Parties |-> chan[r][q]]]
  BY DEF TypesOK
<1>4. PICK w : w = [q \in Parties |-> back(q)]
  OBVIOUS
<1>5. \A q \in Parties : SentBackTo(q) => \E v : w[q] = << [val |-> v, tag |-> << "back", opened + 1 >>] >>
  BY <1>4
<1>6. \A q \in Parties : ~SentBackTo(q) => w[q] = << >>
  BY <1>4
<1>7. chan' = [taken EXCEPT ![0] = [q \in Parties |-> taken[0][q] \o w[q]]]
  <2> HIDE DEF back, taken
  <2>1. \A q \in Parties : w[q] = back(q)
    BY <1>4
  <2>2. [q \in Parties |-> taken[0][q] \o w[q]] = [q \in Parties |-> taken[0][q] \o back(q)]
    BY <2>1
  <2>. QED
    BY <1>1, <2>2
<1> HIDE DEF back
<1>8. \A r \in Parties : /\ chan[r] = [q \in Parties |-> chan[r][q]]
                         /\ taken[r] = [chan[r] EXCEPT ![0] = Tail(chan[r][0])]
  BY <1>3
<1>9. \A r, q \in Parties : taken[r][q] = IF q = 0 THEN Tail(chan[r][0]) ELSE chan[r][q]
  BY <1>0, <1>8
<1>10. \A r \in Parties : taken[r] = [q \in Parties |-> taken[r][q]]
  BY <1>8
<1>11. DOMAIN taken = Parties /\ taken = [r \in Parties |-> taken[r]]
  OBVIOUS
<1> HIDE DEF taken
<1>12. /\ chan'[0] = [q \in Parties |-> taken[0][q] \o w[q]]
       /\ \A r \in Parties : r # 0 => chan'[r] = taken[r]
       /\ chan' = [r \in Parties |-> chan'[r]]
  BY <1>0, <1>7, <1>11
<1>13. chan' = [r \in Parties |-> [q \in Parties |-> chan'[r][q]]]
  <2>1. \A r \in Parties : chan'[r] = [q \in Parties |-> chan'[r][q]]
    BY <1>10, <1>12
  <2>. QED
    BY <1>12, <2>1
<1>14. \A r, q \in Parties : r # 0 => chan'[r][q] = IF q = 0 THEN Tail(chan[r][0]) ELSE chan[r][q]
  BY <1>9, <1>12
<1>15. \A q \in Parties : chan'[0][q] = (IF q = 0 THEN Tail(chan[0][0]) ELSE chan[0][q]) \o w[q]
  <2>1. TAKE q \in Parties
  <2>2. PICK x : x = taken[0][q]
    OBVIOUS
  <2>3. x = IF q = 0 THEN Tail(chan[0][0]) ELSE chan[0][q]
    BY <1>0, <1>9, <2>2
  <2>4. chan'[0][q] = x \o w[q]
    BY <1>12, <2>2
  <2>. QED
    BY <2>3, <2>4
<1>16. /\ chan'[0][0] = Tail(chan[0][0]) \o w[0]
       /\ \A q \in Parties : q # 0 => chan'[0][q] = chan[0][q] \o w[q]
  BY <1>0, <1>15
<1>. QED
  BY <1>0, <1>2, <1>5, <1>6, <1>13, <1>14, <1>16

\* P1 takes one share of a product from everybody and sends back as many as it should.
LEMMA RoundKeepsOrder ==
  ASSUME Ordered, Threshold # 0, GenProdP1ReceivesAndSends
  PROVE  Ordered'
<1>0. TypesOK /\ InOrder /\ 0 \in Parties
  BY NPartiesAssumption DEF Ordered, Parties
<1>1. PICK n \in Nat : n = opened /\ n < NProducts /\ n \in 0 .. NProducts /\ n + 1 \in 0 .. NProducts
  BY <1>0, Counts DEF GenProdP1ReceivesAndSends, TypesOK
<1>2. /\ UNCHANGED << sent, received, prodSent, shrProd >> /\ opened' = n + 1
      /\ sent[0] = 4 /\ received[0] = 4
  BY <1>1 DEF GenProdP1ReceivesAndSends, Joined, FIPrepSend, FIPrepRecv
<1>3. ~(0 >= Threshold)
  BY ThresholdAssumption
<1>4. /\ \A r \in Parties : chan[r][0] # << >>
      /\ chan' = [r \in Parties |-> [q \in Parties |-> chan'[r][q]]]
      /\ \A r, q \in Parties : r # 0 /\ q # 0 => chan'[r][q] = chan[r][q]
      /\ \A r \in Parties : r # 0 => chan'[r][0] = Tail(chan[r][0])
  BY <1>0, RoundOfP1
<1>5. PICK w : /\ chan'[0][0] = Tail(chan[0][0]) \o w[0]
               /\ \A q \in Parties : q # 0 => chan'[0][q] = chan[0][q] \o w[q]
               /\ \A q \in Parties : SentBackTo(q) =>
                    \E v : w[q] = << [val |-> v, tag |-> << "back", opened + 1 >>] >>
               /\ \A q \in Parties : ~SentBackTo(q) => w[q] = << >>
  BY <1>0, RoundOfP1
<1>6. ASSUME NEW r \in Parties
      PROVE  Fits(0, r)' /\ IsSeq(chan'[r][0]) /\ TagsOf(chan'[r][0]) \in Seq(Tag)
  <2>1. ~ReceivesBack(0, r)
    BY <1>3 DEF ReceivesBack
  <2>2. PICK c : c = chan[r][0]
    OBVIOUS
  <2>3. IsSeq(c) /\ c # << >>
    BY <1>0, <1>4, <2>2 DEF TypesOK
  <2>4. chan'[r][0] = Tail(c)
    <3>1. CASE r # 0
      BY <1>4, <2>2, <3>1
    <3>2. CASE r = 0
      <4>1. w[0] = << >>
        BY <1>0, <1>3, <1>5 DEF SentBackTo
      <4>2. Tail(c) \in Seq(Range(c))
        BY <2>3 DEF IsSeq
      <4>3. Tail(c) \o << >> = Tail(c)
        BY <4>2, ConcatEmptySeq
      <4>. QED
        BY <1>5, <2>2, <3>2, <4>1, <4>3
    <3>. QED
      BY <3>1, <3>2
  <2>5. PICK e : e = << "prod", n + 1 >>
    OBVIOUS
  <2>6. PICK rest : rest = ProductsBehind("prod", n + 1)
    OBVIOUS
  <2>7. << e >> \in Seq(Tag) /\ ProductsBehind("prod", n) = << e >> \o rest /\ rest \in Seq(Tag)
    BY <1>1, <2>5, <2>6, ProductsInTurn
  <2>8. StillToReceive(0, r) = << e >> \o rest
    <3>1. StillToReceive(0, r) = ProductsBehind("prod", n) \o << >>
      BY <1>0, <1>1, <1>2, <2>1, OnlyProducts
    <3>2. << e >> \o rest \in Seq(Tag)
      BY <2>7, ConcatProperties
    <3>. QED
      BY <2>7, <3>1, <3>2, NoneBehind
  <2>9. StillToReceive(0, r)' = rest
    <3>1. StillToReceive(0, r)' =
            ItemsBehind(received'[0])
            \o (IF 0 = 0 THEN ProductsBehind("prod", opened') ELSE << >>)
            \o (IF ReceivesBack(0, r) THEN ProductsBehind("back", Len(shrProd'[0])) ELSE << >>)
      BY DEF StillToReceive, ItemsBehind, ProductsBehind, ReceivesBack
    <3>2. StillToReceive(0, r)' = << >> \o rest \o << >>
      BY <1>2, <2>1, <2>6, <3>1, ItemsInTurn
    <3>. QED
      BY <2>7, <3>2, NoneBehind
  <2>10. StillToSend(0, r)' = StillToSend(0, r)
    BY <1>2, <2>1 DEF StillToSend, ReceivesBack, ProductsBehind, ItemsBehind
  <2>11. /\ Len(<< e >>) = 1 /\ 1 <= Len(chan[r][0])
         /\ Tail(chan[r][0]) = SubSeq(chan[r][0], 1 + 1, Len(chan[r][0]))
    BY <1>0, <1>4, TakesFirst
  <2>12. Fits(0, r)
    BY <1>0 DEF InOrder
  <2>. QED
    BY <1>0, <2>2, <2>4, <2>7, <2>8, <2>9, <2>10, <2>11, <2>12, PairReceives
<1>7. ASSUME NEW q \in Parties, q # 0, q >= Threshold
      PROVE  Fits(q, 0)' /\ IsSeq(chan'[0][q]) /\ TagsOf(chan'[0][q]) \in Seq(Tag)
  <2>1. ReceivesBack(q, 0)
    BY <1>7 DEF ReceivesBack
  <2>2. PICK e : e = << "back", n + 1 >>
    OBVIOUS
  <2>3. PICK rest : rest = ProductsBehind("back", n + 1)
    OBVIOUS
  <2>4. << e >> \in Seq(Tag) /\ ProductsBehind("back", n) = << e >> \o rest /\ rest \in Seq(Tag)
    BY <1>1, <2>2, <2>3, ProductsInTurn
  <2>5. PICK m : m = w[q]
    OBVIOUS
  <2>6. IsSeq(m) /\ TagsOf(m) = << e >>
    <3>1. PICK v : m = << [val |-> v, tag |-> e] >>
      BY <1>1, <1>5, <1>7, <2>2, <2>5 DEF SentBackTo
    <3>2. PICK d : d = [val |-> v, tag |-> e]
      OBVIOUS
    <3>3. m = << d >> /\ d.tag = e
      BY <3>1, <3>2
    <3>4. DOMAIN << e >> = 1 .. 1 /\ DOMAIN m = 1 .. 1 /\ m = [i \in 1 .. 1 |-> m[i]]
      BY <3>3
    <3>5. \A i \in 1 .. 1 : m[i].tag = << e >>[i]
      BY <3>3
    <3>. QED
      BY <2>4, <3>4, <3>5, TagsMade
  <2>7. IsSeq(chan[0][q]) /\ Fits(q, 0)
    BY <1>0 DEF TypesOK, InOrder
  <2>8. IsSeq(chan'[0][q]) /\ TagsOf(chan'[0][q]) = TagsOf(chan[0][q]) \o << e >>
    <3>1. PICK c : c = chan[0][q]
      OBVIOUS
    <3>2. IsSeq(c \o m) /\ TagsOf(c \o m) = TagsOf(c) \o TagsOf(m)
      BY <2>6, <2>7, <3>1, TagsBehind
    <3>3. chan'[0][q] = c \o m
      BY <1>5, <1>7, <2>5, <3>1
    <3>. QED
      BY <2>6, <3>1, <3>2, <3>3
  <2>9. TagsOf(chan[0][q])' = TagsOf(chan[0][q]) \o << e >> /\ TagsOf(chan[0][q])' = TagsOf(chan'[0][q])
    BY <2>8 DEF TagsOf
  <2>10. StillToSend(q, 0) = << e >> \o rest
    <3>1. StillToSend(q, 0) = << >> \o ProductsBehind("back", n)
      BY <1>0, <1>1, <1>2, <1>7, <2>1, OnlyProducts
    <3>2. << e >> \o rest \in Seq(Tag)
      BY <2>4, ConcatProperties
    <3>. QED
      BY <2>4, <3>1, <3>2, NoneBehind
  <2>11. StillToSend(q, 0)' = rest
    <3>1. StillToSend(q, 0)' = ItemsBehind(4) \o << >> \o rest
      BY <1>2, <1>7, <2>1, <2>3 DEF StillToSend, ReceivesBack, ItemsBehind, ProductsBehind
    <3>. QED
      BY <2>4, <3>1, NoneBehind, ItemsInTurn
  <2>12. StillToReceive(q, 0)' = StillToReceive(q, 0)
    BY <1>2, <1>7 DEF StillToReceive
  <2>. QED
    BY <1>0, <2>4, <2>7, <2>8, <2>9, <2>10, <2>11, <2>12, PairSends
<1>8. ASSUME NEW q \in Parties, NEW r \in Parties, q # 0, ~(r = 0 /\ q >= Threshold)
      PROVE  Fits(q, r)' /\ IsSeq(chan'[r][q]) /\ TagsOf(chan'[r][q]) \in Seq(Tag)
  <2>1. chan'[r][q] = chan[r][q]
    <3>1. CASE r # 0
      BY <1>4, <1>8, <3>1
    <3>2. CASE r = 0
      <4>1. w[q] = << >>
        BY <1>5, <1>8, <3>2 DEF SentBackTo
      <4>2. PICK c : c = chan[r][q]
        OBVIOUS
      <4>3. c \in Seq(Range(c))
        BY <1>0, <4>2 DEF TypesOK, IsSeq
      <4>4. c \o << >> = c
        BY <4>3, ConcatEmptySeq
      <4>. QED
        BY <1>5, <1>8, <3>2, <4>1, <4>2, <4>4
    <3>. QED
      BY <3>1, <3>2
  <2>2. ~ReceivesBack(q, r)
    BY <1>8 DEF ReceivesBack
  <2>3. Fits(q, r) /\ IsSeq(chan[r][q]) /\ TagsOf(chan[r][q]) \in Seq(Tag)
    BY <1>0 DEF TypesOK, InOrder
  <2>4. Fits(q, r)'
    BY <1>2, <1>8, <2>1, <2>2, <2>3, PairKept
  <2>. QED
    BY <2>1, <2>3, <2>4
<1>9. \A q, r \in Parties : Fits(q, r)' /\ IsSeq(chan'[r][q]) /\ TagsOf(chan'[r][q]) \in Seq(Tag)
  <2>1. TAKE q, r \in Parties
  <2>2. CASE q = 0
    BY <1>6, <2>2
  <2>3. CASE q # 0 /\ r = 0 /\ q >= Threshold
    BY <1>7, <2>3
  <2>4. CASE q # 0 /\ ~(r = 0 /\ q >= Threshold)
    BY <1>8, <2>4
  <2>. QED
    BY <2>2, <2>3, <2>4
<1>10. InOrder'
  BY <1>9 DEF InOrder
<1>11. TypesOK'
  BY <1>0, <1>1, <1>2, <1>4, <1>9 DEF TypesOK
<1>. QED
  BY <1>10, <1>11 DEF Ordered

-----------------------------------------------------------------------------
(* The invariant and the theorem.                                           *)

\* At first nothing has been sent, and nothing received.
LEMMA InitOrdered == Init => Ordered
<1> SUFFICES ASSUME Init PROVE Ordered
  OBVIOUS
<1>1. /\ sent = [p \in Parties |-> 0] /\ received = [p \in Parties |-> 0] /\ prodSent = [p \in Parties |-> FALSE]
      /\ opened = 0 /\ shrProd = [p \in Parties |-> << >>]
      /\ chan = [p \in Parties |-> [q \in Parties |-> << >>]]
  BY DEF Init, NoMessages
<1>2. IsSeq(<< >>) /\ Len(<< >>) = 0 /\ TagsOf(<< >>) = << >>
  BY DEF IsSeq, TagsOf
<1>3. 0 \in 0 .. NProducts /\ 0 <= NProducts /\ << >> \in Seq(Tag)
  BY Counts
<1>4. TypesOK
  <2>1. sent \in [Parties -> 0 .. 4] /\ received \in [Parties -> 0 .. 4] /\ prodSent \in [Parties -> BOOLEAN]
    BY <1>1
  <2>2. shrProd = [p \in Parties |-> shrProd[p]] /\ \A p \in Parties : shrProd[p] = << >>
    BY <1>1
  <2>3. \A p \in Parties : IsSeq(shrProd[p]) /\ Len(shrProd[p]) <= NProducts
    BY <1>2, <1>3, <2>2
  <2>4. chan = [p \in Parties |-> [q \in Parties |-> chan[p][q]]] /\ \A p, q \in Parties : chan[p][q] = << >>
    BY <1>1
  <2>5. \A p, q \in Parties : IsSeq(chan[p][q]) /\ TagsOf(chan[p][q]) \in Seq(Tag)
    BY <1>2, <1>3, <2>4
  <2>. QED
    BY <1>1, <1>3, <2>1, <2>2, <2>3, <2>4, <2>5 DEF TypesOK
<1>5. ASSUME NEW p \in Parties, NEW q \in Parties PROVE Fits(p, q)
  <2>1. StillToSend(p, q) = StillToReceive(p, q)
    <3>1. /\ sent[q] = 0 /\ received[p] = 0 /\ ~prodSent[q] /\ opened = 0
          /\ Len(shrProd[p]) = 0
      BY <1>1, <1>2
    <3>. QED
      BY <3>1, ToReceive DEF StillToSend
  <2>2. TagsOf(chan[q][p]) = << >>
    BY <1>1, <1>2
  <2>. QED
    BY <1>4, <2>1, <2>2, StillTypes, NoneBehind DEF Fits
<1>. QED
  BY <1>4, <1>5 DEF Ordered, InOrder

\* No step disturbs the order.
LEMMA NextOrdered ==
  ASSUME Ordered, Threshold # 0, [Next]_vars
  PROVE  Ordered'
<1>1. ASSUME NEW p \in Parties, PartiesSend(p) PROVE Ordered'
  BY <1>1, SendKeepsOrder
<1>2. ASSUME NEW p \in Parties, GenIndShrsPartiesReceive(p) PROVE Ordered'
  BY <1>2, ReceiveKeepsOrder DEF GenIndShrsPartiesReceive
<1>3. ASSUME NEW p \in Parties, GenUnpackedShrPartiesReceive(p) PROVE Ordered'
  BY <1>3, ReceiveKeepsOrder DEF GenUnpackedShrPartiesReceive
<1>4. ASSUME NEW p \in Parties, GenZeroPartiesReceive(p) PROVE Ordered'
  BY <1>4, ReceiveKeepsOrder DEF GenZeroPartiesReceive
<1>5. ASSUME NEW p \in Parties, GenZeroForProdPartiesReceive(p) PROVE Ordered'
  BY <1>5, ReceiveKeepsOrder DEF GenZeroForProdPartiesReceive
<1>6. ASSUME NEW p \in Parties, GenProdPartiesSendP1(p) PROVE Ordered'
  BY <1>6, ProductsKeepOrder
<1>7. ASSUME NEW p \in Parties, GenProdPartiesReceive(p) PROVE Ordered'
  BY <1>7, BackKeepsOrder
<1>8. CASE GenProdP1ReceivesAndSends
  BY <1>8, RoundKeepsOrder
<1>9. CASE UNCHANGED vars
  <2>1. UNCHANGED << sent, received, prodSent, opened, shrProd, chan >>
    BY <1>9 DEF vars
  <2>2. TypesOK /\ InOrder
    BY DEF Ordered
  <2>3. TypesOK'
    BY <2>1, <2>2 DEF TypesOK, TagsOf, IsSeq
  <2>4. \A p, q \in Parties : Fits(p, q)'
    BY <2>1, <2>2, PairKept DEF InOrder
  <2>. QED
    BY <2>3, <2>4 DEF Ordered, InOrder
<1>. QED
  BY <1>1, <1>2, <1>3, <1>4, <1>5, <1>6, <1>7, <1>8, <1>9 DEF Next, Step

\* What is on its way is the beginning of what is still to be received.
LEMMA OrderedReceives == Ordered => ReceivesItsOwn
<1> SUFFICES ASSUME Ordered, NEW p \in Parties, NEW q \in Parties
             PROVE  IsPrefix([i \in 1 .. Len(chan[q][p]) |-> chan[q][p][i].tag], StillToReceive(p, q))
  BY DEF ReceivesItsOwn
<1>1. TypesOK /\ Fits(p, q)
  BY DEF Ordered, InOrder
<1>2. PICK s, u \in Seq(Tag) : s = TagsOf(chan[q][p]) /\ u = StillToSend(p, q)
  BY <1>1, StillTypes
<1>3. IsPrefix(s, s \o u) /\ s \o u = StillToReceive(p, q)
  BY <1>1, <1>2, PrefixOfConcat DEF Fits
<1>. QED
  BY <1>2, <1>3 DEF TagsOf

\* Every message of the preprocessing is received for what it was sent for, in
\* whatever order the threads of the parties run: Gen*PartiesSend and
\* Gen*PartiesReceive call for the functions in the same order, and neither the
\* shares of products on their way to P1 nor those it sends back are taken for
\* anything else (fi_prep.cc, circuits.h).  Threshold 0 is left out because it
\* is false there, though SetThreshold accepts it.
THEOREM ReceivedForItself == ASSUME Threshold # 0 PROVE Spec => []ReceivesItsOwn
<1>1. Init => Ordered
  BY InitOrdered
<1>2. Ordered /\ [Next]_vars => Ordered'
  BY NextOrdered
<1>3. Ordered => ReceivesItsOwn
  BY OrderedReceives
<1>. QED
  BY <1>1, <1>2, <1>3, PTL DEF Spec

-----------------------------------------------------------------------------
(* Whether what is made is enough.                                          *)

\* As many blocks of t + 1 as the code makes are enough.
LEMMA BlocksCover == \A f \in Functions4 : Blocks(f) * (Threshold + 1) >= Amount(f)
<1> SUFFICES ASSUME NEW f \in Functions4 PROVE Blocks(f) * (Threshold + 1) >= Amount(f)
  OBVIOUS
<1>1. PICK a \in Nat : a = Amount(f)
  BY AmountsAssumption DEF Functions4, Amount
<1>2. PICK m \in Nat \ {0} : m = Threshold + 1
  BY ThresholdAssumption
<1>3. PICK x \in Nat : x = a + Threshold /\ x = a + m - 1
  BY <1>2, ThresholdAssumption
<1>4. x \div m \in Nat /\ x % m \in Nat /\ x % m < m /\ x = (x \div m) * m + (x % m)
  OBVIOUS
<1>5. PICK d \in Nat, r \in 0 .. m - 1 : d = x \div m /\ x = d * m + r
  BY <1>4
<1>6. d * m \in Nat /\ d * m >= a
  BY <1>3, <1>5, OneMore
<1>. QED
  BY <1>1, <1>2, <1>3, <1>5, <1>6 DEF Blocks

\* So a party gets at least as many shares as there are to be.
LEMMA EnoughMixed ==
  ASSUME NEW p, NEW f \in Functions4
  PROVE  IsSeq(Mixed(p, f)[1]) /\ Len(Mixed(p, f)[1]) >= Amount(f)
<1> DEFINE row(b) == [s \in 1 .. Threshold + 1 |-> MixedShare(p, f, 1, b, s - 1)]
<1>1. PICK n \in Nat : n = Blocks(f)
  BY Counts
<1>2. PICK m \in Nat \ {0} : m = Threshold + 1
  BY ThresholdAssumption
<1>3. PICK rows : rows = [b \in 1 .. n |-> row(b)]
  OBVIOUS
<1>4. PICK S : \A b \in 1 .. n : \A s \in 1 .. m : MixedShare(p, f, 1, b, s - 1) \in S
  <2> DEFINE S == { MixedShare(p, f, 1, x[1], x[2] - 1) : x \in (1 .. n) \X (1 .. m) }
  <2>1. ASSUME NEW b \in 1 .. n, NEW s \in 1 .. m PROVE MixedShare(p, f, 1, b, s - 1) \in S
    <3>1. << b, s >> \in (1 .. n) \X (1 .. m) /\ << b, s >>[1] = b /\ << b, s >>[2] = s
      OBVIOUS
    <3>. QED
      BY <3>1
  <2>. QED
    BY <2>1
<1>5. \A b \in 1 .. n : row(b) \in Seq(S) /\ Len(row(b)) = m
  <2> SUFFICES ASSUME NEW b \in 1 .. n PROVE row(b) \in Seq(S) /\ Len(row(b)) = m
    OBVIOUS
  <2>1. row(b) \in [1 .. m -> S]
    BY <1>2, <1>4
  <2> HIDE DEF row
  <2>. QED
    BY <2>1
<1>6. rows \in Seq(Seq(S)) /\ Len(rows) = n /\ \A i \in 1 .. Len(rows) : Len(rows[i]) = m
  <2> HIDE DEF row
  <2>1. PICK U : U = Seq(S)
    OBVIOUS
  <2>2. rows \in [1 .. n -> U]
    BY <1>3, <1>5, <2>1
  <2>3. rows \in Seq(U) /\ Len(rows) = n
    BY <2>2
  <2>. QED
    BY <1>3, <1>5, <2>1, <2>3
<1>7. FlattenSeq(rows) \in Seq(S) /\ Len(FlattenSeq(rows)) = n * m
  BY <1>6, FlattenEqual
<1>8. Mixed(p, f)[1] = FlattenSeq(rows)
  <2>1. 1 \in 1 .. Packs(f)
    BY ThresholdAssumption DEF Packs
  <2>. QED
    BY <1>1, <1>3, <2>1 DEF Mixed
<1>9. n * m >= Amount(f)
  BY <1>1, <1>2, BlocksCover
<1>. QED
  BY <1>7, <1>8, <1>9, OwnMembers

\* Of the shares of zero all behind the first 3m are given to batches of inputs
\* and outputs.
LEMMA EnoughGiven ==
  ASSUME NEW mixed, IsSeq(mixed), Len(mixed) >= 3 * NMultBatches + NInOutBatches
  PROVE  Len(FlattenSeq([i \in DOMAIN mixed |->
                IF GivenToInOut(i) THEN << [number |-> i, O |-> mixed[i]] >> ELSE << >>])) >= NInOutBatches
<1>1. PICK n \in Nat : n = Len(mixed) /\ DOMAIN mixed = 1 .. n
  BY DEF IsSeq
<1>2. PICK k \in Nat, z \in Nat : k = 3 * NMultBatches /\ z = NInOutBatches /\ n >= k + z
  BY <1>1, AmountsAssumption
<1>3. PICK S : S = { [number |-> i, O |-> mixed[i]] : i \in 1 .. n }
  OBVIOUS
<1>4. PICK s : s = [i \in 1 .. n |-> IF GivenToInOut(i) THEN << [number |-> i, O |-> mixed[i]] >> ELSE << >>]
  OBVIOUS
<1>5. PICK U : U = Seq(S)
  OBVIOUS
<1>6. s \in Seq(U) /\ Len(s) = n /\ \A i \in 1 .. n : i > k => Len(s[i]) = 1
  <2>1. ASSUME NEW i \in 1 .. n
        PROVE  /\ << [number |-> i, O |-> mixed[i]] >> \in U
               /\ Len(<< [number |-> i, O |-> mixed[i]] >>) = 1
               /\ << >> \in U
    <3>1. PICK e \in S : e = [number |-> i, O |-> mixed[i]]
      BY <1>3
    <3>. QED
      BY <3>1, <1>5
  <2>2. s \in [1 .. n -> U]
    BY <1>4, <2>1
  <2>3. ASSUME NEW i \in 1 .. n, i > k PROVE Len(s[i]) = 1
    <3>1. GivenToInOut(i)
      BY <1>2, <2>3 DEF GivenToInOut
    <3>. QED
      BY <1>4, <2>1, <3>1
  <2>. QED
    BY <2>2, <2>3
<1>7. PICK a, b \in Seq(U) : /\ s = a \o b /\ Len(b) = n - k
                             /\ \A i \in 1 .. Len(b) : Len(b[i]) = 1
  <2>1. k \in 0 .. Len(s)
    BY <1>2, <1>6
  <2>2. PICK a, b : a = SubSeq(s, 1, k) /\ b = SubSeq(s, k + 1, Len(s))
    OBVIOUS
  <2>3. a \in Seq(U) /\ b \in Seq(U) /\ Len(b) = n - k /\ a \o b = s
    BY <1>6, <2>1, <2>2, SplitAt
  <2>4. \A i \in 1 .. n - k : b[i] = s[k + i]
    BY <1>6, <2>2
  <2>5. \A i \in 1 .. Len(b) : Len(b[i]) = 1
    <3> SUFFICES ASSUME NEW i \in 1 .. n - k PROVE Len(b[i]) = 1
      BY <2>3
    <3>1. PICK j \in 1 .. n : j = k + i /\ j > k
      BY <1>2
    <3>2. Len(s[j]) = 1
      BY <1>6, <3>1
    <3>. QED
      BY <2>4, <3>1, <3>2
  <2>. QED
    BY <2>3, <2>5
<1>8. FlattenSeq(s) = FlattenSeq(a) \o FlattenSeq(b)
  BY <1>5, <1>7, FlattenConcat
<1>9. FlattenSeq(a) \in U /\ FlattenSeq(b) \in U /\ Len(FlattenSeq(b)) = (n - k) * 1
  BY <1>5, <1>7, FlattenType, FlattenEqual
<1>10. Len(FlattenSeq(s)) >= z
  BY <1>2, <1>5, <1>8, <1>9
<1>. QED
  BY <1>1, <1>2, <1>4, <1>10

\* One record for every batch of multiplications.
PerBatch(m) == m = [b \in 1 .. NMultBatches |-> m[b]]

LEMMA Batches ==
  ASSUME NEW m, PerBatch(m)
  PROVE  DOMAIN m = 1 .. NMultBatches /\ Len(m) = NMultBatches
<1>1. m = [b \in 1 .. NMultBatches |-> m[b]]
  BY DEF PerBatch
<1>2. DOMAIN m = DOMAIN [b \in 1 .. NMultBatches |-> m[b]]
  BY <1>1, Zenon
<1>. QED
  BY <1>1, <1>2, FromPlaces, AmountsAssumption

\* What a party has made after so many functions.
EnoughMade(p) ==
  /\ received[p] >= 1 => Len(indShrs[p]) >= NIndShrs
  /\ received[p] >= 2 => PerBatch(multPrep[p])
  /\ received[p] >= 3 => Len(ioPrep[p]) >= NInOutBatches

MaterialTypes ==
  /\ received \in [Parties -> 0 .. 4]
  /\ indShrs = [p \in Parties |-> indShrs[p]]
  /\ multPrep = [p \in Parties |-> multPrep[p]]
  /\ ioPrep = [p \in Parties |-> ioPrep[p]]

Made == MaterialTypes /\ \A p \in Parties : EnoughMade(p)

LEMMA InitMade == Init => Made
BY DEF Init, Made, MaterialTypes, EnoughMade

\* Steps that have nothing to do with a function's shares.
LEMMA MadeKept ==
  ASSUME Made, UNCHANGED << received, indShrs, multPrep, ioPrep >>
  PROVE  Made'
BY DEF Made, MaterialTypes, EnoughMade

\* The functions are received one after the other.
LEMMA ReceivedInTurn ==
  ASSUME MaterialTypes, NEW p \in Parties, NEW f, Receives(p, f)
  PROVE  /\ received' \in [Parties -> 0 .. 4] /\ received'[p] = received[p] + 1
         /\ \A q \in Parties : q # p => received'[q] = received[q]
         /\ f = "ind" => received[p] = 0
         /\ f = "unpacked" => received[p] = 1
         /\ f = "zero" => received[p] = 2
         /\ f = "zeroProd" => received[p] = 3
BY DEF MaterialTypes, Receives, FIPrepRecv

LEMMA IndMade ==
  ASSUME Made, NEW p \in Parties, GenIndShrsPartiesReceive(p)
  PROVE  Made'
<1>1. MaterialTypes /\ \A q \in Parties : EnoughMade(q)
  BY DEF Made
<1>2. Receives(p, "ind") /\ UNCHANGED << multPrep, ioPrep >>
  BY DEF GenIndShrsPartiesReceive
<1>3. PICK m : m = Mixed(p, "ind")[1] /\ indShrs' = [indShrs EXCEPT ![p] = m]
  BY DEF GenIndShrsPartiesReceive
<1>4. Len(m) >= NIndShrs
  BY <1>3, EnoughMixed DEF Functions4, Amount
<1>5. /\ received' \in [Parties -> 0 .. 4] /\ received[p] = 0 /\ received'[p] = 1
      /\ \A q \in Parties : q # p => received'[q] = received[q]
  BY <1>1, <1>2, ReceivedInTurn
<1>6. /\ indShrs' = [q \in Parties |-> indShrs'[q]] /\ indShrs'[p] = m
      /\ \A q \in Parties : q # p => indShrs'[q] = indShrs[q]
  BY <1>1, <1>3 DEF MaterialTypes
<1>7. MaterialTypes'
  BY <1>1, <1>2, <1>5, <1>6 DEF MaterialTypes
<1>8. ASSUME NEW q \in Parties PROVE EnoughMade(q)'
  <2>1. CASE q = p
    BY <1>4, <1>5, <1>6, <2>1 DEF EnoughMade
  <2>2. CASE q # p
    BY <1>1, <1>2, <1>5, <1>6, <2>2 DEF EnoughMade
  <2>. QED
    BY <2>1, <2>2
<1>. QED
  BY <1>7, <1>8 DEF Made

LEMMA UnpackedMade ==
  ASSUME Made, NEW p \in Parties, GenUnpackedShrPartiesReceive(p)
  PROVE  Made'
<1>1. MaterialTypes /\ \A q \in Parties : EnoughMade(q)
  BY DEF Made
<1>2. Receives(p, "unpacked") /\ UNCHANGED << indShrs, ioPrep >>
  BY DEF GenUnpackedShrPartiesReceive
<1>3. multPrep' = [multPrep EXCEPT ![p] = [b \in 1 .. NMultBatches |-> FactorsOf(p, b)]]
  BY DEF GenUnpackedShrPartiesReceive
<1>4. PICK m : PerBatch(m) /\ multPrep' = [multPrep EXCEPT ![p] = m]
  <2>1. PICK m : m = [b \in 1 .. NMultBatches |-> FactorsOf(p, b)]
    OBVIOUS
  <2>2. PerBatch(m)
    BY <2>1 DEF PerBatch
  <2>. QED
    BY <1>3, <2>1, <2>2
<1>5. /\ received' \in [Parties -> 0 .. 4] /\ received[p] = 1 /\ received'[p] = 2
      /\ \A q \in Parties : q # p => received'[q] = received[q]
  BY <1>1, <1>2, ReceivedInTurn
<1>6. /\ multPrep' = [q \in Parties |-> multPrep'[q]] /\ multPrep'[p] = m
      /\ \A q \in Parties : q # p => multPrep'[q] = multPrep[q]
  BY <1>1, <1>4 DEF MaterialTypes
<1>7. MaterialTypes'
  BY <1>1, <1>2, <1>5, <1>6 DEF MaterialTypes
<1>8. ASSUME NEW q \in Parties PROVE EnoughMade(q)'
  <2>1. CASE q = p
    <3>1. PerBatch(multPrep'[p])
      BY <1>4, <1>6
    <3>2. Len(indShrs'[p]) >= NIndShrs
      BY <1>1, <1>2, <1>5 DEF EnoughMade
    <3>3. ~(received'[p] >= 3)
      BY <1>5
    <3>. QED
      BY <2>1, <3>1, <3>2, <3>3 DEF EnoughMade
  <2>2. CASE q # p
    BY <1>1, <1>2, <1>5, <1>6, <2>2 DEF EnoughMade
  <2>. QED
    BY <2>1, <2>2
<1>. QED
  BY <1>7, <1>8 DEF Made

LEMMA ZeroMade ==
  ASSUME Made, NEW p \in Parties, GenZeroPartiesReceive(p)
  PROVE  Made'
<1>1. MaterialTypes /\ \A q \in Parties : EnoughMade(q)
  BY DEF Made
<1>2. Receives(p, "zero") /\ UNCHANGED indShrs
  BY DEF GenZeroPartiesReceive
<1>3. PICK mixed : mixed = Mixed(p, "zero")[1]
  OBVIOUS
<1>4. /\ multPrep' = [multPrep EXCEPT ![p] =
           [b \in DOMAIN @ |-> [@[b] EXCEPT !.O1 = mixed[b], !.O2 = mixed[NMultBatches + b],
                                           !.O3 = mixed[2 * NMultBatches + b]]]]
      /\ ioPrep' = [ioPrep EXCEPT ![p] =
           FlattenSeq([i \in DOMAIN mixed |->
             IF GivenToInOut(i) THEN << [number |-> i, O |-> mixed[i]] >> ELSE << >>])]
  BY <1>3 DEF GenZeroPartiesReceive
<1>5. PICK io : /\ ioPrep' = [ioPrep EXCEPT ![p] = io]
                /\ Len(io) >= NInOutBatches
  <2>1. IsSeq(mixed) /\ Len(mixed) >= 3 * NMultBatches + NInOutBatches
    BY <1>3, EnoughMixed DEF Functions4, Amount
  <2>2. PICK io : io = FlattenSeq([i \in DOMAIN mixed |->
             IF GivenToInOut(i) THEN << [number |-> i, O |-> mixed[i]] >> ELSE << >>])
    OBVIOUS
  <2>3. Len(io) >= NInOutBatches
    BY <2>1, <2>2, EnoughGiven
  <2>4. ioPrep' = [ioPrep EXCEPT ![p] = io]
    BY <1>4, <2>2
  <2>. QED
    BY <2>3, <2>4
<1>6. /\ received' \in [Parties -> 0 .. 4] /\ received[p] = 2 /\ received'[p] = 3
      /\ \A q \in Parties : q # p => received'[q] = received[q]
  BY <1>1, <1>2, ReceivedInTurn
<1>7. PICK old : old = multPrep[p] /\ DOMAIN old = 1 .. NMultBatches
  <2>1. PerBatch(multPrep[p])
    BY <1>1, <1>6 DEF EnoughMade
  <2>. QED
    BY <2>1, Batches
<1>8. PICK m : PerBatch(m) /\ multPrep' = [multPrep EXCEPT ![p] = m]
  <2>1. PICK m : m = [b \in DOMAIN old |-> [old[b] EXCEPT !.O1 = mixed[b], !.O2 = mixed[NMultBatches + b],
                                                          !.O3 = mixed[2 * NMultBatches + b]]]
    OBVIOUS
  <2>2. multPrep' = [multPrep EXCEPT ![p] = m]
    BY <1>1, <1>4, <1>7, <2>1 DEF MaterialTypes
  <2>3. PerBatch(m)
    BY <1>7, <2>1 DEF PerBatch
  <2>. QED
    BY <2>2, <2>3
<1>9. /\ multPrep' = [q \in Parties |-> multPrep'[q]] /\ multPrep'[p] = m
      /\ \A q \in Parties : q # p => multPrep'[q] = multPrep[q]
  BY <1>1, <1>8 DEF MaterialTypes
<1>10. /\ ioPrep' = [q \in Parties |-> ioPrep'[q]] /\ ioPrep'[p] = io
       /\ \A q \in Parties : q # p => ioPrep'[q] = ioPrep[q]
  BY <1>1, <1>5 DEF MaterialTypes
<1>11. MaterialTypes'
  BY <1>1, <1>2, <1>6, <1>9, <1>10 DEF MaterialTypes
<1>12. ASSUME NEW q \in Parties PROVE EnoughMade(q)'
  <2>1. CASE q = p
    <3>1. PerBatch(multPrep'[p])
      BY <1>8, <1>9
    <3>2. Len(indShrs'[p]) >= NIndShrs
      BY <1>1, <1>2, <1>6 DEF EnoughMade
    <3>3. Len(ioPrep'[p]) >= NInOutBatches
      BY <1>5, <1>10
    <3>. QED
      BY <2>1, <3>1, <3>2, <3>3 DEF EnoughMade
  <2>2. CASE q # p
    BY <1>1, <1>2, <1>6, <1>9, <1>10, <2>2 DEF EnoughMade
  <2>. QED
    BY <2>1, <2>2
<1>. QED
  BY <1>11, <1>12 DEF Made

LEMMA ZeroProdMade ==
  ASSUME Made, NEW p \in Parties, GenZeroForProdPartiesReceive(p)
  PROVE  Made'
<1>1. MaterialTypes /\ \A q \in Parties : EnoughMade(q)
  BY DEF Made
<1>2. Receives(p, "zeroProd") /\ UNCHANGED << indShrs, multPrep, ioPrep >>
  BY DEF GenZeroForProdPartiesReceive
<1>3. /\ received' \in [Parties -> 0 .. 4] /\ received[p] = 3 /\ received'[p] = 4
      /\ \A q \in Parties : q # p => received'[q] = received[q]
  BY <1>1, <1>2, ReceivedInTurn
<1>4. ASSUME NEW q \in Parties PROVE EnoughMade(q)'
  <2>1. CASE q = p
    BY <1>1, <1>2, <1>3, <2>1 DEF EnoughMade
  <2>2. CASE q # p
    BY <1>1, <1>2, <1>3, <2>2 DEF EnoughMade
  <2>. QED
    BY <2>1, <2>2
<1>. QED
  BY <1>1, <1>2, <1>3, <1>4 DEF Made, MaterialTypes

\* The last product gives every batch its C, and there are as many batches as before.
LEMMA ProductsMade ==
  ASSUME Made, NEW p \in Parties, GenProdPartiesReceive(p)
  PROVE  Made'
<1>1. MaterialTypes /\ \A q \in Parties : EnoughMade(q)
  BY DEF Made
<1>2. received[p] = 4 /\ UNCHANGED << received, indShrs, ioPrep >>
  BY DEF GenProdPartiesReceive, Joined, FIPrepRecv
<1>3. PICK old : old = multPrep[p] /\ DOMAIN old = 1 .. NMultBatches
  <2>1. PerBatch(multPrep[p])
    BY <1>1, <1>2 DEF EnoughMade
  <2>. QED
    BY <2>1, Batches
<1>4. PICK f : multPrep' = multPrep \/ multPrep' = [multPrep EXCEPT ![p] =
                                                       [b \in DOMAIN @ |-> f[b]]]
  <2>1. PICK prods : multPrep' = multPrep \/ multPrep' = [multPrep EXCEPT ![p] =
          [b \in DOMAIN @ |-> [@[b] EXCEPT !.C =
             Packed(p, [pack \in 1 .. BatchSize |-> prods[(pack - 1) * NMultBatches + b]])]]]
    BY DEF GenProdPartiesReceive
  <2>2. PICK f : f = [b \in DOMAIN old |-> [old[b] EXCEPT !.C =
             Packed(p, [pack \in 1 .. BatchSize |-> prods[(pack - 1) * NMultBatches + b]])]]
    OBVIOUS
  <2>3. f = [b \in DOMAIN old |-> f[b]]
    BY <2>2
  <2>4. [multPrep EXCEPT ![p] = [b \in DOMAIN @ |-> [@[b] EXCEPT !.C =
             Packed(p, [pack \in 1 .. BatchSize |-> prods[(pack - 1) * NMultBatches + b]])]]]
        = [multPrep EXCEPT ![p] = f]
    BY <1>1, <1>3, <2>2 DEF MaterialTypes
  <2>5. [multPrep EXCEPT ![p] = [b \in DOMAIN @ |-> f[b]]] = [multPrep EXCEPT ![p] = f]
    BY <1>1, <1>3, <2>3 DEF MaterialTypes
  <2>. QED
    BY <2>1, <2>4, <2>5
<1>5. CASE multPrep' = multPrep
  BY <1>2, <1>5, MadeKept
<1>6. CASE multPrep' = [multPrep EXCEPT ![p] = [b \in DOMAIN @ |-> f[b]]]
  <2>1. PICK m : m = [b \in 1 .. NMultBatches |-> f[b]]
    OBVIOUS
  <2>2. /\ multPrep' = [q \in Parties |-> multPrep'[q]] /\ multPrep'[p] = m
        /\ \A q \in Parties : q # p => multPrep'[q] = multPrep[q]
    BY <1>1, <1>3, <1>6, <2>1 DEF MaterialTypes
  <2>3. MaterialTypes'
    BY <1>1, <1>2, <2>2 DEF MaterialTypes
  <2>4. PerBatch(multPrep'[p])
    BY <2>1, <2>2 DEF PerBatch
  <2>5. ASSUME NEW q \in Parties PROVE EnoughMade(q)'
    <3>1. CASE q = p
      BY <1>1, <1>2, <2>4, <3>1 DEF EnoughMade
    <3>2. CASE q # p
      BY <1>1, <1>2, <2>2, <3>2 DEF EnoughMade
    <3>. QED
      BY <3>1, <3>2
  <2>. QED
    BY <2>3, <2>5 DEF Made
<1>. QED
  BY <1>4, <1>5, <1>6

LEMMA NextMade == Made /\ [Next]_vars => Made'
<1> SUFFICES ASSUME Made, [Next]_vars PROVE Made'
  OBVIOUS
<1>1. ASSUME NEW p \in Parties, PartiesSend(p) \/ GenProdPartiesSendP1(p) PROVE Made'
  BY <1>1, MadeKept DEF PartiesSend, GenProdPartiesSendP1
<1>2. ASSUME NEW p \in Parties, GenIndShrsPartiesReceive(p) PROVE Made'
  BY <1>2, IndMade
<1>3. ASSUME NEW p \in Parties, GenUnpackedShrPartiesReceive(p) PROVE Made'
  BY <1>3, UnpackedMade
<1>4. ASSUME NEW p \in Parties, GenZeroPartiesReceive(p) PROVE Made'
  BY <1>4, ZeroMade
<1>5. ASSUME NEW p \in Parties, GenZeroForProdPartiesReceive(p) PROVE Made'
  BY <1>5, ZeroProdMade
<1>6. ASSUME NEW p \in Parties, GenProdPartiesReceive(p) PROVE Made'
  BY <1>6, ProductsMade
<1>7. CASE GenProdP1ReceivesAndSends
  BY <1>7, MadeKept DEF GenProdP1ReceivesAndSends
<1>8. CASE UNCHANGED vars
  BY <1>8, MadeKept DEF vars
<1>. QED
  BY <1>1, <1>2, <1>3, <1>4, <1>5, <1>6, <1>7, <1>8 DEF Next, Step

LEMMA MadeIsEnough == Made => NeverRunsOut
<1> SUFFICES ASSUME Made, AllFinished, NEW p \in Parties
             PROVE  /\ Len(indShrs[p]) >= NIndShrs
                    /\ Len(multPrep[p]) = NMultBatches
                    /\ Len(ioPrep[p]) >= NInOutBatches
  BY DEF NeverRunsOut
<1>1. received[p] = 4
  BY DEF AllFinished, Joined, FIPrepRecv
<1>2. PerBatch(multPrep[p])
  BY <1>1 DEF Made, EnoughMade
<1>3. Len(multPrep[p]) = NMultBatches
  BY <1>2, Batches
<1>. QED
  BY <1>1, <1>2, <1>3 DEF Made, EnoughMade

\* Whatever the numbers of gates and batches, and whether the threshold divides
\* them or not, the blocks of t + 1 that fi_prep.cc makes are enough for what
\* MapCorrToCircuit takes, one share after the other without looking at the size
\* of the vectors (correlator.h), the shares of zero that are handed to inputs and
\* outputs by the misplaced else included.
THEOREM MaterialSuffices == Spec => []NeverRunsOut
<1>1. Init => Made
  BY InitMade
<1>2. Made /\ [Next]_vars => Made'
  BY NextMade
<1>3. Made => NeverRunsOut
  BY MadeIsEnough
<1>. QED
  BY <1>1, <1>2, <1>3, PTL DEF Spec
=============================================================================
