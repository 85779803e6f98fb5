-------------------------- MODULE SequentialProofs --------------------------
(***************************************************************************)
(* Two of the parts that run in one thread keep streams of bytes in step,  *)
(* and that they do is proved here for every job: the typed messages of a  *)
(* channel (Messages) and the buffer of the hash (HashBuffer).  Each has   *)
(* an inductive invariant of its own; the other parts of the program do    *)
(* not run its jobs.                                                       *)
(***************************************************************************)
EXTENDS Sequential, StreamLemmas

-----------------------------------------------------------------------------
(* Messages: the bytes of a message.                                       *)

\* The values of a byte.
Byte == 0 .. Base - 1

\* How bytes are put one after the other makes no difference.
LEMMA BytesInTurn == \A a, b, c \in Seq(Byte) : a \o (b \o c) = (a \o b) \o c
BY ThreeParts

\* A size or a value is two bytes, and these tell it up to 32 bits.
LEMMA WordOf ==
  ASSUME NEW v \in Nat
  PROVE  /\ Word(v) \in Seq(Byte) /\ Len(Word(v)) = 2
         /\ \A a, b : a = Word(v)[1] /\ b = Word(v)[2] => a + Base * b = v % Uint32
<1>0. Base \in Nat \ {0}
  BY MessagesAssumption
<1>1. PICK q \in Nat, r \in Byte : v = q * Base + r /\ q = v \div Base /\ r = v % Base
  BY <1>0, Quotient DEF Byte
<1>2. PICK p \in Nat, s \in Byte : q = p * Base + s /\ p = q \div Base /\ s = q % Base
  BY <1>0, Quotient DEF Byte
<1>3. Word(v) = << r, s >>
  BY <1>1, <1>2 DEF Word
<1>4. PICK m \in Nat \ {0} : m = Base * Base
  <2>1. Base * Base \in Nat /\ Base * Base >= Base
    BY <1>0, NoFewer
  <2>. QED
    BY <1>0, <2>1
<1>5. (p * Base + s) * Base + r = p * m + (s * Base + r)
  <2>0. Base \in Nat /\ p * Base \in Nat /\ s \in Nat
    BY <1>0 DEF Byte
  <2>a. \A a, b, c \in Nat : (a + b) * c = a * c + b * c
    OBVIOUS
  <2>b. \A a, c \in Nat : (a * c) * c = a * (c * c)
    OBVIOUS
  <2>1. (p * Base + s) * Base = (p * Base) * Base + s * Base /\ (p * Base) * Base = p * (Base * Base)
    BY <2>0, <2>a, <2>b
  <2>2. p * Base \in Nat /\ s * Base \in Nat /\ p * m \in Nat
    BY <1>0 DEF Byte
  <2>. QED
    BY <1>4, <2>1, <2>2 DEF Byte
<1>6. s * Base + r \in 0 .. m - 1
  <2>1. PICK h \in Nat : h = Base - 1 /\ Base = h + 1 /\ s \in Nat /\ s <= h
    BY <1>0 DEF Byte
  <2>2. s * Base <= h * Base /\ s * Base \in Nat
    BY <1>0, <2>1, NoFewer
  <2>3. m = h * Base + Base /\ h * Base \in Nat
    BY <1>0, <1>4, <2>1, OneMore
  <2>. QED
    BY <1>0, <2>2, <2>3 DEF Byte
<1>7. v % m = s * Base + r
  <2>1. PICK t \in 0 .. m - 1 : t = s * Base + r
    BY <1>6
  <2>2. v = p * m + t
    BY <1>1, <1>2, <1>5, <2>1
  <2>3. v % m = t
    <3>1. Divided(v, m, p, t)
      BY <2>2 DEF Divided
    <3>. QED
      BY <3>1, OneQuotient
  <2>. QED
    BY <2>1, <2>3
<1>8. ASSUME NEW a, NEW b, a = Word(v)[1], b = Word(v)[2] PROVE a + Base * b = v % Uint32
  <2>1. a = r /\ b = s
    BY <1>3, <1>8
  <2>2. r + Base * s = s * Base + r
    BY <1>0 DEF Byte
  <2>. QED
    BY <1>4, <1>7, <2>1, <2>2 DEF Uint32
<1>. QED
  BY <1>3, <1>8

\* What values are as bytes, and that they can be read from whatever begins
\* with these.
LEMMA Written ==
  ASSUME NEW v \in Seq(Nat)
  PROVE  /\ Write(v) \in Seq(Byte) /\ Len(Write(v)) = Len(v) * 2
         /\ \A b : (\A j \in 1 .. Len(v) * 2 : b[j] = Write(v)[j])
                      => \A i \in 1 .. Len(v) : FromWord(b, i) = v[i] % Uint32
<1>1. PICK n \in Nat : n = Len(v)
  OBVIOUS
<1>2. PICK w : w = [i \in DOMAIN v |-> Word(v[i])]
  OBVIOUS
<1>3. w \in Seq(Seq(Byte)) /\ Len(w) = n /\ \A i \in 1 .. Len(w) : w[i] = Word(v[i]) /\ Len(w[i]) = 2
  <2>1. \A i \in 1 .. n : Word(v[i]) \in Seq(Byte) /\ Len(Word(v[i])) = 2
    BY <1>1, WordOf
  <2>2. w = [i \in 1 .. n |-> Word(v[i])]
    BY <1>1, <1>2
  <2> QED
    BY <2>1, <2>2
<1>4. Write(v) = FlattenSeq(w)
  BY <1>2 DEF Write
<1>5. Write(v) \in Seq(Byte) /\ Len(Write(v)) = n * 2
  BY <1>3, <1>4, FlattenEqual
<1>6. \A j \in 1 .. n, r \in 1 .. 2 : Write(v)[(j - 1) * 2 + r] = Word(v[j])[r]
  <2>1. AllOfLength(w, 2)
    BY <1>3 DEF AllOfLength
  <2>2. InPlace(w, 2)
    BY <1>3, <2>1, FlattenPlaces
  <2>3. \A j \in 1 .. n, r \in 1 .. 2 : FlattenSeq(w)[(j - 1) * 2 + r] = w[j][r]
    BY <1>3, <2>2 DEF InPlace
  <2>4. \A j \in 1 .. n : w[j] = Word(v[j])
    BY <1>3
  <2>. QED
    BY <1>4, <2>3, <2>4
<1>7. ASSUME NEW b, \A j \in 1 .. n * 2 : b[j] = Write(v)[j], NEW i \in 1 .. n
      PROVE  FromWord(b, i) = v[i] % Uint32
  <2>1. 2 * i - 1 \in 1 .. n * 2 /\ 2 * i \in 1 .. n * 2 /\ (i - 1) * 2 + 1 = 2 * i - 1 /\ (i - 1) * 2 + 2 = 2 * i
    OBVIOUS
  <2>2. b[2 * i - 1] = Word(v[i])[1] /\ b[2 * i] = Word(v[i])[2]
    BY <1>6, <1>7, <2>1
  <2>3. v[i] \in Nat
    BY <1>1
  <2>4. b[2 * i - 1] + Base * b[2 * i] = v[i] % Uint32
    BY <2>2, <2>3, WordOf
  <2>. QED
    BY <2>4 DEF FromWord
<1>. QED
  BY <1>1, <1>5, <1>7

\* What is sent for a message: its sizes, then its values.
Encoding == [m \in TypedMessages |-> Write(Header(m)) \o Write(m.values)]

\* The parts of a message, by its kind.
LEMMA MessageParts ==
  ASSUME NEW m \in TypedMessages
  PROVE  /\ m.kind \in {"scalar", "stl", "vec", "mat"}
         /\ m.values \in Seq(Values) /\ m.values \in Seq(Nat) /\ Len(m.values) \in Nat
         /\ Header(m) \in Seq(Nat)
         /\ m.kind = "mat" => /\ m \in MatrixMessages /\ m.rows \in Nat /\ m.cols \in Nat
                              /\ Header(m) = << m.rows, m.cols >>
         /\ m.kind = "vec" => Header(m) = << Len(m.values) >>
         /\ m.kind \notin {"vec", "mat"} => Header(m) = << >>
         /\ m.kind # "mat" => m \in [kind : {"scalar", "stl", "vec"}, values : Seq(Values)]
<1>1. Values \subseteq Nat
  BY MessagesAssumption DEF Values
<1>2. CASE m \in [kind : {"scalar", "stl", "vec"}, values : Seq(Values)]
  BY <1>1, <1>2 DEF Header
<1>3. CASE m \in MatrixMessages
  BY <1>1, <1>3 DEF Header, MatrixMessages
<1>. QED
  BY <1>2, <1>3 DEF TypedMessages

\* All messages are bytes on the stream.
LEMMA Encodes == Maps(Encoding, TypedMessages, Byte)
<1> SUFFICES ASSUME NEW m \in TypedMessages PROVE Write(Header(m)) \o Write(m.values) \in Seq(Byte)
  BY DEF Maps, Encoding
<1>1. Header(m) \in Seq(Nat) /\ m.values \in Seq(Nat)
  BY MessageParts
<1>2. Write(Header(m)) \in Seq(Byte) /\ Write(m.values) \in Seq(Byte)
  BY <1>1, Written
<1>. QED
  BY <1>2

-----------------------------------------------------------------------------
(* Messages: sizes.                                                        *)

\* The sizes of a message that the receiver goes by.
Announced(m) == IF m.kind \in {"vec", "mat"} THEN [i \in DOMAIN Header(m) |-> Header(m)[i] % Uint32]
                                             ELSE << Len(m.values) >>

\* The limit is a 32-bit number; a remainder is one too.
LEMMA Remainders ==
  /\ Uint32 \in Nat \ {0} /\ MaxReadSize \in Nat /\ MaxReadSize < Uint32
  /\ \A v \in Nat : v % Uint32 \in Nat /\ (v < Uint32 => v % Uint32 = v)
<1>1. Uint32 \in Nat \ {0} /\ MaxReadSize \in Nat /\ MaxReadSize < Uint32
  BY MessagesAssumption DEF Uint32
<1>. QED
  BY <1>1

\* Neither side of a matrix whose entries can be counted wraps.
LEMMA SidesFit ==
  ASSUME NEW m \in MatrixMessages, Len(m.values) < Uint32
  PROVE  m.rows \in Nat /\ m.cols \in Nat /\ m.rows < Uint32 /\ m.cols < Uint32
<1>1. PICK r \in Nat, c \in Nat, l \in Nat : r = m.rows /\ c = m.cols /\ l = Len(m.values) /\ l = r * c
  BY DEF MatrixMessages
<1>2. CASE m.values = << >>
  BY <1>2 DEF MatrixMessages, Uint32
<1>3. CASE m.values # << >>
  <2>1. l # 0 /\ l < Uint32
    BY <1>1, <1>3 DEF MatrixMessages
  <2>2. r # 0 /\ c # 0
    BY <1>1, <2>1
  <2>3. 1 * c <= r * c /\ 1 * r <= c * r
    BY <2>2, NoFewer
  <2>4. c <= l /\ r <= l
    BY <1>1, <2>3
  <2>. QED
    BY <1>1, <2>1, <2>4, Remainders
<1>. QED
  BY <1>2, <1>3

\* The sizes that arrive are right for a message within the limit. If they are
\* not found to be too large, the message is within the limit or they wrapped.
LEMMA SizesTold ==
  ASSUME NEW m \in TypedMessages, NEW n, n = Announced(m)
  PROVE  /\ WithinLimit(m) =>
              /\ n = (IF m.kind = "mat" THEN << m.rows, m.cols >> ELSE << Len(m.values) >>)
              /\ ElementCount(n) = Len(m.values) /\ ~(m.kind \in {"vec", "mat"} /\ TooLarge(n))
              /\ m.kind = "mat" => n[1] * n[2] = ElementCount(n)
         /\ m.kind \in {"vec", "mat"} /\ ~TooLarge(n) => WithinLimit(m) \/ Wraps(m)
<1>1. PICK l \in Nat : l = Len(m.values)
  BY MessageParts
<1>2. Uint32 \in Nat \ {0} /\ MaxReadSize \in Nat /\ MaxReadSize < Uint32
  BY Remainders
<1>3. CASE m.kind \notin {"vec", "mat"}
  <2>1. n = << l >>
    BY <1>1, <1>3 DEF Announced
  <2>. QED
    BY <1>1, <1>3, <2>1 DEF ElementCount, WithinLimit
<1>4. CASE m.kind = "vec"
  <2>1. n = << l % Uint32 >>
    <3>1. Header(m) = << l >>
      BY <1>1, <1>4, MessageParts
    <3>. QED
      BY <1>4, <3>1 DEF Announced
  <2>2. ElementCount(n) = l % Uint32
    BY <2>1 DEF ElementCount
  <2>3. l < Uint32 => l % Uint32 = l
    BY Remainders
  <2>4. WithinLimit(m) <=> l <= MaxReadSize
    BY <1>1, <1>4 DEF WithinLimit
  <2>5. Wraps(m) <=> l >= Uint32
    BY <1>1, <1>4 DEF Wraps
  <2>6. TooLarge(n) <=> l % Uint32 > MaxReadSize
    BY <2>2 DEF TooLarge
  <2>7. WithinLimit(m) => n = << l >> /\ ElementCount(n) = l /\ ~TooLarge(n)
    BY <1>2, <2>1, <2>2, <2>3, <2>4, <2>6
  <2>8. ~TooLarge(n) => WithinLimit(m) \/ Wraps(m)
    BY <1>2, <2>3, <2>4, <2>5, <2>6
  <2>9. m.kind # "mat"
    BY <1>4
  <2>. QED
    BY <1>1, <2>7, <2>8, <2>9
<1>5. CASE m.kind = "mat"
  <2>1. PICK r \in Nat, c \in Nat : r = m.rows /\ c = m.cols
    BY <1>5, MessageParts
  <2>2. n = << r % Uint32, c % Uint32 >>
    <3>1. Header(m) = << r, c >>
      BY <1>5, <2>1, MessageParts
    <3>. QED
      BY <1>5, <3>1 DEF Announced
  <2>3. ASSUME l < Uint32 PROVE n = << r, c >> /\ ElementCount(n) = l /\ n[1] * n[2] = l
    <3>1. m \in MatrixMessages /\ l = r * c
      BY <1>1, <1>5, <2>1, MessageParts DEF MatrixMessages
    <3>2. r < Uint32 /\ c < Uint32
      BY <1>1, <2>1, <2>3, <3>1, SidesFit
    <3>3. n = << r, c >>
      BY <2>2, <3>2, Remainders
    <3>4. ElementCount(n) = l % Uint32 /\ n[1] * n[2] = l
      BY <3>1, <3>3 DEF ElementCount
    <3>5. l % Uint32 = l
      BY <2>3, Remainders
    <3>. QED
      BY <3>3, <3>4, <3>5
  <2>. QED
    BY <1>1, <1>2, <1>5, <2>1, <2>3 DEF TooLarge, WithinLimit, Wraps
<1>6. m.kind \notin {"vec", "mat"} \/ m.kind = "vec" \/ m.kind = "mat"
  OBVIOUS
<1>. QED
  BY <1>3, <1>4, <1>5, <1>6

-----------------------------------------------------------------------------
(* Messages: the exchange and its invariant.                               *)

\* What was not sent yet.
StillToCome == Ahead(Encoding, job.messages, sent + 1)

\* The type of an exchange.
ExchangeShape ==
  /\ job.op = "exchange" /\ pc \in {"start", "content", "thrown", "undefined", "returned"}
  /\ job.messages \in Seq(TypedMessages)
  /\ stream \in Seq(Byte) /\ sent \in 0 .. Len(job.messages)
  /\ IsSeq(answer) /\ Len(answer) \in 0 .. Len(job.messages)
  /\ pc = "content" => Len(answer) < Len(job.messages) /\ ElementCount(sizes) \in Nat

\* Messages that were received in step are the ones that were sent.
GotRight ==
  \A i \in DOMAIN answer : InStep(i) =>
    IF WithinLimit(job.messages[i]) THEN answer[i] = job.messages[i] ELSE Wraps(job.messages[i])

\* The message whose sizes were read: its content is what the stream goes on
\* with.
Due ==
  IF WithinLimit(Wanted)
    THEN /\ sizes = Announced(Wanted)
         /\ stream \o StillToCome = Write(Wanted.values) \o Ahead(Encoding, job.messages, Len(answer) + 2)
    ELSE Wraps(Wanted)

\* Where the stream is in the messages, as long as the exchange is in step.
Aligned ==
  InStep(Len(answer) + 1) =>
    /\ pc = "start" => stream \o StillToCome = Ahead(Encoding, job.messages, Len(answer) + 1)
    /\ pc = "content" => Due
    /\ pc = "thrown" => ~WithinLimit(Wanted)
    /\ pc = "undefined" => Wanted.kind = "mat" /\ Wraps(Wanted)
    /\ pc = "returned" => stream = << >>

\* The inductive invariant of an exchange.
Exchanged == ExchangeShape /\ GotRight /\ Aligned

\* It holds when nothing was sent.
LEMMA ExchangeStarts ==
  ASSUME CallInit, MessagesInit, job.op = "exchange"
  PROVE  Exchanged
<1>1. /\ job.messages \in Seq(TypedMessages) /\ pc = "start" /\ answer = << >>
      /\ stream = << >> /\ sent = 0
  BY ExchangesAssumption DEF CallInit, MessagesInit
<1>2. Len(answer) = 0 /\ DOMAIN answer = {} /\ IsSeq(answer) /\ stream \in Seq(Byte)
  BY <1>1 DEF IsSeq
<1>3. Ahead(Encoding, job.messages, 1) \in Seq(Byte)
  <2>1. \A s \in Seq(TypedMessages) : \A n \in 1 .. Len(s) + 1 : Ahead(Encoding, s, n) \in Seq(Byte)
    BY Encodes, AheadInTurn
  <2>. QED
    BY <1>1, <2>1
<1>4. << >> \o Ahead(Encoding, job.messages, 1) = Ahead(Encoding, job.messages, 1)
  BY <1>3
<1>. QED
  BY <1>1, <1>2, <1>4 DEF Exchanged, ExchangeShape, GotRight, Aligned, StillToCome

\* The words of s begin with the values v.
BeginsWith(s, v) == \A i \in 1 .. Len(v) : FromWord(s, i) = v[i] % Uint32

\* What is taken off the stream is what is wanted of it, and the rest is left.
LEMMA Taken ==
  ASSUME NEW s \in Seq(Byte), NEW u \in Seq(Byte), NEW v \in Seq(Nat), NEW w \in Seq(Byte),
         s \o u = Write(v) \o w, Len(s) >= 2 * Len(v)
  PROVE  SubSeq(s, 2 * Len(v) + 1, Len(s)) \o u = w /\ BeginsWith(s, v)
<1>0. PICK t : t = SubSeq(s, 2 * Len(v) + 1, Len(s))
  OBVIOUS
<1>1. PICK a \in Seq(Byte) : a = Write(v) /\ Len(a) = 2 * Len(v)
  BY Written
<1>2. t \o u = w
  <2>1. s \o u = a \o w /\ Len(a) <= Len(s) /\ t = SubSeq(s, Len(a) + 1, Len(s))
    BY <1>0, <1>1
  <2>. QED
    BY <2>1, Cancel
<1>3. PICK n \in Nat, l \in Nat : n = Len(v) * 2 /\ n = Len(a) /\ l = Len(s) /\ n <= l
  BY <1>1
<1>4. ASSUME NEW j \in 1 .. n PROVE s[j] = a[j]
  <2>1. (s \o u)[j] = s[j]
    BY <1>3
  <2>2. (a \o w)[j] = a[j]
    BY <1>3
  <2>. QED
    BY <1>1, <2>1, <2>2
<1>5. \A j \in 1 .. Len(v) * 2 : s[j] = Write(v)[j]
  BY <1>1, <1>3, <1>4
<1>6. \A i \in 1 .. Len(v) : FromWord(s, i) = v[i] % Uint32
  BY <1>5, Written
<1>. QED
  BY <1>0, <1>2, <1>6 DEF BeginsWith

\* What is ahead: the sizes of the next message, its values, and the messages
\* after it.
LEMMA NextMessage ==
  ASSUME NEW s \in Seq(TypedMessages), NEW n \in 1 .. Len(s)
  PROVE  /\ s[n] \in TypedMessages
         /\ Write(Header(s[n])) \in Seq(Byte) /\ Write(s[n].values) \in Seq(Byte)
         /\ Ahead(Encoding, s, n) \in Seq(Byte) /\ Ahead(Encoding, s, n + 1) \in Seq(Byte)
         /\ Ahead(Encoding, s, n) = (Write(Header(s[n])) \o Write(s[n].values)) \o Ahead(Encoding, s, n + 1)
         /\ Ahead(Encoding, s, n) = Write(Header(s[n])) \o (Write(s[n].values) \o Ahead(Encoding, s, n + 1))
<1>1. /\ s[n] \in TypedMessages
      /\ Ahead(Encoding, s, n) \in Seq(Byte) /\ Ahead(Encoding, s, n + 1) \in Seq(Byte)
      /\ Ahead(Encoding, s, n) = Encoding[s[n]] \o Ahead(Encoding, s, n + 1)
  <2>1. s[n] \in TypedMessages /\ n \in 1 .. Len(s) + 1 /\ n + 1 \in 1 .. Len(s) + 1
    OBVIOUS
  <2>2. PICK t \in Seq(Byte) : t = Encoding[s[n]]
    BY <2>1, Encodes DEF Maps
  <2>3. HeadAndRest(Encoding, s, n, Byte)
    BY Encodes, AheadParts
  <2>4. Ahead(Encoding, s, n) \in Seq(Byte)
    <3>1. PICK a \in Seq(Byte), b \in Seq(Byte) : a = Encoding[s[n]] /\ b = Ahead(Encoding, s, n + 1) /\ Ahead(Encoding, s, n) = a \o b
      BY <2>3 DEF HeadAndRest
    <3>. QED
      BY <3>1
  <2>. QED
    BY <2>1, <2>3, <2>4 DEF HeadAndRest
<1>2. Header(s[n]) \in Seq(Nat) /\ s[n].values \in Seq(Nat)
  BY <1>1, MessageParts
<1>3. PICK h \in Seq(Byte), v \in Seq(Byte), w \in Seq(Byte) :
        h = Write(Header(s[n])) /\ v = Write(s[n].values) /\ w = Ahead(Encoding, s, n + 1)
  BY <1>1, <1>2, Written
<1>4. Encoding[s[n]] = h \o v
  BY <1>1, <1>3 DEF Encoding
<1>5. (h \o v) \o w = h \o (v \o w)
  BY BytesInTurn
<1>. QED
  BY <1>1, <1>3, <1>4, <1>5

\* The bytes ahead at every place of an exchange; there are none at its end.
LEMMA Places ==
  ASSUME ExchangeShape
  PROVE  /\ StillToCome \in Seq(Byte)
         /\ \A n \in 1 .. Len(job.messages) + 1 : Ahead(Encoding, job.messages, n) \in Seq(Byte)
         /\ Ahead(Encoding, job.messages, Len(job.messages) + 1) = << >>
<1>1. PICK s : s = job.messages
  OBVIOUS
<1>2. s \in Seq(TypedMessages) /\ sent + 1 \in 1 .. Len(s) + 1
  BY <1>1 DEF ExchangeShape
<1>3. /\ \A r \in Seq(TypedMessages) : \A n \in 1 .. Len(r) + 1 : Ahead(Encoding, r, n) \in Seq(Byte)
      /\ \A r \in Seq(TypedMessages) : Ahead(Encoding, r, Len(r) + 1) = << >>
  BY Encodes, AheadInTurn
<1>. QED
  BY <1>1, <1>2, <1>3 DEF StillToCome

\* Sending a message moves it from what is to come to the stream.
LEMMA SendKeeps ==
  ASSUME Exchanged, SendNext
  PROVE  Exchanged'
<1>0. PICK s \in Seq(TypedMessages) : s = job.messages /\ sent \in Nat /\ sent < Len(s)
  BY DEF Exchanged, ExchangeShape, SendNext
<1>1. PICK n \in 1 .. Len(s) : n = sent + 1
  BY <1>0
<1>2. PICK h \in Seq(Byte), v \in Seq(Byte), w \in Seq(Byte) :
        /\ h = Write(Header(s[n])) /\ v = Write(s[n].values) /\ w = Ahead(Encoding, s, n + 1)
        /\ Ahead(Encoding, s, n) = (h \o v) \o w
  BY NextMessage
<1>3. /\ job' = job /\ pc' = pc /\ answer' = answer /\ sizes' = sizes /\ sent' = n
      /\ stream' = stream \o h \o v /\ stream \in Seq(Byte) /\ sent \in Nat /\ pc \in {"start", "content"}
  BY <1>0, <1>1, <1>2 DEF SendNext, callVars, At, Exchanged, ExchangeShape
<1>4. stream' \in Seq(Byte)
  BY <1>3
<1>5. stream' \o StillToCome' = stream \o StillToCome
  <2>a. PICK q \in Seq(Byte) : q = stream
    BY <1>3
  <2>1. (q \o h) \o v = q \o (h \o v)
    BY BytesInTurn
  <2>2. PICK a \in Seq(Byte) : a = h \o v
    <3>1. h \o v \in Seq(Byte)
      BY <1>2
    <3>. QED
      BY <3>1
  <2>3. q \o (a \o w) = (q \o a) \o w
    BY BytesInTurn
  <2>4. StillToCome' = w
    BY <1>0, <1>1, <1>2, <1>3 DEF StillToCome
  <2>5. StillToCome = a \o w
    BY <1>0, <1>1, <1>2, <2>2 DEF StillToCome
  <2>. QED
    BY <1>3, <2>a, <2>1, <2>2, <2>3, <2>4, <2>5
<1>6. ExchangeShape'
  BY <1>0, <1>1, <1>3, <1>4 DEF Exchanged, ExchangeShape
<1>7. GotRight'
  BY <1>3 DEF Exchanged, GotRight, InStep
<1>8. Aligned'
  BY <1>3, <1>5 DEF Exchanged, Aligned, Due, InStep, Wanted
<1>. QED
  BY <1>6, <1>7, <1>8 DEF Exchanged

\* The sizes, as they are read from the stream.
ReadSizes ==
  IF Wanted.kind \in {"vec", "mat"} THEN [i \in DOMAIN Header(Wanted) |-> FromWord(stream, i)]
                                    ELSE << Len(Wanted.values) >>

\* However the sizes came about, the number of elements is a number.
LEMMA SizesCounted ==
  ASSUME ExchangeShape, Len(answer) < Len(job.messages), Arrived(Len(Header(Wanted)))
  PROVE  ElementCount(ReadSizes) \in Nat
<1>1. PICK m \in TypedMessages : m = Wanted
  BY DEF ExchangeShape, Wanted
<1>2. PICK s \in Seq(Byte) : s = stream /\ Len(s) >= 2 * Len(Header(m))
  BY <1>1 DEF ExchangeShape, Arrived
<1>3. Base \in Nat \ {0} /\ Uint32 \in Nat \ {0}
  BY MessagesAssumption, Remainders
<1>4. \A i \in 1 .. Len(Header(m)) : FromWord(s, i) \in Nat
  <2>1. ASSUME NEW i \in 1 .. Len(Header(m)) PROVE FromWord(s, i) \in Nat
    <3>1. 2 * i - 1 \in 1 .. Len(s) /\ 2 * i \in 1 .. Len(s)
      BY <1>2, <1>1, MessageParts
    <3>2. PICK a \in Nat, b \in Nat : a = s[2 * i - 1] /\ b = s[2 * i]
      <4>1. s[2 * i - 1] \in Byte /\ s[2 * i] \in Byte
        BY <3>1
      <4>2. Byte \subseteq Nat
        BY <1>3 DEF Byte
      <4>. QED
        BY <4>1, <4>2
    <3>. QED
      BY <1>3, <3>2, SMTT(30) DEF FromWord
  <2>. QED
    BY <2>1
<1>5. CASE m.kind \notin {"vec", "mat"}
  BY <1>1, <1>5, MessageParts DEF ReadSizes, ElementCount
<1>6. CASE m.kind = "vec"
  <2>1. Len(Header(m)) = 1 /\ DOMAIN Header(m) = 1 .. 1
    BY <1>6, MessageParts
  <2>2. ReadSizes = [i \in 1 .. 1 |-> FromWord(s, i)]
    BY <1>1, <1>2, <1>6, <2>1 DEF ReadSizes
  <2>. QED
    BY <1>4, <2>1, <2>2 DEF ElementCount
<1>7. CASE m.kind = "mat"
  <2>1. Len(Header(m)) = 2 /\ DOMAIN Header(m) = 1 .. 2
    BY <1>7, MessageParts
  <2>2. ReadSizes = [i \in 1 .. 2 |-> FromWord(s, i)]
    BY <1>1, <1>2, <1>7, <2>1 DEF ReadSizes
  <2>3. PICK a \in Nat, b \in Nat : a = ReadSizes[1] /\ b = ReadSizes[2] /\ Len(ReadSizes) = 2
    BY <1>4, <2>1, <2>2
  <2>. QED
    BY <1>3, <2>3 DEF ElementCount
<1>. QED
  BY <1>5, <1>6, <1>7

\* The sizes of a message that begins where the stream does.
LEMMA SizesRead ==
  ASSUME ExchangeShape, pc = "start", Aligned, InStep(Len(answer) + 1),
         Len(answer) < Len(job.messages), Arrived(Len(Header(Wanted))), Received(Len(Header(Wanted)))
  PROVE  /\ ReadSizes = Announced(Wanted) /\ stream' \in Seq(Byte)
         /\ stream' \o StillToCome = Write(Wanted.values) \o Ahead(Encoding, job.messages, Len(answer) + 2)
<1>0. PICK s \in Seq(TypedMessages) : s = job.messages
  BY DEF ExchangeShape
<1>1. PICK n \in 1 .. Len(s) : s = job.messages /\ n = Len(answer) + 1
  BY <1>0 DEF ExchangeShape
<1>2. PICK m \in TypedMessages : m = Wanted /\ m = s[n]
  BY <1>1 DEF Wanted
<1>3. PICK h \in Seq(Nat) : h = Header(m)
  BY MessageParts
<1>4. PICK v \in Seq(Byte), w \in Seq(Byte), r \in Seq(Byte) :
        /\ v = Write(m.values) /\ w = Ahead(Encoding, s, n + 1) /\ r = v \o w
        /\ Ahead(Encoding, s, n) = Write(h) \o r
  <2>1. /\ Write(m.values) \in Seq(Byte) /\ Ahead(Encoding, s, n + 1) \in Seq(Byte)
        /\ Ahead(Encoding, s, n) = Write(h) \o (Write(m.values) \o Ahead(Encoding, s, n + 1))
    BY <1>2, <1>3, NextMessage
  <2>2. Write(m.values) \o Ahead(Encoding, s, n + 1) \in Seq(Byte)
    BY <2>1
  <2>. QED
    BY <2>1, <2>2
<1>5. stream \o StillToCome = Write(h) \o r /\ stream \in Seq(Byte) /\ StillToCome \in Seq(Byte)
  BY <1>1, <1>4, Places DEF Aligned, ExchangeShape
<1>6. Len(stream) >= 2 * Len(h) /\ stream' = SubSeq(stream, 2 * Len(h) + 1, Len(stream))
  BY <1>2, <1>3 DEF Arrived, Received
<1>7. stream' \o StillToCome = r /\ \A i \in 1 .. Len(h) : FromWord(stream, i) = h[i] % Uint32
  <2>1. PICK q \in Seq(Byte), u \in Seq(Byte) : q = stream /\ u = StillToCome
    BY <1>5
  <2>t. PICK t : t = stream'
    OBVIOUS
  <2>2. q \o u = Write(h) \o r /\ Len(q) >= 2 * Len(h) /\ t = SubSeq(q, 2 * Len(h) + 1, Len(q))
    BY <1>5, <1>6, <2>1, <2>t
  <2>3. SubSeq(q, 2 * Len(h) + 1, Len(q)) \o u = r /\ BeginsWith(q, h)
    BY <2>2, Taken
  <2>. QED
    BY <2>1, <2>t, <2>2, <2>3 DEF BeginsWith
<1>8. stream' \in Seq(Byte)
  BY <1>5, <1>6
<1>9. ReadSizes = Announced(m)
  <2>1. DOMAIN h = 1 .. Len(h)
    OBVIOUS
  <2>. QED
    BY <1>2, <1>3, <1>7, <2>1 DEF ReadSizes, Announced
<1>. QED
  <2>1. n + 1 = Len(answer) + 2
    BY <1>1 DEF ExchangeShape
  <2>. QED
    BY <1>1, <1>2, <1>4, <1>7, <1>8, <1>9, <2>1

\* Reading the sizes keeps the invariant, whether they are accepted or not.
LEMMA SizesKeep ==
  ASSUME Exchanged, RecvSizes
  PROVE  Exchanged'
<1>1. /\ job' = job /\ answer' = answer /\ sent' = sent /\ pc = "start" /\ sizes' = ReadSizes
      /\ Len(answer) < Len(job.messages) /\ Arrived(Len(Header(Wanted))) /\ Received(Len(Header(Wanted)))
      /\ pc' = IF Wanted.kind \in {"vec", "mat"} /\ TooLarge(ReadSizes) THEN "thrown" ELSE "content"
  BY DEF RecvSizes, ReadSizes, Continue, Goto, At
<1>2. PICK m \in TypedMessages : m = Wanted
  BY <1>1 DEF Exchanged, ExchangeShape, Wanted
<1>3. ExchangeShape'
  <2>1. ElementCount(ReadSizes) \in Nat
    BY <1>1, SizesCounted DEF Exchanged
  <2>2. stream' \in Seq(Byte)
    <3>1. PICK c \in Nat : c = Len(Header(m))
      BY MessageParts
    <3>2. stream' = SubSeq(stream, 2 * c + 1, Len(stream)) /\ stream \in Seq(Byte)
      BY <1>1, <1>2, <3>1 DEF Received, Exchanged, ExchangeShape
    <3>. QED
      BY <3>2
  <2>. QED
    BY <1>1, <2>1, <2>2 DEF Exchanged, ExchangeShape
<1>4. GotRight'
  BY <1>1 DEF Exchanged, GotRight, InStep
<1>5. ASSUME InStep(Len(answer) + 1)
      PROVE  /\ pc' = "content" => Due'
             /\ pc' = "thrown" => ~WithinLimit(m)
  <2>1. /\ ReadSizes = Announced(m)
        /\ stream' \o StillToCome = Write(m.values) \o Ahead(Encoding, job.messages, Len(answer) + 2)
    BY <1>1, <1>2, <1>5, SizesRead DEF Exchanged
  <2>2. StillToCome' = StillToCome /\ Wanted' = m
    BY <1>1, <1>2 DEF StillToCome, Wanted
  <2>3. /\ WithinLimit(m) => ~(m.kind \in {"vec", "mat"} /\ TooLarge(ReadSizes))
        /\ m.kind \in {"vec", "mat"} /\ ~TooLarge(ReadSizes) => WithinLimit(m) \/ Wraps(m)
    BY <2>1, SizesTold
  <2>4. ~WithinLimit(m) => m.kind \in {"vec", "mat"}
    BY DEF WithinLimit
  <2>5. pc' = "content" => WithinLimit(m) \/ Wraps(m)
    BY <1>1, <1>2, <2>3, <2>4
  <2>. QED
    BY <1>1, <1>2, <2>1, <2>2, <2>3, <2>5 DEF Due
<1>6. Aligned'
  <2>1. InStep(Len(answer) + 1)' <=> InStep(Len(answer) + 1)
    BY <1>1 DEF InStep
  <2>2. Wanted' = m
    BY <1>1, <1>2 DEF Wanted
  <2>3. pc' \in {"thrown", "content"}
    BY <1>1
  <2>. QED
    BY <1>1, <1>5, <2>1, <2>2, <2>3 DEF Aligned
<1>. QED
  BY <1>3, <1>4, <1>6 DEF Exchanged

\* The values, as they are read from the stream.
Content == Read(stream, ElementCount(sizes))

\* The content of a message whose sizes are right.
LEMMA ContentRead ==
  ASSUME ExchangeShape, pc = "content", Aligned, InStep(Len(answer) + 1), WithinLimit(Wanted),
         Arrived(ElementCount(sizes)), Received(ElementCount(sizes))
  PROVE  /\ Content = Wanted.values
         /\ stream' \o StillToCome = Ahead(Encoding, job.messages, Len(answer) + 2)
         /\ Wanted.kind = "mat" => /\ sizes[1] = Wanted.rows /\ sizes[2] = Wanted.cols
                                   /\ sizes[1] * sizes[2] = ElementCount(sizes)
<1>0. PICK s \in Seq(TypedMessages) : s = job.messages
  BY DEF ExchangeShape
<1>1. PICK n \in 1 .. Len(s) : s = job.messages /\ n = Len(answer) + 1
  BY <1>0 DEF ExchangeShape
<1>2. PICK m \in TypedMessages : m = Wanted /\ m = s[n]
  BY <1>1 DEF Wanted
<1>3. PICK v \in Seq(Values) : v = m.values /\ v \in Seq(Nat)
  BY MessageParts
<1>4. PICK w \in Seq(Byte) : w = Ahead(Encoding, s, n + 1) /\ w = Ahead(Encoding, job.messages, Len(answer) + 2)
  <2>1. n + 1 = Len(answer) + 2 /\ n + 1 \in 1 .. Len(s) + 1
    BY <1>1 DEF ExchangeShape
  <2>2. Ahead(Encoding, s, n + 1) \in Seq(Byte)
    BY <1>1, <2>1, Places
  <2>. QED
    BY <1>1, <2>1, <2>2
<1>5. sizes = Announced(m) /\ stream \o StillToCome = Write(v) \o w /\ stream \in Seq(Byte) /\ StillToCome \in Seq(Byte)
  BY <1>2, <1>3, <1>4, Places DEF Aligned, Due, ExchangeShape
<1>6. /\ ElementCount(sizes) = Len(v)
      /\ m.kind = "mat" => sizes = << m.rows, m.cols >> /\ sizes[1] * sizes[2] = ElementCount(sizes)
  BY <1>2, <1>3, <1>5, SizesTold
<1>7. Len(stream) >= 2 * Len(v) /\ stream' = SubSeq(stream, 2 * Len(v) + 1, Len(stream))
  BY <1>6 DEF Arrived, Received
<1>8. stream' \o StillToCome = w /\ \A i \in 1 .. Len(v) : FromWord(stream, i) = v[i] % Uint32
  <2>1. PICK q \in Seq(Byte), u \in Seq(Byte) : q = stream /\ u = StillToCome
    BY <1>5
  <2>t. PICK t : t = stream'
    OBVIOUS
  <2>2. PICK z \in Seq(Nat) : z = v
    BY <1>3
  <2>3. q \o u = Write(z) \o w /\ Len(q) >= 2 * Len(z) /\ t = SubSeq(q, 2 * Len(z) + 1, Len(q))
    BY <1>5, <1>7, <2>1, <2>2, <2>t
  <2>4. SubSeq(q, 2 * Len(z) + 1, Len(q)) \o u = w /\ BeginsWith(q, z)
    BY <2>3, Taken
  <2>. QED
    BY <2>1, <2>t, <2>2, <2>3, <2>4 DEF BeginsWith
<1>9. Content = v
  <2>1. ASSUME NEW i \in 1 .. Len(v) PROVE FromWord(stream, i) % Order = v[i]
    <3>1. v[i] \in 0 .. Order - 1
      <4>1. v[i] \in Values
        BY <2>1
      <4>. QED
        BY <4>1 DEF Values
    <3>2. Order \in Nat \ {0} /\ Order <= Uint32 /\ Uint32 \in Nat \ {0}
      BY MessagesAssumption, Remainders DEF Uint32
    <3>3. PICK y \in Nat : y = v[i] /\ y < Order /\ y < Uint32
      BY <3>1, <3>2
    <3>4. y % Uint32 = y
      BY <3>3, Remainders
    <3>5. y % Order = y
      BY <3>2, <3>3, SmallRemainder
    <3>. QED
      BY <1>8, <3>3, <3>4, <3>5
  <2>2. Content = [i \in 1 .. Len(v) |-> FromWord(stream, i) % Order]
    BY <1>6 DEF Content, Read
  <2>3. Content = [i \in 1 .. Len(v) |-> v[i]]
    BY <2>1, <2>2
  <2>. QED
    BY <2>3
<1>. QED
  BY <1>2, <1>3, <1>4, <1>6, <1>8, <1>9

\* The object that the receiver puts the content into.
Refilled == IF Wanted.kind = "mat"
              THEN [kind |-> "mat", rows |-> sizes[1], cols |-> sizes[2], values |-> Content]
              ELSE [kind |-> Wanted.kind, values |-> Content]

\* With the right sizes and the right values it is the message.
LEMMA SameAgain ==
  ASSUME NEW m \in TypedMessages, m = Wanted, Content = m.values,
         m.kind = "mat" => sizes[1] = m.rows /\ sizes[2] = m.cols
  PROVE  Refilled = m
<1>1. CASE m \in [kind : {"scalar", "stl", "vec"}, values : Seq(Values)]
  <2>1. m = [kind |-> m.kind, values |-> m.values] /\ m.kind # "mat"
    BY <1>1
  <2>. QED
    BY <2>1 DEF Refilled
<1>2. CASE m \in MatrixMessages
  <2>1. m = [kind |-> "mat", rows |-> m.rows, cols |-> m.cols, values |-> m.values] /\ m.kind = "mat"
    <3>1. m \in [kind : {"mat"}, rows : Nat, cols : Nat, values : Seq(Values)]
      BY <1>2 DEF MatrixMessages
    <3>. QED
      BY <3>1
  <2>. QED
    BY <2>1 DEF Refilled
<1>. QED
  BY <1>1, <1>2 DEF TypedMessages

\* A message is in step if the one before it was, and was within the limit.
LEMMA OneStepOn ==
  ASSUME ExchangeShape, InStep(Len(answer) + 2)
  PROVE  InStep(Len(answer) + 1) /\ WithinLimit(Wanted)
<1>1. PICK c \in Nat : c = Len(answer)
  BY DEF ExchangeShape
<1>2. \A j \in 1 .. c + 1 : WithinLimit(job.messages[j])
  BY <1>1 DEF InStep
<1>. QED
  BY <1>1, <1>2 DEF InStep, Wanted

\* Reading the content keeps the invariant; so does the end in a matrix whose
\* sides do not fit the number of its entries.
LEMMA ContentKeeps ==
  ASSUME Exchanged, RecvContent
  PROVE  Exchanged'
<1>1. /\ job' = job /\ sizes' = sizes /\ sent' = sent /\ pc = "content"
      /\ Arrived(ElementCount(sizes)) /\ Received(ElementCount(sizes))
      /\ IF Wanted.kind = "mat" /\ sizes[1] * sizes[2] # ElementCount(sizes)
           THEN pc' = "undefined" /\ answer' = answer
           ELSE pc' = "start" /\ answer' = Append(answer, Refilled)
  BY DEF RecvContent, Refilled, Content, Goto, At
<1>2. PICK m \in TypedMessages, d \in Nat :
        /\ m = Wanted /\ d = Len(answer) /\ d < Len(job.messages) /\ m = job.messages[d + 1]
        /\ job.messages \in Seq(TypedMessages)
  <2>1. Len(answer) \in Nat /\ Len(answer) < Len(job.messages) /\ job.messages \in Seq(TypedMessages)
    BY <1>1 DEF Exchanged, ExchangeShape
  <2>2. job.messages[Len(answer) + 1] \in TypedMessages
    BY <2>1
  <2>. QED
    BY <2>1, <2>2 DEF Wanted
<1>3. stream' \in Seq(Byte)
  <2>1. PICK c \in Nat : c = ElementCount(sizes)
    BY <1>1 DEF Exchanged, ExchangeShape
  <2>2. stream' = SubSeq(stream, 2 * c + 1, Len(stream)) /\ stream \in Seq(Byte)
    BY <1>1, <2>1 DEF Received, Exchanged, ExchangeShape
  <2>. QED
    BY <2>2
<1>4. StillToCome' = StillToCome
  BY <1>1 DEF StillToCome
<1>5. ASSUME InStep(d + 1), WithinLimit(m)
      PROVE  /\ Content = m.values
             /\ stream' \o StillToCome = Ahead(Encoding, job.messages, d + 2)
             /\ m.kind = "mat" => /\ sizes[1] = m.rows /\ sizes[2] = m.cols
                                  /\ sizes[1] * sizes[2] = ElementCount(sizes)
  BY <1>1, <1>2, <1>5, ContentRead DEF Exchanged
<1>6. InStep(d + 1) => WithinLimit(m) \/ Wraps(m)
  BY <1>1, <1>2 DEF Exchanged, Aligned, Due
<1>7. CASE m.kind = "mat" /\ sizes[1] * sizes[2] # ElementCount(sizes)
  <2>1. pc' = "undefined" /\ answer' = answer
    BY <1>1, <1>2, <1>7
  <2>2. ExchangeShape'
    BY <1>1, <1>3, <2>1 DEF Exchanged, ExchangeShape
  <2>3. GotRight'
    BY <1>1, <2>1 DEF Exchanged, GotRight, InStep
  <2>4. InStep(d + 1) => Wraps(m)
    BY <1>5, <1>6, <1>7
  <2>5. Aligned'
    <3>1. InStep(Len(answer) + 1)' <=> InStep(d + 1)
      BY <1>1, <1>2, <2>1 DEF InStep
    <3>2. Wanted' = m
      BY <1>1, <1>2, <2>1 DEF Wanted
    <3>. QED
      BY <1>7, <2>1, <2>4, <3>1, <3>2 DEF Aligned
  <2>. QED
    BY <2>2, <2>3, <2>5 DEF Exchanged
<1>8. CASE ~(m.kind = "mat" /\ sizes[1] * sizes[2] # ElementCount(sizes))
  <2>1. pc' = "start" /\ answer' = Append(answer, Refilled)
    BY <1>1, <1>2, <1>8
  <2>2. /\ IsSeq(answer') /\ Len(answer') = d + 1
        /\ answer'[d + 1] = Refilled /\ \A i \in 1 .. d : answer'[i] = answer[i]
        /\ DOMAIN answer = 1 .. d /\ DOMAIN answer' = 1 .. d + 1
    BY <1>2, <2>1, AppendAny DEF Exchanged, ExchangeShape
  <2>3. ExchangeShape'
    BY <1>1, <1>2, <1>3, <2>1, <2>2 DEF Exchanged, ExchangeShape
  <2>4. InStep(d + 1) => IF WithinLimit(m) THEN Refilled = m ELSE Wraps(m)
    BY <1>2, <1>5, <1>6, SameAgain
  <2>5. GotRight'
    <3>1. ASSUME NEW i \in 1 .. d + 1, InStep(i)
          PROVE  IF WithinLimit(job.messages[i]) THEN answer'[i] = job.messages[i] ELSE Wraps(job.messages[i])
      <4>1. CASE i = d + 1
        BY <1>2, <2>2, <2>4, <3>1, <4>1
      <4>2. CASE i \in 1 .. d
        BY <2>2, <3>1, <4>2 DEF Exchanged, GotRight
      <4>. QED
        BY <4>1, <4>2
    <3>. QED
      BY <1>1, <2>2, <3>1 DEF GotRight, InStep
  <2>6. Aligned'
    <3>1. InStep(Len(answer) + 1)' <=> InStep(d + 2)
      BY <1>1, <1>2, <2>2 DEF InStep
    <3>2. InStep(d + 2) => InStep(d + 1) /\ WithinLimit(m)
      BY <1>2, OneStepOn DEF Exchanged
    <3>3. InStep(d + 2) => stream' \o StillToCome' = Ahead(Encoding, job.messages, d + 2)
      BY <1>4, <1>5, <3>2
    <3>4. Len(answer') + 1 = d + 2
      BY <2>2
    <3>. QED
      BY <1>1, <2>1, <3>1, <3>3, <3>4 DEF Aligned
  <2>. QED
    BY <2>3, <2>5, <2>6 DEF Exchanged
<1>. QED
  BY <1>7, <1>8

\* The exchange ends with all received.
LEMMA DoneKeeps ==
  ASSUME Exchanged, ExchangeDone
  PROVE  Exchanged'
<1>1. /\ job' = job /\ answer' = answer /\ sizes' = sizes /\ sent' = sent /\ stream' = stream
      /\ pc = "start" /\ pc' = "returned" /\ Len(answer) = Len(job.messages)
  BY DEF ExchangeDone, messageVars, Continue, Goto, At
<1>2. ExchangeShape' /\ GotRight'
  BY <1>1 DEF Exchanged, ExchangeShape, GotRight, InStep
<1>3. InStep(Len(answer) + 1) => stream = << >>
  <2>1. InStep(Len(answer) + 1) => stream \o StillToCome = Ahead(Encoding, job.messages, Len(job.messages) + 1)
    BY <1>1 DEF Exchanged, Aligned
  <2>2. stream \in Seq(Byte) /\ StillToCome \in Seq(Byte) /\ Ahead(Encoding, job.messages, Len(job.messages) + 1) = << >>
    BY Places DEF Exchanged, ExchangeShape
  <2>3. stream \o StillToCome = << >> => stream = << >>
    <3>1. Len(stream \o StillToCome) = Len(stream) + Len(StillToCome) /\ Len(stream) \in Nat /\ Len(StillToCome) \in Nat
      BY <2>2
    <3>. QED
      BY <2>2, <3>1
  <2>. QED
    BY <2>1, <2>2, <2>3
<1>4. InStep(Len(answer) + 1)' <=> InStep(Len(answer) + 1)
  BY <1>1 DEF InStep
<1>5. Aligned'
  BY <1>1, <1>3, <1>4 DEF Aligned
<1>. QED
  BY <1>2, <1>5 DEF Exchanged

\* What the invariant says of messages is the property.
LEMMA ExchangedArrives ==
  ASSUME Exchanged
  PROVE  MessagesArrive
BY DEF Exchanged, GotRight, Aligned, MessagesArrive

-----------------------------------------------------------------------------
(* Messages: an exchange among all jobs.                                   *)

\* An exchange is run by its module, and no other.
LEMMA OthersExchangeNothing ==
  ASSUME job.op = "exchange", pc \in {"start", "content", "thrown", "undefined", "returned"}
  PROVE  ~(RunShamir \/ RunSharing \/ RunMatrices \/ RunNumbers \/ RunHash \/ RunEvaluation)
<1>1. ~RunShamir
  BY DEF RunShamir, ShamirNext, TooFew, Detect, Compare, BuildSystem, Solve, Reduce, Extract, TryFewer,
         StartDivision, DivideStep, Finish
<1>2. ~RunSharing
  BY DEF RunSharing, SharingNext, RefuseToShare, ShareShamir, ShareAdditive, DrawNext, SharingDone, At
<1>3. ~RunMatrices
  BY DEF RunMatrices, MatrixOperation, At
<1>4. ~RunNumbers
  BY DEF RunNumbers, NumbersNext, FieldOperation, RingOperation, StartEuclid, EuclidStep, EuclidEnd,
         StartNewton, NewtonStep, NewtonEnd, At
<1>5. ~RunHash
  BY DEF RunHash, HashNext, UpdateShort, Update, Finalize, At
<1>6. ~RunEvaluation
  BY DEF RunEvaluation, EvaluationNext, SetClearInputs, SetClearInputsFlat, GetClearOutputs,
         GetClearOutputsThrows, SetDummyLambdas, PopulateDummyLambdas, DummyPrep, PrepFromDummyLambdas,
         CallsDone, CallIs, At
<1>. QED
  BY <1>1, <1>2, <1>3, <1>4, <1>5, <1>6

\* Nobody makes one job of another.
LEMMA JobStays == [Next]_vars => job' = job
<1> SUFFICES ASSUME [Next]_vars PROVE job' = job
  OBVIOUS
<1>1. CASE RunShamir
  BY <1>1 DEF RunShamir, ShamirNext, TooFew, Detect, Compare, BuildSystem, Solve, Reduce, Extract, TryFewer,
         StartDivision, DivideStep, Finish, callVars
<1>2. CASE RunSharing
  BY <1>2 DEF RunSharing, SharingNext, RefuseToShare, ShareShamir, ShareAdditive, ShareNext, DrawNext,
         SharingDone, Continue
<1>3. CASE RunMatrices
  BY <1>3 DEF RunMatrices, MatrixOperation, Return, Continue
<1>4. CASE RunNumbers
  BY <1>4 DEF RunNumbers, NumbersNext, FieldOperation, RingOperation, StartEuclid, EuclidStep, EuclidEnd,
         StartNewton, NewtonStep, NewtonEnd, Return, Continue
<1>5. CASE RunHash
  BY <1>5 DEF RunHash, HashNext, UpdateShort, Update, Finalize, Return, Continue
<1>6. CASE RunMessages
  BY <1>6 DEF RunMessages, MessagesNext, SendNext, RecvSizes, RecvContent, ExchangeDone, Continue, callVars
<1>7. CASE RunEvaluation
  <2> USE <1>7 DEF RunEvaluation, EvaluationNext
  <2>1. CASE SetClearInputs
    BY <2>1 DEF SetClearInputs, Done, Thrown, Outcome
  <2>2. CASE SetClearInputsFlat
    BY <2>2 DEF SetClearInputsFlat, Done, Outcome, Continue
  <2>3. CASE GetClearOutputs
    BY <2>3 DEF GetClearOutputs, Outcome
  <2>4. CASE GetClearOutputsThrows
    BY <2>4 DEF GetClearOutputsThrows, Thrown, Outcome
  <2>5. CASE SetDummyLambdas
    BY <2>5 DEF SetDummyLambdas, Done, Outcome
  <2>6. CASE PopulateDummyLambdas
    BY <2>6 DEF PopulateDummyLambdas, Done, Thrown, Outcome
  <2>7. CASE DummyPrep
    BY <2>7 DEF DummyPrep, Done, Outcome
  <2>8. CASE PrepFromDummyLambdas
    BY <2>8 DEF PrepFromDummyLambdas, Done, Thrown, Outcome
  <2>9. CASE CallsDone
    BY <2>9 DEF CallsDone, Continue
  <2>. QED
    BY <2>1, <2>2, <2>3, <2>4, <2>5, <2>6, <2>7, <2>8, <2>9
<1>8. CASE Over \/ UNCHANGED vars
  BY <1>8 DEF Over, vars, callVars
<1>. QED
  BY <1>1, <1>2, <1>3, <1>4, <1>5, <1>6, <1>7, <1>8 DEF Next

\* Every job that is an exchange satisfies its invariant.
ExchangesWell == job.op = "exchange" => Exchanged

LEMMA ExchangesWellInit == Init => ExchangesWell
BY ExchangeStarts DEF Init, ExchangesWell

LEMMA ExchangesWellStep == ExchangesWell /\ [Next]_vars => ExchangesWell'
<1> SUFFICES ASSUME ExchangesWell, [Next]_vars, (job.op = "exchange")' PROVE Exchanged'
  BY DEF ExchangesWell
<1>1. job.op = "exchange" /\ Exchanged
  BY JobStays DEF ExchangesWell
<1>2. ~(RunShamir \/ RunSharing \/ RunMatrices \/ RunNumbers \/ RunHash \/ RunEvaluation)
  BY <1>1, OthersExchangeNothing DEF Exchanged, ExchangeShape
<1>3. CASE RunMessages
  BY <1>1, <1>3, SendKeeps, SizesKeep, ContentKeeps, DoneKeeps DEF RunMessages, MessagesNext
<1>4. CASE Over \/ UNCHANGED vars
  <2>1. job' = job /\ pc' = pc /\ answer' = answer /\ stream' = stream /\ sent' = sent /\ sizes' = sizes
    BY <1>4 DEF Over, vars, callVars, messageVars
  <2>. QED
    BY <1>1, <2>1 DEF Exchanged, ExchangeShape, GotRight, Aligned, Due, StillToCome, Wanted, InStep
<1>. QED
  BY <1>2, <1>3, <1>4 DEF Next

\* A receiver that goes by the kinds the sender used gets the messages that
\* were sent, in order, up to the first one beyond the limit; then it throws
\* or, if the sizes wrapped, no longer knows. Send and Recv of
\* scl/net/tcp_channel.h, for every sequence of messages, every field, base and
\* limit.
THEOREM MessagesAlwaysArrive == Spec => []MessagesArrive
<1>1. ExchangesWell => MessagesArrive
  BY ExchangedArrives DEF ExchangesWell, MessagesArrive
<1>. QED
  BY ExchangesWellInit, ExchangesWellStep, <1>1, PTL DEF Spec

-----------------------------------------------------------------------------
(* HashBuffer: the message and what is hashed of it.                       *)

\* The type of a hash job.
HashCalls == job.calls \in Seq(Seq(Nat))

\* The message up to any call is bytes.
LEMMA MessageType ==
  ASSUME HashCalls, NEW n \in 0 .. Len(job.calls)
  PROVE  Message(n) \in Seq(Nat) /\ Len(Message(n)) \in Nat
<1>1. SubSeq(job.calls, 1, n) \in Seq(Seq(Nat))
  BY SplitAt DEF HashCalls
<1>2. Message(n) \in Seq(Nat)
  BY <1>1, FlattenType DEF Message
<1>. QED
  BY <1>2

\* Before the first call there is none.
LEMMA MessageStarts ==
  ASSUME HashCalls
  PROVE  Message(0) = << >>
<1>1. SubSeq(job.calls, 1, 0) = << >>
  BY DEF HashCalls
<1>. QED
  BY <1>1, FlattenEmpty DEF Message

\* Later calls only add to it.
LEMMA MessageGrows ==
  ASSUME HashCalls, NEW m \in 0 .. Len(job.calls), NEW n \in m .. Len(job.calls)
  PROVE  \E r \in Seq(Nat) : Message(n) = Message(m) \o r
<1>1. PICK c \in Seq(Seq(Nat)) : c = job.calls
  BY DEF HashCalls
<1>2. PICK s \in Seq(Seq(Nat)) : s = SubSeq(c, 1, n) /\ Len(s) = n
  <2>1. n \in 0 .. Len(c)
    BY <1>1
  <2>2. SubSeq(c, 1, n) \in Seq(Seq(Nat)) /\ Len(SubSeq(c, 1, n)) = n
    BY <2>1, SplitAt
  <2>. QED
    BY <2>2
<1>3. PICK a \in Seq(Seq(Nat)), b \in Seq(Seq(Nat)) : a = SubSeq(s, 1, m) /\ a \o b = s
  <2>1. m \in 0 .. Len(s)
    BY <1>2
  <2>2. /\ SubSeq(s, 1, m) \in Seq(Seq(Nat)) /\ SubSeq(s, m + 1, Len(s)) \in Seq(Seq(Nat))
        /\ SubSeq(s, 1, m) \o SubSeq(s, m + 1, Len(s)) = s
    BY <2>1, SplitAt
  <2>. QED
    BY <2>2
<1>4. a = SubSeq(c, 1, m)
  BY <1>1, <1>2, <1>3
<1>5. FlattenSeq(s) = FlattenSeq(a) \o FlattenSeq(b) /\ FlattenSeq(b) \in Seq(Nat)
  BY <1>3, FlattenConcat, FlattenType
<1>. QED
  BY <1>1, <1>2, <1>4, <1>5 DEF Message

\* A call adds its bytes.
LEMMA OneCallMore ==
  ASSUME HashCalls, NEW n \in 0 .. Len(job.calls) - 1
  PROVE  /\ Message(n + 1) = Message(n) \o job.calls[n + 1]
         /\ Message(n) \in Seq(Nat) /\ job.calls[n + 1] \in Seq(Nat) /\ Message(n + 1) \in Seq(Nat)
<1>1. PICK c \in Seq(Seq(Nat)) : c = job.calls
  BY DEF HashCalls
<1>2. PICK a \in Seq(Seq(Nat)), e \in Seq(Nat) : a = SubSeq(c, 1, n) /\ e = c[n + 1]
  <2>1. n \in 0 .. Len(c) /\ c[n + 1] \in Seq(Nat)
    BY <1>1
  <2>. QED
    BY <2>1, SplitAt
<1>3. SubSeq(c, 1, n + 1) = Append(a, e)
  <2>1. Len(a) = n /\ \A i \in 1 .. n : a[i] = c[i]
    BY <1>1, <1>2
  <2>2. PICK b \in Seq(Seq(Nat)) : b = SubSeq(c, 1, n + 1) /\ Len(b) = n + 1 /\ \A i \in 1 .. n + 1 : b[i] = c[i]
    <3>1. PICK h \in 0 .. Len(c) : h = n + 1
      BY <1>1
    <3>2. SubSeq(c, 1, h) \in Seq(Seq(Nat)) /\ Len(SubSeq(c, 1, h)) = h /\ \A i \in 1 .. h : SubSeq(c, 1, h)[i] = c[i]
      OBVIOUS
    <3>. QED
      BY <3>1, <3>2
  <2>. QED
    BY <1>2, <2>1, <2>2
<1>4. FlattenSeq(Append(a, e)) = FlattenSeq(a) \o e
  BY FlattenAppend
<1>5. FlattenSeq(a) \in Seq(Nat)
  BY FlattenType
<1>6. FlattenSeq(a) \o e \in Seq(Nat)
  BY <1>5
<1>. QED
  BY <1>1, <1>2, <1>3, <1>4, <1>5, <1>6 DEF Message

\* A call that begins or ends within a word takes that word apart.
LEMMA TakenApart ==
  ASSUME HashCalls, NEW n \in 0 .. Len(job.calls), NEW v \in Nat,
         v * WordBytes < Len(Message(n)), Len(Message(n)) < (v + 1) * WordBytes
  PROVE  ~InOneCall(v + 1)
<1> SUFFICES ASSUME NEW c \in 1 .. Len(job.calls),
                    Before(c) <= (v + 1 - 1) * WordBytes, (v + 1) * WordBytes <= Before(c + 1)
             PROVE  FALSE
  BY DEF InOneCall
<1>1. PICK d \in Nat : d = Len(job.calls)
  BY DEF HashCalls
<1>2. PICK a \in Nat, b \in Nat, q \in Nat :
        a = Len(Message(c - 1)) /\ b = Len(Message(c)) /\ q = Len(Message(n))
  <2>1. c - 1 \in 0 .. Len(job.calls) /\ c \in 0 .. Len(job.calls)
    BY <1>1
  <2>. QED
    BY <2>1, MessageType
<1>3. Before(c) = a /\ Before(c + 1) = b /\ v + 1 - 1 = v
  BY <1>1, <1>2 DEF Before
<1>4. PICK z \in Nat, y \in Nat : z = v * WordBytes /\ y = (v + 1) * WordBytes
  BY HashAssumption
<1>5. a <= z /\ y <= b /\ z < q /\ q < y
  BY <1>2, <1>3, <1>4
<1>6. CASE n <= c - 1
  <2>1. n \in 0 .. Len(job.calls) /\ c - 1 \in n .. Len(job.calls)
    BY <1>1, <1>6
  <2>2. PICK r \in Seq(Nat) : Message(c - 1) = Message(n) \o r
    BY <2>1, MessageGrows
  <2>3. a = q + Len(r)
    BY <1>2, <2>2, MessageType
  <2>. QED
    BY <1>5, <2>3
<1>7. CASE c <= n
  <2>1. c \in 0 .. Len(job.calls) /\ n \in c .. Len(job.calls)
    BY <1>1, <1>7
  <2>2. PICK r \in Seq(Nat) : Message(n) = Message(c) \o r
    BY <2>1, MessageGrows
  <2>3. q = b + Len(r)
    BY <1>2, <2>1, <2>2, MessageType
  <2>. QED
    BY <1>5, <2>3
<1>. QED
  BY <1>1, <1>6, <1>7

\* A call that has all of a word leaves it whole.
LEMMA LeftWhole ==
  ASSUME HashCalls, NEW n \in 0 .. Len(job.calls) - 1, NEW v \in Nat,
         Len(Message(n)) <= v * WordBytes, (v + 1) * WordBytes <= Len(Message(n + 1))
  PROVE  InOneCall(v + 1)
<1>1. PICK c \in 1 .. Len(job.calls) : c = n + 1 /\ c - 1 = n /\ c + 1 - 1 = n + 1
  BY DEF HashCalls
<1>2. Before(c) = Len(Message(n)) /\ Before(c + 1) = Len(Message(n + 1))
  BY <1>1 DEF Before
<1>3. v + 1 - 1 = v
  OBVIOUS
<1>. QED
  BY <1>2, <1>3 DEF InOneCall

\* What the code hashes: the message, but behind the second byte of a word that
\* came whole in one call there are copies of that byte.
Hashed(n) ==
  [i \in DOMAIN Message(n) |->
     IF InWholeWord(i) THEN Message(n)[((i - 1) \div WordBytes) * WordBytes + 2] ELSE Message(n)[i]]

\* What is hashed is as long as the message.
LEMMA HashedType ==
  ASSUME HashCalls, NEW n \in 0 .. Len(job.calls)
  PROVE  Len(Hashed(n)) = Len(Message(n)) /\ DOMAIN Hashed(n) = 1 .. Len(Message(n))
         /\ Hashed(n) = [i \in 1 .. Len(Message(n)) |-> Hashed(n)[i]]
<1>1. DOMAIN Message(n) = 1 .. Len(Message(n)) /\ Len(Message(n)) \in Nat
  BY MessageType
<1>. QED
  BY <1>1 DEF Hashed

\* What is hashed at place j of the word behind v words.
HashedHere(n, v, j) ==
  IF j > 2 /\ InOneCall(v + 1) THEN Message(n)[v * WordBytes + 2] ELSE Message(n)[v * WordBytes + j]

\* Word by word, that is all that is hashed.
LEMMA HashedAt ==
  ASSUME HashCalls, NEW n \in 0 .. Len(job.calls), NEW v \in Nat, NEW j \in 1 .. WordBytes,
         v * WordBytes + j <= Len(Message(n))
  PROVE  Hashed(n)[v * WordBytes + j] = HashedHere(n, v, j)
<1>1. PICK m \in Nat \ {0} : m = WordBytes
  BY HashAssumption
<1>2. PICK y \in Nat : y = v * m
  BY <1>1
<1>3. PICK i \in 1 .. Len(Message(n)) : i = y + j /\ i - 1 = y + (j - 1) /\ i - 1 \in Nat
  BY <1>1, <1>2, MessageType
<1>4. (i - 1) \div m = v
  <2>1. PICK p \in Nat, r \in 0 .. m - 1 : p = i - 1 /\ r = j - 1
    BY <1>1, <1>3
  <2>2. Divided(p, m, v, r)
    BY <1>2, <1>3, <2>1 DEF Divided
  <2>3. p \div m = v
    BY <2>2, OneQuotient
  <2>. QED
    BY <2>1, <2>3
<1>5. v + 1 - 1 = v
  OBVIOUS
<1>6. i \in DOMAIN Message(n)
  BY MessageType
<1>7. Hashed(n)[i] = IF i > y + 2 /\ InOneCall(v + 1) THEN Message(n)[y + 2] ELSE Message(n)[i]
  BY <1>1, <1>2, <1>4, <1>5, <1>6 DEF Hashed, InWholeWord
<1>8. i > y + 2 <=> j > 2
  BY <1>1, <1>2, <1>3
<1>. QED
  BY <1>1, <1>2, <1>3, <1>7, <1>8 DEF HashedHere

-----------------------------------------------------------------------------
(* HashBuffer: words that are added.                                       *)

\* The states of the permutation: whole blocks, and less than a block.
States == [blocks : Seq(Seq(Seq(Nat))), block : Seq(Seq(Nat))]

Whole(state) ==
  /\ state \in States /\ Len(state.block) < Rate
  /\ \A i \in 1 .. Len(state.blocks) : Len(state.blocks[i]) = Rate

\* The bytes that a state has been given.
Given(state) == FlattenSeq(FlattenSeq(state.blocks) \o state.block)

\* A word that is added is behind those before it, whether it completes a block
\* or not.
LEMMA WordAdded ==
  ASSUME NEW state, Whole(state), NEW word \in Seq(Nat)
  PROVE  /\ Whole(AddWord(state, word))
         /\ Given(AddWord(state, word)) = Given(state) \o word
<1>1. PICK p \in Seq(Seq(Seq(Nat))), b \in Seq(Seq(Nat)) :
        p = state.blocks /\ b = state.block /\ state = [blocks |-> p, block |-> b]
  BY DEF Whole, States
<1>2. PICK q \in Seq(Seq(Nat)) : q = FlattenSeq(p)
  BY FlattenType
<1>3. PICK w \in Seq(Seq(Nat)) : w = Append(b, word) /\ Len(w) = Len(b) + 1
  <2>1. PICK S : S = Seq(Nat)
    OBVIOUS
  <2>2. b \in Seq(S) /\ word \in S
    BY <2>1
  <2>3. Append(b, word) \in Seq(S) /\ Len(Append(b, word)) = Len(b) + 1
    BY <2>2
  <2>. QED
    BY <2>1, <2>3
<1>4. Append(q \o b, word) = q \o w
  <2>1. Behind(q, b, word)
    BY AppendBehind
  <2>. QED
    BY <1>3, <2>1 DEF Behind
<1>5. FlattenSeq(q \o w) = Given(state) \o word
  <2>1. PICK a \in Seq(Seq(Nat)) : a = q \o b
    <3>1. q \o b \in Seq(Seq(Nat))
      OBVIOUS
    <3>. QED
      BY <3>1
  <2>2. FlattenSeq(Append(a, word)) = FlattenSeq(a) \o word
    BY FlattenAppend
  <2>. QED
    BY <1>1, <1>2, <1>4, <2>1, <2>2 DEF Given
<1>6. CASE Len(w) = Rate
  <2>1. PICK t : t = [blocks |-> Append(p, w), block |-> << >>]
    OBVIOUS
  <2>2. AddWord(state, word) = t
    BY <1>1, <1>3, <1>6, <2>1 DEF AddWord, IsBlock
  <2>3. FlattenSeq(Append(p, w)) = q \o w
    BY <1>2, FlattenAppend
  <2>4. (q \o w) \o << >> = q \o w
    <3>1. q \o w \in Seq(Seq(Nat))
      BY <1>2, <1>3
    <3>. QED
      BY <3>1
  <2>5. Given(t) = Given(state) \o word
    BY <1>5, <2>1, <2>3, <2>4 DEF Given
  <2>6. Whole(t)
    <3>1. t.blocks = Append(p, w) /\ t.block = << >> /\ t \in States
      BY <2>1 DEF States
    <3>2. \A i \in 1 .. Len(p) : Len(p[i]) = Rate
      BY <1>1 DEF Whole
    <3>3. ASSUME NEW i \in 1 .. Len(Append(p, w)) PROVE Len(Append(p, w)[i]) = Rate
      <4>1. PICK n \in Nat : n = Len(p)
        OBVIOUS
      <4>2. i \in 1 .. n + 1 /\ Append(p, w)[i] = IF i = n + 1 THEN w ELSE p[i]
        BY <4>1
      <4>. QED
        BY <1>6, <3>2, <4>1, <4>2
    <3>4. Len(<< >>) < Rate
      BY HashAssumption
    <3>. QED
      BY <3>1, <3>3, <3>4 DEF Whole
  <2>. QED
    BY <2>2, <2>5, <2>6
<1>7. CASE Len(w) # Rate
  <2>1. PICK t : t = [blocks |-> p, block |-> w]
    OBVIOUS
  <2>2. AddWord(state, word) = t
    <3>1. AddWord(state, word) = [state EXCEPT !.block = w]
      BY <1>1, <1>3, <1>7 DEF AddWord, IsBlock
    <3>. QED
      BY <1>1, <2>1, <3>1
  <2>3. Given(t) = Given(state) \o word
    BY <1>2, <1>5, <2>1 DEF Given
  <2>4. Whole(t)
    <3>1. t.blocks = p /\ t.block = w /\ t \in States
      BY <2>1 DEF States
    <3>2. Len(b) < Rate /\ \A i \in 1 .. Len(p) : Len(p[i]) = Rate
      BY <1>1 DEF Whole
    <3>3. Len(w) < Rate
      BY <1>3, <1>7, <3>2, HashAssumption
    <3>. QED
      BY <3>1, <3>2, <3>3 DEF Whole
  <2>. QED
    BY <2>2, <2>3, <2>4
<1>. QED
  BY <1>6, <1>7

\* The states after each of c whole words; AddWholeWords takes the last of
\* them.
WordsRun(g, state, bytes, c) ==
  g[0] = state /\ \A j \in 1 .. c : g[j] = AddWord(g[j - 1], WholeWord(bytes, j))

HasWordsRun(state, bytes, c) ==
  \E g : g = [i \in 0 .. c |-> g[i]] /\ WordsRun(g, state, bytes, c)

\* There are such states, for any number of words.
LEMMA WordsRunExists ==
  ASSUME NEW state, NEW bytes, NEW n \in Nat
  PROVE  HasWordsRun(state, bytes, n)
<1> DEFINE T == { c \in Nat : HasWordsRun(state, bytes, c) }
<1>1. HasWordsRun(state, bytes, 0)
  <2> DEFINE g == [i \in 0 .. 0 |-> state]
  <2>1. g = [i \in 0 .. 0 |-> g[i]] /\ WordsRun(g, state, bytes, 0)
    BY DEF WordsRun
  <2>. QED
    BY <2>1 DEF HasWordsRun
<1>2. ASSUME NEW c \in Nat, HasWordsRun(state, bytes, c)
      PROVE  HasWordsRun(state, bytes, c + 1)
  <2>1. PICK g : g = [i \in 0 .. c |-> g[i]] /\ WordsRun(g, state, bytes, c)
    BY <1>2 DEF HasWordsRun
  <2>a. PICK next : next = AddWord(g[c], WholeWord(bytes, c + 1))
    OBVIOUS
  <2> DEFINE h == [i \in 0 .. c + 1 |-> IF i = c + 1 THEN next ELSE g[i]]
  <2>2. h[c + 1] = next /\ \A i \in 0 .. c : h[i] = g[i]
    BY SMTT(30)
  <2>3. h = [i \in 0 .. c + 1 |-> h[i]]
    OBVIOUS
  <2> HIDE DEF h
  <2>4. WordsRun(h, state, bytes, c + 1)
    <3>1. h[0] = state
      BY <2>1, <2>2, SMTT(30) DEF WordsRun
    <3>2. ASSUME NEW j \in 1 .. c + 1 PROVE h[j] = AddWord(h[j - 1], WholeWord(bytes, j))
      <4>1. CASE j = c + 1
        <5>1. j - 1 = c /\ c \in 0 .. c
          BY <4>1
        <5>. QED
          BY <2>a, <2>2, <4>1, <5>1
      <4>2. CASE j # c + 1
        <5>1. j \in 1 .. c /\ j \in 0 .. c /\ j - 1 \in 0 .. c
          BY <4>2
        <5>. QED
          BY <2>1, <2>2, <5>1 DEF WordsRun
      <4>. QED
        BY <4>1, <4>2
    <3>. QED
      BY <3>1, <3>2 DEF WordsRun
  <2>. QED
    BY <2>3, <2>4 DEF HasWordsRun
<1>3. n \in T
  <2>1. 0 \in T /\ \A c \in Nat : c \in T => c + 1 \in T
    BY <1>1, <1>2
  <2> HIDE DEF T
  <2>2. Nat \subseteq T
    BY <2>1, InductiveSet
  <2>. QED
    BY <2>2
<1>. QED
  BY <1>3

\* The function that AddWholeWords defines.
IsAfter(f, state, bytes, c) ==
  f = [i \in 0 .. c |-> IF i = 0 THEN state ELSE AddWord(f[i - 1], WholeWord(bytes, i))]

\* The function exists, so AddWholeWords is what the words add up to.
LEMMA WordsAreRun ==
  ASSUME NEW state, NEW bytes \in Seq(Nat), NEW n \in Nat, n = Len(bytes) \div WordBytes
  PROVE  \E f : WordsRun(f, state, bytes, n) /\ AddWholeWords(state, bytes) = f[n]
<1> DEFINE c == CHOOSE f : IsAfter(f, state, bytes, n)
<1>1. AddWholeWords(state, bytes) = c[n]
  BY DEF AddWholeWords, IsAfter
<1>2. \E f : IsAfter(f, state, bytes, n)
  <2>1. PICK g : g = [i \in 0 .. n |-> g[i]] /\ WordsRun(g, state, bytes, n)
    BY WordsRunExists DEF HasWordsRun
  <2>2. ASSUME NEW i \in 0 .. n PROVE g[i] = IF i = 0 THEN state ELSE AddWord(g[i - 1], WholeWord(bytes, i))
    <3>1. CASE i = 0
      BY <2>1, <3>1 DEF WordsRun
    <3>2. CASE i # 0
      <4>1. i \in 1 .. n
        BY <3>2
      <4>. QED
        BY <2>1, <3>2, <4>1 DEF WordsRun
    <3>. QED
      BY <3>1, <3>2
  <2>3. IsAfter(g, state, bytes, n)
    BY <2>1, <2>2 DEF IsAfter
  <2>. QED
    BY <2>3
<1>3. IsAfter(c, state, bytes, n)
  BY <1>2
<1> HIDE DEF c
<1>4. WordsRun(c, state, bytes, n)
  <2>1. \A i \in 0 .. n : c[i] = IF i = 0 THEN state ELSE AddWord(c[i - 1], WholeWord(bytes, i))
    BY <1>3 DEF IsAfter
  <2>. QED
    BY <2>1 DEF WordsRun
<1>. QED
  BY <1>1, <1>4

\* The n whole words of the bytes are those of h behind its first m members.
WordsFit(bytes, h, m, n) ==
  /\ n = Len(bytes) \div WordBytes /\ m + n * WordBytes <= Len(h)
  /\ \A i \in 1 .. n :
       WholeWord(bytes, i) = SubSeq(h, m + (i - 1) * WordBytes + 1, m + (i - 1) * WordBytes + WordBytes)

\* If so, the state has been given n words more of h.
LEMMA WordsAdded ==
  ASSUME NEW state, Whole(state), NEW bytes \in Seq(Nat), NEW n \in Nat,
         NEW h \in Seq(Nat), NEW m \in Nat, WordsFit(bytes, h, m, n), Given(state) = SubSeq(h, 1, m)
  PROVE  /\ Whole(AddWholeWords(state, bytes))
         /\ Given(AddWholeWords(state, bytes)) = SubSeq(h, 1, m + n * WordBytes)
<1>0. PICK w \in Nat : w = WordBytes
  BY HashAssumption
<1>1. PICK f : WordsRun(f, state, bytes, n) /\ AddWholeWords(state, bytes) = f[n]
  BY WordsAreRun DEF WordsFit
<1>a. /\ m + n * WordBytes <= Len(h)
      /\ \A i \in 1 .. n :
           WholeWord(bytes, i) = SubSeq(h, m + (i - 1) * WordBytes + 1, m + (i - 1) * WordBytes + WordBytes)
  BY DEF WordsFit
<1> DEFINE AllGiven(d) == Whole(f[d]) /\ Given(f[d]) = SubSeq(h, 1, m + d * w)
           T == { d \in Nat : d <= n => AllGiven(d) }
<1>2. 0 \in T
  <2>1. f[0] = state /\ m + 0 * w = m
    BY <1>1 DEF WordsRun
  <2>. QED
    BY <2>1
<1>3. ASSUME NEW d \in Nat, d \in T PROVE d + 1 \in T
  <2> SUFFICES ASSUME d + 1 <= n PROVE AllGiven(d + 1)
    OBVIOUS
  <2>1. AllGiven(d)
    BY <1>3
  <2>2. PICK a \in Nat : a = d * w /\ (d + 1) * w = a + w
    BY OneMore
  <2>3. m + a + w \in 0 .. Len(h) /\ m + a \in 0 .. m + a + w
    <3>1. PICK c \in Nat : c = d + 1 /\ c <= n
      OBVIOUS
    <3>2. PICK e \in Nat : e = n * w
      BY OneMore
    <3>3. c * w <= e
      BY <3>1, <3>2, NoFewer
    <3>4. a + w <= e /\ m + e <= Len(h)
      BY <1>0, <1>a, <2>2, <3>1, <3>2, <3>3
    <3>. QED
      BY <3>2, <3>4
  <2>4. PICK y \in Seq(Nat) : y = SubSeq(h, m + a + 1, m + a + w) /\ SubSeq(h, 1, m + a) \o y = SubSeq(h, 1, m + a + w)
    <3>1. PICK p \in 0 .. Len(h) : p = m + a + w
      BY <2>3
    <3>2. PICK q \in 0 .. p : q = m + a
      BY <2>3, <3>1
    <3>3. SubSeq(h, 1, q) \o SubSeq(h, q + 1, p) = SubSeq(h, 1, p) /\ SubSeq(h, q + 1, p) \in Seq(Nat)
      BY LongerBeginning
    <3>. QED
      BY <3>1, <3>2, <3>3
  <2>5. WholeWord(bytes, d + 1) = y
    <3>1. PICK i \in 1 .. n : i = d + 1 /\ i - 1 = d
      OBVIOUS
    <3>. QED
      BY <1>0, <1>a, <2>2, <2>4, <3>1
  <2>6. f[d + 1] = AddWord(f[d], y)
    <3>1. PICK i \in 1 .. n : i = d + 1 /\ i - 1 = d
      OBVIOUS
    <3>. QED
      BY <1>1, <2>5, <3>1 DEF WordsRun
  <2>7. Whole(AddWord(f[d], y)) /\ Given(AddWord(f[d], y)) = Given(f[d]) \o y
    BY <2>1, WordAdded
  <2>8. m + (d + 1) * w = m + a + w
    BY <2>2
  <2>. QED
    BY <2>1, <2>2, <2>4, <2>6, <2>7, <2>8
<1>4. n \in T
  <2> HIDE DEF T
  <2>. QED
    BY <1>2, <1>3, InductiveSet
<1>. QED
  BY <1>0, <1>1, <1>4

-----------------------------------------------------------------------------
(* HashBuffer: what is hashed, by its places.                              *)

\* Every place is in a word.
LEMMA PlaceIn ==
  ASSUME NEW i \in Nat \ {0}
  PROVE  \E v \in Nat, j \in 1 .. WordBytes : i = v * WordBytes + j
<1>1. PICK w \in Nat \ {0}, p \in Nat : w = WordBytes /\ p = i - 1
  BY HashAssumption
<1>2. PICK v \in Nat, r \in 0 .. w - 1 : p = v * w + r
  BY Quotient
<1>3. PICK a \in Nat : a = v * w
  BY OneMore
<1>4. PICK j \in 1 .. w : j = r + 1 /\ i = a + j
  BY <1>1, <1>2, <1>3
<1>. QED
  BY <1>1, <1>3, <1>4

\* Where the bytes of a call are in the message.
LEMMA CallPlaces ==
  ASSUME HashCalls, NEW n \in 0 .. Len(job.calls) - 1,
         NEW l \in Nat, l = Len(Message(n)), NEW b \in Seq(Nat), b = job.calls[n + 1]
  PROVE  /\ Len(Message(n + 1)) = l + Len(b)
         /\ \A i \in 1 .. l : Message(n + 1)[i] = Message(n)[i]
         /\ \A y \in 1 .. Len(b) : Message(n + 1)[l + y] = b[y]
<1>1. PICK s \in Seq(Nat) : s = Message(n) /\ Message(n + 1) = s \o b
  BY OneCallMore
<1>2. PICK c \in Nat : c = Len(b)
  <2>1. Len(b) \in Nat
    OBVIOUS
  <2>. QED
    BY <2>1
<1>3. Len(s) = l
  BY <1>1
<1>4. Len(s \o b) = l + c /\ \A i \in 1 .. l + c : (s \o b)[i] = IF i <= l THEN s[i] ELSE b[i - l]
  <2>1. \A i \in 1 .. Len(s) + Len(b) : (s \o b)[i] = IF i <= Len(s) THEN s[i] ELSE b[i - Len(s)]
    BY <1>1, ConcatProperties
  <2>. QED
    BY <1>1, <1>2, <1>3, <2>1
<1>5. \A y \in 1 .. c : l + y \in 1 .. l + c /\ ~(l + y <= l) /\ l + y - l = y
  OBVIOUS
<1>6. \A i \in 1 .. l : i \in 1 .. l + c /\ i <= l
  OBVIOUS
<1>. QED
  BY <1>1, <1>2, <1>4, <1>5, <1>6

\* Bytes of a word that a call begins or ends in are hashed as they are.
LEMMA HashedApart ==
  ASSUME HashCalls, NEW n \in 0 .. Len(job.calls), NEW v \in Nat, NEW j \in 1 .. WordBytes,
         v * WordBytes + j <= Len(Message(n)), NEW p \in 0 .. Len(job.calls),
         v * WordBytes < Len(Message(p)), Len(Message(p)) < (v + 1) * WordBytes
  PROVE  Hashed(n)[v * WordBytes + j] = Message(n)[v * WordBytes + j]
<1>1. ~InOneCall(v + 1)
  BY TakenApart
<1>2. Hashed(n)[v * WordBytes + j] = HashedHere(n, v, j)
  BY HashedAt
<1>. QED
  BY <1>1, <1>2 DEF HashedHere

\* What is hashed is bytes.
LEMMA HashedBytes ==
  ASSUME HashCalls, NEW n \in 0 .. Len(job.calls)
  PROVE  Hashed(n) \in Seq(Nat) /\ Len(Hashed(n)) = Len(Message(n)) /\ Len(Hashed(n)) \in Nat
<1>1. PICK l \in Nat : l = Len(Message(n)) /\ Message(n) \in Seq(Nat)
  BY MessageType
<1>2. ASSUME NEW i \in 1 .. l PROVE Hashed(n)[i] \in Nat
  <2>1. PICK v \in Nat, j \in 1 .. WordBytes : i = v * WordBytes + j
    BY PlaceIn
  <2>2. Hashed(n)[i] = HashedHere(n, v, j)
    BY <1>1, <2>1, HashedAt
  <2>3. PICK a \in Nat : a = v * WordBytes
    BY HashAssumption
  <2>4. i = a + j /\ (j > 2 => a + 2 \in 1 .. l)
    BY <2>1, <2>3, HashAssumption
  <2>. QED
    BY <1>1, <2>1, <2>2, <2>3, <2>4, SMTT(30) DEF HashedHere
<1>3. Hashed(n) = [i \in 1 .. l |-> Hashed(n)[i]]
  BY <1>1, HashedType
<1>4. Hashed(n) \in [1 .. l -> Nat]
  BY <1>2, <1>3
<1>5. Hashed(n) \in Seq(Nat)
  BY <1>4
<1>6. Len(Hashed(n)) = l
  BY <1>1, HashedType
<1>. QED
  BY <1>1, <1>5, <1>6

\* What was hashed stays as it is with the next call.
LEMMA HashedStays ==
  ASSUME HashCalls, NEW n \in 0 .. Len(job.calls) - 1
  PROVE  \A i \in 1 .. Len(Message(n)) : Hashed(n + 1)[i] = Hashed(n)[i]
<1>1. PICK l \in Nat, b \in Seq(Nat) : l = Len(Message(n)) /\ b = job.calls[n + 1]
  <2>1. n \in 0 .. Len(job.calls) /\ Len(job.calls) \in Nat
    BY DEF HashCalls
  <2>2. Len(Message(n)) \in Nat /\ job.calls[n + 1] \in Seq(Nat)
    BY <2>1, MessageType, OneCallMore
  <2>. QED
    BY <2>2
<1>2. Len(Message(n + 1)) = l + Len(b) /\ \A i \in 1 .. l : Message(n + 1)[i] = Message(n)[i]
  BY <1>1, CallPlaces
<1>3. ASSUME NEW i \in 1 .. l PROVE Hashed(n + 1)[i] = Hashed(n)[i]
  <2>1. PICK v \in Nat, j \in 1 .. WordBytes : i = v * WordBytes + j
    BY PlaceIn
  <2>2. n \in 0 .. Len(job.calls) /\ n + 1 \in 0 .. Len(job.calls)
    BY DEF HashCalls
  <2>3. v * WordBytes + j <= Len(Message(n)) /\ v * WordBytes + j <= Len(Message(n + 1))
    BY <1>1, <1>2, <2>1
  <2>4. Hashed(n)[i] = HashedHere(n, v, j) /\ Hashed(n + 1)[i] = HashedHere(n + 1, v, j)
    BY <2>1, <2>2, <2>3, HashedAt
  <2>5. PICK a \in Nat : a = v * WordBytes
    BY HashAssumption
  <2>6. i = a + j /\ (j > 2 => a + 2 \in 1 .. l)
    BY <2>1, <2>5, HashAssumption
  <2>. QED
    BY <1>2, <2>1, <2>4, <2>5, <2>6 DEF HashedHere
<1>. QED
  BY <1>1, <1>3

-----------------------------------------------------------------------------
(* HashBuffer: a call.                                                     *)

\* After n calls the state has been given g words, and the rest waits.
Waits(n, g, state, rest) ==
  /\ Whole(state) /\ rest \in Seq(Nat) /\ Len(rest) < WordBytes
  /\ Len(Hashed(n)) = g * WordBytes + Len(rest)
  /\ IsPart(Given(state), Hashed(n), 0, g * WordBytes)
  /\ IsPart(rest, Hashed(n), g * WordBytes, Len(rest))

\* The next call changes nothing in what was hashed before: a bytes were given,
\* s wait, and l bytes come.
StillWaits(n, a, s, l, state, rest) ==
  /\ Hashed(n + 1) \in Seq(Nat) /\ Len(Message(n)) = a + s
  /\ Len(Hashed(n + 1)) = a + s + l /\ Len(Message(n + 1)) = a + s + l
  /\ IsPart(Given(state), Hashed(n + 1), 0, a) /\ IsPart(rest, Hashed(n + 1), a, s)

LEMMA StaysWaiting ==
  ASSUME HashCalls, NEW n \in 0 .. Len(job.calls) - 1, NEW g \in Nat, NEW state, NEW rest,
         Waits(n, g, state, rest), NEW a \in Nat, a = g * WordBytes, NEW s \in Nat, s = Len(rest),
         NEW b \in Seq(Nat), b = job.calls[n + 1], NEW l \in Nat, l = Len(b)
  PROVE  StillWaits(n, a, s, l, state, rest)
<1>1. n \in 0 .. Len(job.calls) /\ n + 1 \in 0 .. Len(job.calls)
  BY DEF HashCalls
<1>2. PICK z \in Seq(Nat), y \in Seq(Nat) :
        /\ z = Hashed(n) /\ Len(z) = Len(Message(n))
        /\ y = Hashed(n + 1) /\ Len(y) = Len(Message(n + 1))
  BY <1>1, HashedBytes
<1>3. Len(z) = a + s
  BY <1>2 DEF Waits
<1>4. Len(Message(n + 1)) = a + s + l
  <2>1. PICK p \in Nat : p = Len(Message(n))
    BY <1>2, <1>3
  <2>2. Len(Message(n + 1)) = p + Len(b)
    BY <2>1, CallPlaces, ZenonT(40)
  <2>. QED
    BY <1>2, <1>3, <2>1, <2>2
<1>5. \A i \in 1 .. a + s : z[i] = y[i]
  BY <1>2, <1>3, HashedStays
<1>6. IsPart(Given(state), z, 0, a) /\ IsPart(rest, z, a, s)
  BY <1>2 DEF Waits
<1>7. IsPart(Given(state), y, 0, a)
  <2>1. a <= a + s /\ a <= a + s + l /\ \A i \in 1 .. a : i \in 1 .. a + s
    BY SMTT(30)
  <2>2. a <= Len(z) /\ a <= Len(y)
    <3>1. Len(z) = a + s /\ Len(y) = a + s + l
      BY <1>2, <1>3, <1>4
    <3>. QED
      BY <2>1, <3>1, Zenon
  <2>3. \A i \in 1 .. a : z[i] = y[i]
    BY <1>5, <2>1
  <2>4. PICK o \in Nat : o = 0 /\ o + a = a
    OBVIOUS
  <2>5. o + a <= Len(z) /\ o + a <= Len(y) /\ \A i \in 1 .. o + a : z[i] = y[i]
    BY <2>2, <2>3, <2>4
  <2>. QED
    BY <1>6, <2>4, <2>5, SamePart
<1>8. IsPart(rest, y, a, s)
  <2>a. Len(z) = a + s /\ Len(y) = a + s + l
    BY <1>2, <1>3, <1>4
  <2>b. a + s <= a + s /\ a + s <= a + s + l
    OBVIOUS
  <2>1. a + s <= Len(z) /\ a + s <= Len(y)
    BY <2>a, <2>b, Zenon
  <2>. QED
    BY <1>5, <1>6, <2>1, SamePart
<1>. QED
  BY <1>2, <1>3, <1>4, <1>7, <1>8 DEF StillWaits

\* What was saved, and the bytes of the call that go into the same word.
LEMMA SavedMore ==
  ASSUME HashCalls, NEW n \in 0 .. Len(job.calls) - 1, NEW g \in Nat, NEW state, NEW rest \in Seq(Nat),
         NEW a \in Nat, a = g * WordBytes, NEW s \in Nat \ {0}, s < WordBytes,
         NEW b \in Seq(Nat), b = job.calls[n + 1], NEW l \in Nat, l = Len(b),
         StillWaits(n, a, s, l, state, rest),
         NEW o \in 0 .. l, s + o <= WordBytes, NEW c \in Seq(Nat), IsPart(c, b, 0, o)
  PROVE  IsPart(rest \o c, Hashed(n + 1), a, s + o)
<1>0. PICK w \in Nat : w = WordBytes
  BY HashAssumption
<1>1. PICK h \in Seq(Nat) :
        /\ h = Hashed(n + 1) /\ Len(h) = a + s + l /\ Len(Message(n + 1)) = a + s + l
        /\ Len(Message(n)) = a + s /\ IsPart(rest, h, a, s)
  BY DEF StillWaits
<1>2. Len(c) = o /\ \A i \in 1 .. o : c[i] = b[i]
  <2>1. 0 + o <= Len(b) /\ o \in Nat
    OBVIOUS
  <2>2. PartOf(b, 0, o, Nat)
    BY <2>1, PartIs
  <2>3. \A i \in 1 .. o : 0 + i = i
    OBVIOUS
  <2>. QED
    BY <2>2, <2>3 DEF PartOf, IsPart
<1>3. ASSUME NEW i \in 1 .. o PROVE b[i] = h[a + s + i]
  <2>1. Message(n + 1)[a + s + i] = b[i]
    <3>1. PICK q \in Nat : q = a + s
      OBVIOUS
    <3>2. q = Len(Message(n))
      BY <1>1, <3>1
    <3>3. i \in 1 .. Len(b)
      OBVIOUS
    <3>4. \A z \in 1 .. Len(b) : Message(n + 1)[q + z] = b[z]
      BY <3>2, CallPlaces, ZenonT(40)
    <3>. QED
      BY <3>1, <3>3, <3>4
  <2>2. PICK j \in 1 .. w : j = s + i
    BY <1>0
  <2>3. n \in 0 .. Len(job.calls) /\ n + 1 \in 0 .. Len(job.calls)
    <3>1. PICK num \in Nat : num = Len(job.calls)
      BY DEF HashCalls
    <3>2. n \in 0 .. num - 1
      BY <3>1
    <3>3. n \in 0 .. num /\ n + 1 \in 0 .. num
      BY <3>1, <3>2
    <3>. QED
      BY <3>1, <3>3
  <2>4. g * WordBytes < Len(Message(n)) /\ Len(Message(n)) < (g + 1) * WordBytes
    <3>1. (g + 1) * w = g * w + w
      BY <1>0, OneMore
    <3>. QED
      BY <1>0, <1>1, <3>1
  <2>5. g * WordBytes + j <= Len(Message(n + 1)) /\ j \in 1 .. WordBytes
    <3>1. j \in 1 .. w /\ j = s + i /\ s + i <= s + o
      BY <2>2
    <3>0. s \in Nat
      OBVIOUS
    <3>a. a + s + o <= a + s + l
      BY <3>0, FewerFit, Zenon
    <3>2. a + s + o <= Len(Message(n + 1))
      BY <1>1, <3>a, Zenon
    <3>3. \A z, y, d, m \in Nat : d <= s + y /\ z + s + y <= m => z + d <= m
      OBVIOUS
    <3>4. PICK m \in Nat : m = Len(Message(n + 1))
      BY <1>1
    <3>5. a + j <= m
      BY <3>1, <3>2, <3>3, <3>4, SMTT(30)
    <3>. QED
      BY <1>0, <3>1, <3>4, <3>5
  <2>6. Hashed(n + 1)[g * WordBytes + j] = Message(n + 1)[g * WordBytes + j]
    BY <2>3, <2>4, <2>5, HashedApart
  <2>7. g * WordBytes + j = a + s + i
    BY <2>2
  <2>. QED
    BY <1>1, <2>1, <2>6, <2>7
<1>4. \A i \in 1 .. o : c[i] = h[a + s + i]
  BY <1>2, <1>3
<1>5. o \in Nat /\ a + s + o <= Len(h)
  <2>1. o \in Nat /\ a + s + o <= a + s + l
    <3>1. s \in Nat
      OBVIOUS
    <3>. QED
      BY <3>1, FewerFit, Zenon
  <2>. QED
    BY <1>1, <2>1, Zenon
<1>6. IsPart(rest \o c, h, a, s + o)
  BY <1>1, <1>2, <1>4, <1>5, PartGoesOn
<1>. QED
  BY <1>1, <1>6

\* The bytes r of call n + 1 are the message behind its first t words.
Remaining(n, t, r) ==
  /\ r \in Seq(Nat) /\ Len(Message(n)) <= t * WordBytes
  /\ Len(Message(n + 1)) = t * WordBytes + Len(r)
  /\ \A y \in 1 .. Len(r) : Message(n + 1)[t * WordBytes + y] = r[y]

\* A whole word of them is what is hashed there: its first byte and copies of
\* its second.
LEMMA WordIsPart ==
  ASSUME HashCalls, NEW n \in 0 .. Len(job.calls) - 1, NEW t \in Nat, NEW r, Remaining(n, t, r),
         NEW w \in Nat, w = WordBytes, NEW m \in Nat, m = t * w,
         NEW c \in Nat, NEW e \in Nat, e = c * w, e <= Len(r), NEW i \in 1 .. c
  PROVE  IsPart(WholeWord(r, i), Hashed(n + 1), m + (i - 1) * w, w)
<1>1. PICK d \in Nat, v \in Nat : /\ d = (i - 1) * w /\ v * w = m + d
                                  /\ (v + 1) * w = m + d + w /\ d + w <= e
  <2>1. PICK d \in Nat, v \in Nat : /\ d = (i - 1) * w /\ v = t + (i - 1) /\ v * w = t * w + d
                                   /\ (v + 1) * w = t * w + d + w /\ d + w <= c * w
    BY WordAt
  <2>. QED
    BY <2>1
<1>2. PICK u \in Nat : u = Len(r) /\ d + w <= u
  <2>1. PICK u \in Nat : u = Len(r)
    BY DEF Remaining
  <2>2. d + w <= e /\ e <= u
    BY <1>1, <2>1
  <2>3. \A s, y, z \in Nat : s + y <= z /\ z <= u => s + y <= u
    OBVIOUS
  <2>. QED
    BY <2>1, <2>2, <2>3
<1>3. n \in 0 .. Len(job.calls) /\ n + 1 \in 0 .. Len(job.calls)
  BY DEF HashCalls
<1>4. PICK h \in Seq(Nat) : h = Hashed(n + 1) /\ Len(h) = m + u /\ Len(Message(n + 1)) = m + u
  <2>1. Len(Message(n + 1)) = m + u
    BY <1>2 DEF Remaining
  <2>. QED
    BY <1>3, <2>1, HashedBytes
<1>5. InOneCall(v + 1)
  <2>1. PICK l \in Nat : l = Len(Message(n)) /\ l <= m
    BY <1>3, MessageType DEF Remaining
  <2>2. l <= m + d /\ m + d + w <= m + u
    BY <1>2, <2>1
  <2>3. Len(Message(n)) <= v * WordBytes /\ (v + 1) * WordBytes <= Len(Message(n + 1))
    BY <1>1, <1>4, <2>1, <2>2
  <2>. QED
    BY <2>3, LeftWhole
<1>6. PICK f \in Seq(Nat) : f = WholeWord(r, i) /\ Len(f) = w /\ \A j \in 1 .. w : f[j] = r[d + (IF j = 1 THEN 1 ELSE 2)]
  <2>1. r \in Seq(Nat) /\ w >= 2
    BY HashAssumption DEF Remaining
  <2>2. \A j \in 1 .. w : r[d + (IF j = 1 THEN 1 ELSE 2)] \in Nat
    BY <1>2, <2>1, SMTT(30)
  <2>3. WholeWord(r, i) = [j \in 1 .. w |-> r[d + (IF j = 1 THEN 1 ELSE 2)]]
    BY <1>1 DEF WholeWord
  <2>4. WholeWord(r, i) \in [1 .. w -> Nat]
    BY <2>2, <2>3
  <2>5. WholeWord(r, i) \in Seq(Nat) /\ Len(WholeWord(r, i)) = w
    BY <2>4
  <2>. QED
    BY <2>3, <2>5
<1>7. ASSUME NEW j \in 1 .. w PROVE f[j] = h[m + d + j]
  <2>1. PICK s \in Nat : s = (IF j = 1 THEN 1 ELSE 2) /\ d + s \in 1 .. u
    BY <1>2, HashAssumption
  <2>2. Message(n + 1)[m + (d + s)] = r[d + s]
    BY <1>2, <2>1 DEF Remaining
  <2>3. v * WordBytes + j <= Len(Message(n + 1)) /\ j \in 1 .. WordBytes
    <3>1. m + d + j <= m + u
      BY <1>2
    <3>. QED
      BY <1>1, <1>4, <3>1
  <2>4. Hashed(n + 1)[v * WordBytes + j] = HashedHere(n + 1, v, j)
    BY <1>3, <2>3, HashedAt
  <2>5. HashedHere(n + 1, v, j) = Message(n + 1)[m + d + s]
    <3>1. (j > 2 => s = 2) /\ (~(j > 2) => s = j)
      BY <2>1
    <3>. QED
      BY <1>1, <1>5, <3>1 DEF HashedHere
  <2>6. m + d + s = m + (d + s)
    OBVIOUS
  <2>. QED
    BY <1>1, <1>4, <1>6, <2>1, <2>2, <2>4, <2>5, <2>6
<1>8. PICK y \in Nat : y = m + d /\ y + w <= Len(h)
  BY <1>2, <1>4
<1>9. PartOf(h, y, w, Nat)
  BY <1>8, PartIs
<1>10. PICK g \in Seq(Nat) : g = SubSeq(h, y + 1, y + w) /\ Len(g) = w /\ \A j \in 1 .. w : g[j] = h[y + j]
  BY <1>9 DEF PartOf
<1>11. f = g
  BY <1>6, <1>7, <1>8, <1>10, SameMembers, SMTT(30)
<1>. QED
  BY <1>1, <1>4, <1>6, <1>8, <1>10, <1>11 DEF IsPart

\* The bytes r are c words and q bytes that make none.
EndsAt(r, t, w, m, c, e, q) ==
  w = WordBytes /\ m = t * w /\ e = c * w /\ Len(r) = e + q /\ q \in 0 .. w - 1

EndIs(r, n, m, e, q) ==
  /\ IsPart(SubSeq(r, e + 1, e + q), Hashed(n + 1), m + e, q)
  /\ SubSeq(r, e + 1, e + q) \in Seq(Nat) /\ Len(SubSeq(r, e + 1, e + q)) = q

\* And those q bytes are what is hashed there.
LEMMA LeftOver ==
  ASSUME HashCalls, NEW n \in 0 .. Len(job.calls) - 1, NEW t \in Nat, NEW r, Remaining(n, t, r),
         NEW w \in Nat, NEW m \in Nat, NEW c \in Nat, NEW e \in Nat, NEW q \in Nat, EndsAt(r, t, w, m, c, e, q)
  PROVE  EndIs(r, n, m, e, q)
<1>0. w = WordBytes /\ m = t * w /\ e = c * w /\ q \in 0 .. w - 1 /\ Len(r) = e + q
  BY DEF EndsAt
<1>1. PICK s \in Seq(Nat) : s = r /\ Len(s) = e + q
  BY <1>0 DEF Remaining
<1>2. n \in 0 .. Len(job.calls) /\ n + 1 \in 0 .. Len(job.calls)
  BY DEF HashCalls
<1>3. PICK h \in Seq(Nat) : h = Hashed(n + 1) /\ Len(h) = m + (e + q) /\ Len(Message(n + 1)) = m + (e + q)
  <2>1. Len(Message(n + 1)) = m + (e + q)
    BY <1>0, <1>1 DEF Remaining
  <2>. QED
    BY <1>2, <2>1, HashedBytes
<1>4. PICK v \in Nat, y \in Nat : v = t + c /\ y = m + e /\ v * WordBytes = y /\ (v + 1) * WordBytes = y + w
  <2>1. PICK v \in Nat : v = t + c /\ v * w = m + e
    <3>1. (t + c) * w = t * w + c * w
      OBVIOUS
    <3>. QED
      BY <1>0, <3>1
  <2>2. (v + 1) * w = v * w + w
    BY OneMore
  <2>. QED
    BY <1>0, <2>1, <2>2
<1>5. PICK z \in Seq(Nat) : z = SubSeq(s, e + 1, e + q) /\ Len(z) = q /\ \A i \in 1 .. q : z[i] = s[e + i]
  <2>1. q \in Nat /\ e + q <= Len(s)
    BY <1>1
  <2>2. PartOf(s, e, q, Nat)
    BY <2>1, PartIs
  <2>. QED
    BY <2>2 DEF PartOf
<1>6. PICK g \in Seq(Nat) : g = SubSeq(h, y + 1, y + q) /\ Len(g) = q /\ \A i \in 1 .. q : g[i] = h[y + i]
  <2>1. q \in Nat /\ y + q <= Len(h)
    BY <1>3, <1>4
  <2>2. PartOf(h, y, q, Nat)
    BY <2>1, PartIs
  <2>. QED
    BY <2>2 DEF PartOf
<1>7. ASSUME NEW i \in 1 .. q PROVE z[i] = g[i]
  <2>1. Message(n + 1)[m + (e + i)] = s[e + i]
    <3>1. e + i \in 1 .. e + q
      <4>1. q \in Nat
        OBVIOUS
      <4>. QED
        BY <4>1, PlaceBehind, Zenon
    <3>. QED
      BY <1>0, <1>1, <3>1 DEF Remaining
  <2>2. i \in 1 .. WordBytes /\ y + i <= m + (e + q) /\ y < m + (e + q) /\ m + (e + q) < y + w /\ y + i = m + (e + i)
    BY <1>0, <1>4
  <2>3. v * WordBytes + i <= Len(Message(n + 1)) /\ v * WordBytes < Len(Message(n + 1))
        /\ Len(Message(n + 1)) < (v + 1) * WordBytes
    BY <1>3, <1>4, <2>2
  <2>4. Hashed(n + 1)[v * WordBytes + i] = Message(n + 1)[v * WordBytes + i]
    BY <1>2, <2>2, <2>3, HashedApart
  <2>. QED
    BY <1>3, <1>4, <1>5, <1>6, <2>1, <2>2, <2>4
<1>8. z = g
  <2>1. PICK p \in Nat : p = q
    OBVIOUS
  <2>2. Len(z) = p /\ Len(g) = p /\ \A i \in 1 .. p : z[i] = g[i]
    BY <1>5, <1>6, <1>7, <2>1
  <2>. QED
    BY <2>2, SameMembers
<1>. QED
  BY <1>1, <1>3, <1>4, <1>5, <1>6, <1>8 DEF IsPart, EndIs

\* The state has been given all whole words of the bytes, and the others wait.
LEMMA WordsOfCall ==
  ASSUME HashCalls, NEW n \in 0 .. Len(job.calls) - 1, NEW t \in Nat, NEW r, Remaining(n, t, r),
         NEW top, Whole(top), IsPart(Given(top), Hashed(n + 1), 0, t * WordBytes)
  PROVE  \E g \in Nat :
           Waits(n + 1, g, AddWholeWords(top, r), SubSeq(r, (Len(r) \div WordBytes) * WordBytes + 1, Len(r)))
<1>1. PICK w \in Nat \ {0} : w = WordBytes
  BY HashAssumption
<1>2. PICK s \in Seq(Nat), u \in Nat : s = r /\ u = Len(s)
  BY DEF Remaining
<1>3. PICK c \in Nat, q \in 0 .. w - 1 : u = c * w + q /\ c = u \div w
  BY Quotient
<1>4. PICK e \in Nat, m \in Nat : e = c * w /\ m = t * w
  BY OneMore
<1>5. u = e + q /\ e <= u /\ q \in Nat
  BY <1>3, <1>4
<1>6. PICK h \in Seq(Nat) : h = Hashed(n + 1) /\ Len(h) = m + u
  <2>1. n + 1 \in 0 .. Len(job.calls)
    BY DEF HashCalls
  <2>2. Len(Message(n + 1)) = m + u
    BY <1>1, <1>2, <1>4 DEF Remaining
  <2>. QED
    BY <2>1, <2>2, HashedBytes
<1>7. PICK next : next = AddWholeWords(top, s)
  OBVIOUS
<1>8. Whole(next) /\ Given(next) = SubSeq(h, 1, m + c * WordBytes)
  <2>1. c = Len(s) \div WordBytes
    BY <1>1, <1>2, <1>3
  <2>2. m + c * WordBytes <= Len(h)
    BY <1>1, <1>4, <1>5, <1>6
  <2>3. Given(top) = SubSeq(h, 1, m)
    <3>1. 0 + 1 = 1 /\ 0 + m = m
      OBVIOUS
    <3>. QED
      BY <1>1, <1>4, <1>6, <3>1 DEF IsPart
  <2>4. ASSUME NEW i \in 1 .. c
        PROVE  WholeWord(s, i) = SubSeq(h, m + (i - 1) * WordBytes + 1, m + (i - 1) * WordBytes + WordBytes)
    <3>1. IsPart(WholeWord(r, i), Hashed(n + 1), m + (i - 1) * w, w)
      BY <1>1, <1>2, <1>4, <1>5, WordIsPart
    <3>. QED
      BY <1>1, <1>2, <1>6, <3>1 DEF IsPart
  <2>. QED
    <3>1. WordsFit(s, h, m, c)
      BY <2>1, <2>2, <2>4 DEF WordsFit
    <3>2. Whole(AddWholeWords(top, s)) /\ Given(AddWholeWords(top, s)) = SubSeq(h, 1, m + c * WordBytes)
      BY <2>3, <3>1, WordsAdded, SMTT(60)
    <3>. QED
      BY <1>7, <3>2
<1>9. /\ IsPart(SubSeq(s, e + 1, e + q), h, m + e, q)
      /\ SubSeq(s, e + 1, e + q) \in Seq(Nat) /\ Len(SubSeq(s, e + 1, e + q)) = q
  <2>1. EndsAt(r, t, w, m, c, e, q) /\ w \in Nat /\ q \in Nat
    BY <1>1, <1>2, <1>4, <1>5 DEF EndsAt
  <2>2. EndIs(r, n, m, e, q)
    BY <2>1, LeftOver
  <2>. QED
    BY <1>2, <1>6, <2>2, Zenon DEF EndIs
<1>10. PICK g \in Nat : g = t + c /\ g * WordBytes = m + e
  <2>1. (t + c) * w = t * w + c * w
    OBVIOUS
  <2>. QED
    BY <1>1, <1>4, <2>1
<1>11. PICK v \in Seq(Nat) : v = SubSeq(s, e + 1, e + q) /\ Len(v) = q
  BY <1>9
<1>12. IsPart(Given(next), h, 0, m + e)
  <2>1. 0 + 1 = 1 /\ 0 + (m + e) = m + e
    OBVIOUS
  <2>. QED
    BY <1>1, <1>4, <1>8, <2>1 DEF IsPart
<1>13. Len(h) = m + e + q /\ q < w
  BY <1>5, <1>6
<1>14. Waits(n + 1, g, next, v)
  BY <1>1, <1>6, <1>8, <1>9, <1>10, <1>11, <1>12, <1>13 DEF Waits
<1>15. SubSeq(r, (Len(r) \div WordBytes) * WordBytes + 1, Len(r)) = v
  BY <1>1, <1>2, <1>3, <1>4, <1>5, <1>11
<1>. QED
  BY <1>2, <1>7, <1>14, <1>15

\* A call that does not complete the saved word.
LEMMA ShortCall ==
  ASSUME HashCalls, NEW n \in 0 .. Len(job.calls) - 1, NEW g \in Nat, NEW state, NEW rest,
         Waits(n, g, state, rest), Len(job.calls[n + 1]) < WordBytes - Len(rest), Len(rest) # 0
  PROVE  Waits(n + 1, g, state, rest \o job.calls[n + 1])
<1>1. PICK z \in Seq(Nat), b \in Seq(Nat) : z = rest /\ b = job.calls[n + 1]
  BY OneCallMore DEF Waits, HashCalls
<1>2. PICK s \in Nat, l \in Nat : s = Len(z) /\ l = Len(b)
  OBVIOUS
<1>3. PICK a \in Nat : a = g * WordBytes
  BY HashAssumption
<1>4. StillWaits(n, a, s, l, state, z)
  BY <1>1, <1>2, <1>3, StaysWaiting
<1>5. s \in Nat \ {0} /\ s < WordBytes /\ s + l < WordBytes /\ s + l <= WordBytes /\ l \in 0 .. l
  BY <1>1, <1>2, HashAssumption, SMTT(30)
<1>6. IsPart(b, b, 0, l)
  <2>1. SubSeq(b, 1, l) = b /\ 0 + 1 = 1 /\ 0 + l = l
    BY <1>2
  <2>. QED
    BY <2>1 DEF IsPart
<1>7. IsPart(z \o b, Hashed(n + 1), a, s + l)
  BY <1>1, <1>2, <1>3, <1>4, <1>5, <1>6, SavedMore
<1>8. z \o b \in Seq(Nat) /\ Len(z \o b) = s + l
  BY <1>2
<1>9. PICK y \in Seq(Nat) : y = z \o b
  BY <1>8
<1>10. Len(Hashed(n + 1)) = a + (s + l) /\ IsPart(Given(state), Hashed(n + 1), 0, a)
  <2>1. Len(Hashed(n + 1)) = a + s + l /\ a + s + l = a + (s + l)
    BY <1>4 DEF StillWaits
  <2>. QED
    BY <1>4, <2>1 DEF StillWaits
<1>11. Waits(n + 1, g, state, y)
  <2>1. Whole(state)
    BY DEF Waits
  <2>. QED
    BY <1>3, <1>5, <1>7, <1>8, <1>9, <1>10, <2>1 DEF Waits
<1>. QED
  BY <1>1, <1>9, <1>11

\* The b of length l is a call behind p bytes, and o bytes of it complete t
\* words.
GoesOn(n, p, b, l, o, t) ==
  p = Len(Message(n)) /\ b = job.calls[n + 1] /\ l = Len(b) /\ t * WordBytes = p + o

\* What a call has behind the bytes that complete the saved word.
LEMMA RemainingBehind ==
  ASSUME HashCalls, NEW n \in 0 .. Len(job.calls) - 1, NEW p \in Nat, NEW b \in Seq(Nat), NEW l \in Nat,
         NEW o \in 0 .. l, NEW t \in Nat, GoesOn(n, p, b, l, o, t)
  PROVE  Remaining(n, t, SubSeq(b, o + 1, l))
<1>1. Len(Message(n + 1)) = p + l /\ \A z \in 1 .. l : Message(n + 1)[p + z] = b[z]
  BY CallPlaces, ZenonT(40) DEF GoesOn
<1>2. PICK d \in Nat : d = l - o /\ o + d = l /\ o \in Nat
  BY Difference, Zenon
<1>3. PartOf(b, o, d, Nat)
  BY <1>2, PartIs DEF GoesOn
<1>4. PICK r \in Seq(Nat) : r = SubSeq(b, o + 1, l) /\ Len(r) = d /\ \A i \in 1 .. d : r[i] = b[o + i]
  BY <1>2, <1>3 DEF PartOf
<1>5. ASSUME NEW z \in 1 .. d PROVE Message(n + 1)[p + o + z] = r[z]
  <2>1. PICK y \in 1 .. l : y = o + z /\ p + y = p + o + z
    <3>1. o + z \in 1 .. o + d /\ p + (o + z) = p + o + z
      <4>1. o \in Nat /\ d \in Nat
        BY <1>2
      <4>. QED
        BY <4>1, PlacesBehind, SMTT(30)
    <3>. QED
      BY <1>2, <3>1, Zenon
  <2>. QED
    BY <1>1, <1>4, <2>1
<1>6. p <= p + o /\ p + l = p + o + d
  <2>1. p <= p + o /\ p + (o + d) = p + o + d
    BY <1>2, LongerLength, ZenonT(30)
  <2>. QED
    BY <1>2, <2>1, Zenon
<1>. QED
  <2>1. Len(Message(n)) <= t * WordBytes
    BY <1>6 DEF GoesOn
  <2>2. Len(Message(n + 1)) = t * WordBytes + Len(r)
    BY <1>1, <1>4, <1>6, Zenon DEF GoesOn
  <2>3. \A z \in 1 .. Len(r) : Message(n + 1)[t * WordBytes + z] = r[z]
    <3>1. 1 .. Len(r) = 1 .. d /\ t * WordBytes = p + o
      BY <1>4 DEF GoesOn
    <3>. QED
      BY <1>5, <3>1
  <2>4. Remaining(n, t, r)
    BY <1>4, <2>1, <2>2, <2>3, Zenon DEF Remaining
  <2>. QED
    BY <1>4, <2>4, Zenon

\* A call that completes the saved word.
LEMMA SavedCompleted ==
  ASSUME HashCalls, NEW n \in 0 .. Len(job.calls) - 1, NEW g \in Nat, NEW state, NEW rest,
         Waits(n, g, state, rest), Len(rest) # 0,
         NEW o \in 0 .. Len(job.calls[n + 1]), Len(rest) + o = WordBytes, NEW top,
         top = AddWord(state, rest \o SubSeq(job.calls[n + 1], 1, o))
  PROVE  /\ Whole(top) /\ IsPart(Given(top), Hashed(n + 1), 0, (g + 1) * WordBytes)
         /\ Remaining(n, g + 1, SubSeq(job.calls[n + 1], o + 1, Len(job.calls[n + 1])))
<1>1. PICK z \in Seq(Nat), b \in Seq(Nat) : z = rest /\ b = job.calls[n + 1]
  BY OneCallMore DEF Waits, HashCalls
<1>2. PICK s \in Nat \ {0}, l \in Nat : s = Len(z) /\ l = Len(b)
  BY <1>1
<1>3. PICK w \in Nat, a \in Nat : w = WordBytes /\ a = g * w /\ (g + 1) * w = a + w
  BY HashAssumption, OneMore
<1>4. StillWaits(n, a, s, l, state, z)
  BY <1>1, <1>2, <1>3, StaysWaiting
<1>5. o \in 0 .. l /\ o \in Nat /\ s + o = w /\ s < WordBytes
  BY <1>1, <1>2, <1>3 DEF Waits
<1>6. PICK c \in Seq(Nat) : c = SubSeq(b, 1, o) /\ IsPart(c, b, 0, o)
  <2>1. o <= Len(b)
    BY <1>2, <1>5
  <2>2. SubSeq(b, 1, o) \in Seq(Nat)
    BY <1>5, <2>1
  <2>3. 0 + 1 = 1 /\ 0 + o = o
    BY <1>5
  <2>. QED
    BY <2>2, <2>3 DEF IsPart
<1>7. IsPart(z \o c, Hashed(n + 1), a, s + o)
  <2>1. s + o <= WordBytes /\ a = g * WordBytes
    BY <1>3, <1>5
  <2>. QED
    BY <1>1, <1>2, <1>4, <1>5, <1>6, <2>1, SavedMore
<1>8. PICK y \in Seq(Nat) : y = z \o c
  <2>1. z \o c \in Seq(Nat)
    BY ConcatProperties
  <2>. QED
    BY <2>1
<1>9. PICK h \in Seq(Nat) : /\ h = Hashed(n + 1) /\ Len(h) = a + s + l /\ Len(Message(n)) = a + s
                            /\ Given(state) = SubSeq(h, 1, a) /\ y = SubSeq(h, a + 1, a + w)
  <2>1. 0 + 1 = 1 /\ 0 + a = a
    OBVIOUS
  <2>. QED
    BY <1>4, <1>5, <1>7, <1>8, <2>1 DEF StillWaits, IsPart
<1>10. SubSeq(h, 1, a) \o SubSeq(h, a + 1, a + w) = SubSeq(h, 1, a + w)
  <2>1. PICK e \in 0 .. Len(h) : e = a + w
    BY <1>5, <1>9
  <2>2. a \in 0 .. e
    BY <2>1
  <2>3. SubSeq(h, 1, a) \o SubSeq(h, a + 1, e) = SubSeq(h, 1, e)
    BY <2>2, LongerBeginning
  <2>. QED
    BY <2>1, <2>3
<1>11. Whole(AddWord(state, y)) /\ Given(AddWord(state, y)) = Given(state) \o y
  <2>1. Whole(state)
    BY DEF Waits
  <2>. QED
    BY <2>1, WordAdded
<1>12. top = AddWord(state, y)
  BY <1>1, <1>6, <1>8
<1>13. Given(top) = SubSeq(h, 1, a + w)
  BY <1>9, <1>10, <1>11, <1>12
<1>14. IsPart(Given(top), Hashed(n + 1), 0, (g + 1) * WordBytes)
  <2>1. 0 + 1 = 1 /\ 0 + (a + w) = a + w
    OBVIOUS
  <2>. QED
    BY <1>3, <1>9, <1>13, <2>1 DEF IsPart
<1>15. Remaining(n, g + 1, SubSeq(b, o + 1, l))
  <2>1. PICK p \in Nat : p = Len(Message(n)) /\ p = a + s
    BY <1>9
  <2>2. PICK t \in Nat : t = g + 1 /\ t * WordBytes = p + o
    BY <1>3, <1>5, <2>1
  <2>3. Remaining(n, t, SubSeq(b, o + 1, l))
    BY <1>1, <1>2, <1>5, <2>1, <2>2, RemainingBehind DEF GoesOn
  <2>. QED
    BY <2>2, <2>3
<1>. QED
  BY <1>1, <1>2, <1>11, <1>12, <1>14, <1>15

\* A call with no word begun.
LEMMA NoneSaved ==
  ASSUME HashCalls, NEW n \in 0 .. Len(job.calls) - 1, NEW g \in Nat, NEW state, NEW rest,
         Waits(n, g, state, rest), Len(rest) = 0
  PROVE  /\ Whole(state) /\ IsPart(Given(state), Hashed(n + 1), 0, g * WordBytes)
         /\ Remaining(n, g, SubSeq(job.calls[n + 1], 1, Len(job.calls[n + 1])))
<1>1. PICK z \in Seq(Nat), b \in Seq(Nat) : z = rest /\ b = job.calls[n + 1]
  BY OneCallMore DEF Waits, HashCalls
<1>2. PICK s \in Nat, l \in Nat : s = Len(z) /\ l = Len(b) /\ s = 0
  BY <1>1
<1>3. PICK a \in Nat : a = g * WordBytes
  BY HashAssumption, OneMore
<1>4. StillWaits(n, a, s, l, state, z)
  BY <1>1, <1>2, <1>3, StaysWaiting
<1>5. PICK p \in Nat, o \in 0 .. l : p = Len(Message(n)) /\ p = a /\ o = 0 /\ g * WordBytes = p + o /\ o + 1 = 1
  BY <1>2, <1>3, <1>4 DEF StillWaits
<1>6. Remaining(n, g, SubSeq(b, o + 1, l))
  BY <1>1, <1>2, <1>5, RemainingBehind DEF GoesOn
<1>. QED
  BY <1>1, <1>2, <1>3, <1>4, <1>5, <1>6 DEF StillWaits, Waits

-----------------------------------------------------------------------------
(* HashBuffer: the invariant.                                              *)

\* The bytes that the saved ones lack to a word.
LEMMA OldTailIs ==
  ASSUME saved \in Seq(Nat), Len(saved) < WordBytes
  PROVE  OldTail \in Nat /\ IF Len(saved) = 0 THEN OldTail = 0 ELSE Len(saved) + OldTail = WordBytes
<1>1. PICK w \in Nat \ {0}, s \in Nat : w = WordBytes /\ s = Len(saved) /\ s < w
  <2>1. Len(saved) \in Nat
    OBVIOUS
  <2>. QED
    BY <2>1, HashAssumption
<1>2. CASE s = 0
  <2>1. 1 * w = w
    OBVIOUS
  <2>2. Divided(w, w, 1, 0) /\ 0 \in 0 .. w - 1
    BY <2>1 DEF Divided
  <2>3. w % w = 0
    BY <2>2, OneQuotient
  <2>4. w - s = w
    BY <1>2
  <2>. QED
    BY <1>1, <1>2, <2>3, <2>4 DEF OldTail
<1>3. CASE s # 0
  <2>1. PICK y \in Nat : y = w - s /\ y < w /\ s + y = w
    BY <1>1, <1>3
  <2>2. y % w = y
    BY <2>1, SmallRemainder
  <2>. QED
    BY <1>1, <1>3, <2>1, <2>2 DEF OldTail
<1>. QED
  BY <1>2, <1>3

\* The state, and where a hash job is.
HashState == [blocks |-> blocks, block |-> block]

HashShape ==
  /\ HashCalls /\ taken \in 0 .. Len(job.calls) /\ pc \in {"start", "returned"}
  /\ pc = "returned" => answer = Append(blocks, Append(block, Append(saved, "pad")))

\* The inductive invariant of a hash job: some number of words was given, and
\* the rest waits.
Absorbed ==
  /\ HashShape
  /\ \E g \in Nat : Waits(taken, g, HashState, saved)

\* It holds before the first call.
LEMMA HashStarts ==
  ASSUME CallInit, HashInit, job.op = "hash"
  PROVE  Absorbed
<1>1. HashCalls
  BY CallsAssumption DEF CallInit, HashCalls
<1>2. HashShape
  BY <1>1 DEF CallInit, HashInit, HashShape, HashCalls
<1>3. Message(0) = << >> /\ 0 \in 0 .. Len(job.calls)
  BY <1>1, MessageStarts DEF HashCalls
<1>4. PICK h \in Seq(Nat) : h = Hashed(0) /\ Len(h) = 0
  BY <1>1, <1>3, HashedBytes
<1>5. Whole(HashState)
  BY HashAssumption DEF HashInit, HashState, Whole, States
<1>6. Given(HashState) = << >>
  <2>1. PICK z \in Seq(Seq(Nat)) : z = << >>
    <3>1. PICK S : S = Seq(Nat)
      OBVIOUS
    <3>2. << >> \in Seq(S)
      OBVIOUS
    <3>. QED
      BY <3>1, <3>2
  <2>2. z \o z = z
    BY <2>1
  <2>. QED
    BY <2>1, <2>2, FlattenEmpty DEF HashInit, HashState, Given
<1>7. 0 * WordBytes = 0 /\ 0 + 0 = 0 /\ SubSeq(h, 0 + 1, 0 + 0) = << >>
  BY HashAssumption
<1>8. Waits(0, 0, HashState, << >>)
  <2>1. Len(<< >>) = 0 /\ << >> \in Seq(Nat) /\ 0 < WordBytes
    BY HashAssumption
  <2>. QED
    BY <1>4, <1>5, <1>6, <1>7, <2>1 DEF Waits, IsPart
<1>9. taken = 0 /\ saved = << >>
  BY DEF HashInit
<1>. QED
  BY <1>2, <1>8, <1>9 DEF Absorbed

\* The calls and what they make do not change within a job.
LEMMA SameJobSameHash ==
  ASSUME job' = job, NEW n, NEW g, NEW state, NEW rest
  PROVE  /\ Waits(n, g, state, rest)' <=> Waits(n, g, state, rest)
         /\ HashCalls' <=> HashCalls
BY DEF Waits, HashCalls, Hashed, InWholeWord, InOneCall, Before, Message, Given, Whole

\* A step that takes in a call.
LEMMA TakesIn ==
  ASSUME HashShape, pc = "start", taken < Len(job.calls),
         job' = job, answer' = answer, pc' = "start", taken' = taken + 1,
         NEW g \in Nat, NEW state, NEW rest, Waits(taken + 1, g, state, rest),
         HashState' = state, saved' = rest
  PROVE  Absorbed'
<1>1. PICK n \in 0 .. Len(job.calls) : n = taken + 1 /\ taken' = n
  BY DEF HashShape, HashCalls
<1>2. HashShape'
  BY <1>1 DEF HashShape, HashCalls
<1>3. Waits(n, g, state, rest)'
  BY <1>1, SameJobSameHash
<1>4. Waits(taken, g, HashState, saved)'
  BY <1>1, <1>3 DEF Waits
<1>. QED
  BY <1>2, <1>4 DEF Absorbed

\* Update with too little to complete the saved word keeps the invariant.
LEMMA ShortKeeps ==
  ASSUME Absorbed, UpdateShort
  PROVE  Absorbed'
<1>1. PICK n \in 0 .. Len(job.calls) - 1 : n = taken /\ job.calls[taken + 1] = job.calls[n + 1]
  BY DEF Absorbed, HashShape, HashCalls, UpdateShort
<1>2. PICK g \in Nat : Waits(taken, g, HashState, saved)
  BY DEF Absorbed
<1>3. saved \in Seq(Nat) /\ Len(saved) < WordBytes /\ HashCalls /\ Len(saved) \in Nat
  BY <1>2 DEF Waits, Absorbed, HashShape
<1>4. OldTail \in Nat /\ IF Len(saved) = 0 THEN OldTail = 0 ELSE Len(saved) + OldTail = WordBytes
  BY <1>3, OldTailIs
<1>5. PICK b \in Seq(Nat) : b = job.calls[n + 1] /\ Len(b) \in Nat
  <2>1. job.calls[n + 1] \in Seq(Nat)
    BY <1>3, OneCallMore
  <2>. QED
    BY <2>1
<1>6. Len(b) < OldTail
  BY <1>1, <1>5 DEF UpdateShort
<1>7. Len(saved) # 0 /\ Len(job.calls[n + 1]) < WordBytes - Len(saved)
  BY <1>3, <1>4, <1>5, <1>6, HashAssumption
<1>8. PICK state, rest : state = HashState /\ rest = saved
  OBVIOUS
<1>9. Waits(n + 1, g, state, rest \o job.calls[n + 1])
  <2>1. Waits(n, g, state, rest) /\ Len(rest) # 0 /\ Len(job.calls[n + 1]) < WordBytes - Len(rest)
    BY <1>1, <1>2, <1>7, <1>8
  <2>. QED
    BY <1>3, <2>1, ShortCall
<1>10. /\ HashShape /\ pc = "start" /\ taken < Len(job.calls) /\ job' = job /\ answer' = answer /\ pc' = "start"
       /\ taken' = taken + 1 /\ HashState' = state /\ saved' = rest \o job.calls[n + 1]
  BY <1>1, <1>8 DEF UpdateShort, Continue, Goto, At, Absorbed, HashState
<1>11. PICK more : more = rest \o job.calls[n + 1]
  OBVIOUS
<1>. QED
  BY <1>1, <1>9, <1>10, <1>11, TakesIn

\* Update keeps it, with a saved word or without.
LEMMA UpdateKeeps ==
  ASSUME Absorbed, Update
  PROVE  Absorbed'
<1>1. PICK n \in 0 .. Len(job.calls) - 1 : n = taken /\ job.calls[taken + 1] = job.calls[n + 1]
  BY DEF Absorbed, HashShape, HashCalls, Update
<1>2. PICK g \in Nat : Waits(taken, g, HashState, saved)
  BY DEF Absorbed
<1>3. saved \in Seq(Nat) /\ Len(saved) < WordBytes /\ HashCalls /\ Len(saved) \in Nat
  BY <1>2 DEF Waits, Absorbed, HashShape
<1>4. OldTail \in Nat /\ IF Len(saved) = 0 THEN OldTail = 0 ELSE Len(saved) + OldTail = WordBytes
  BY <1>3, OldTailIs
<1>5. PICK b \in Seq(Nat) : b = job.calls[n + 1] /\ Len(b) \in Nat
  <2>1. job.calls[n + 1] \in Seq(Nat)
    BY <1>3, OneCallMore
  <2>. QED
    BY <2>1
<1>6. PICK o \in 0 .. Len(b) : o = OldTail
  BY <1>1, <1>4, <1>5 DEF Update
<1>7. PICK state, rest : state = HashState /\ rest = saved
  OBVIOUS
<1>8. PICK top : top = IF o = 0 THEN state ELSE AddWord(state, rest \o SubSeq(b, 1, o))
  OBVIOUS
<1>9. PICK r : r = SubSeq(b, o + 1, Len(b))
  OBVIOUS
<1>10. Waits(n, g, state, rest)
  BY <1>1, <1>2, <1>7
<1>11. \E t \in Nat : Whole(top) /\ IsPart(Given(top), Hashed(n + 1), 0, t * WordBytes) /\ Remaining(n, t, r)
  <2>1. CASE Len(rest) = 0
    <3>1. o = 0 /\ o + 1 = 1
      BY <1>4, <1>6, <1>7, <2>1
    <3>2. top = state
      BY <1>8, <3>1
    <3>3. /\ Whole(state) /\ IsPart(Given(state), Hashed(n + 1), 0, g * WordBytes)
          /\ Remaining(n, g, SubSeq(job.calls[n + 1], 1, Len(job.calls[n + 1])))
      BY <1>3, <1>10, <2>1, NoneSaved
    <3>. QED
      BY <1>5, <1>9, <3>1, <3>2, <3>3
  <2>2. CASE Len(rest) # 0
    <3>1. Len(rest) + o = WordBytes /\ o # 0
      BY <1>3, <1>4, <1>6, <1>7, <2>2, HashAssumption
    <3>2. top = AddWord(state, rest \o SubSeq(job.calls[n + 1], 1, o)) /\ o \in 0 .. Len(job.calls[n + 1])
      BY <1>5, <1>8, <3>1
    <3>3. /\ Whole(top) /\ IsPart(Given(top), Hashed(n + 1), 0, (g + 1) * WordBytes)
          /\ Remaining(n, g + 1, SubSeq(job.calls[n + 1], o + 1, Len(job.calls[n + 1])))
      BY <1>3, <1>10, <2>2, <3>1, <3>2, SavedCompleted
    <3>4. g + 1 \in Nat
      OBVIOUS
    <3>. QED
      BY <1>5, <1>9, <3>3, <3>4
  <2>. QED
    BY <2>1, <2>2
<1>12. PICK after, left : after = AddWholeWords(top, r) /\ left = SubSeq(r, (Len(r) \div WordBytes) * WordBytes + 1, Len(r))
  OBVIOUS
<1>13. PICK t \in Nat : Waits(n + 1, t, after, left)
  <2>1. PICK t \in Nat : Whole(top) /\ IsPart(Given(top), Hashed(n + 1), 0, t * WordBytes) /\ Remaining(n, t, r)
    BY <1>11
  <2>2. \E u \in Nat : Waits(n + 1, u, AddWholeWords(top, r), SubSeq(r, (Len(r) \div WordBytes) * WordBytes + 1, Len(r)))
    BY <1>3, <2>1, WordsOfCall
  <2>. QED
    BY <1>12, <2>2
<1>14. blocks' = after.blocks /\ block' = after.block /\ saved' = left
  BY <1>1, <1>5, <1>6, <1>7, <1>8, <1>9, <1>12 DEF Update, HashState
<1>15. HashState' = after
  <2>1. after \in States
    BY <1>13 DEF Waits, Whole
  <2>. QED
    BY <1>14, <2>1 DEF HashState, States
<1>16. /\ HashShape /\ pc = "start" /\ taken < Len(job.calls) /\ job' = job /\ answer' = answer /\ pc' = "start"
       /\ taken' = taken + 1
  BY DEF Update, Continue, Goto, At, Absorbed
<1>. QED
  BY <1>1, <1>13, <1>14, <1>15, <1>16, TakesIn

\* Finalize changes nothing but the answer.
LEMMA FinalizeKeeps ==
  ASSUME Absorbed, Finalize
  PROVE  Absorbed'
<1>1. PICK g \in Nat : Waits(taken, g, HashState, saved)
  BY DEF Absorbed
<1>2. /\ job' = job /\ pc' = "returned" /\ answer' = Append(blocks, Append(block, Append(saved, "pad")))
      /\ blocks' = blocks /\ block' = block /\ saved' = saved /\ taken' = taken
  BY DEF Finalize, Return, Goto, hashVars
<1>3. HashShape'
  BY <1>2 DEF Absorbed, HashShape, HashCalls
<1>4. PICK n, state, rest : n = taken /\ state = HashState /\ rest = saved
  OBVIOUS
<1>5. Waits(n, g, state, rest)'
  BY <1>1, <1>2, <1>4, SameJobSameHash
<1>6. Waits(taken, g, HashState, saved)'
  BY <1>2, <1>4, <1>5 DEF Waits, HashState
<1>. QED
  BY <1>3, <1>6 DEF Absorbed

\* The padding is behind all of it.
LEMMA PadIsLast ==
  ASSUME NEW p \in Seq(Seq(Seq(Nat))), NEW b \in Seq(Seq(Nat)), NEW v \in Seq(Nat)
  PROVE  FlattenSeq(FlattenSeq(Append(p, Append(b, Append(v, "pad")))))
           = Append(FlattenSeq(FlattenSeq(p) \o b) \o v, "pad")
<1>1. PICK S : S = Nat \cup {"pad"}
  OBVIOUS
<1>2. v \in Seq(S) /\ b \in Seq(Seq(S)) /\ p \in Seq(Seq(Seq(S)))
  <2>1. Seq(Nat) \subseteq Seq(S)
    BY <1>1, SeqWider
  <2>2. Seq(Seq(Nat)) \subseteq Seq(Seq(S))
    BY <2>1, SeqWider
  <2>3. Seq(Seq(Seq(Nat))) \subseteq Seq(Seq(Seq(S)))
    BY <2>2, SeqWider
  <2>. QED
    BY <2>1, <2>2, <2>3, Zenon
<1>3. "pad" \in S
  BY <1>1
<1>. QED
  BY <1>2, <1>3, LastOfAll

\* What the invariant says of the stream is the property.
LEMMA BytesInPlace ==
  ASSUME Absorbed, job.op = "hash"
  PROVE  WordsInPlace
<1>1. PICK g \in Nat : Waits(taken, g, HashState, saved)
  BY DEF Absorbed
<1>2. PICK a \in Nat, s \in Nat : a = g * WordBytes /\ s = Len(saved) /\ s < WordBytes
  <2>1. g * WordBytes \in Nat
    BY HashAssumption
  <2>2. Len(saved) \in Nat /\ Len(saved) < WordBytes
    BY <1>1 DEF Waits
  <2>. QED
    BY <2>1, <2>2
<1>3. PICK h \in Seq(Nat) : h = Hashed(taken) /\ Len(h) = a + s
  <2>1. HashCalls /\ taken \in 0 .. Len(job.calls)
    BY DEF Absorbed, HashShape
  <2>. QED
    BY <1>1, <1>2, <2>1, HashedBytes DEF Waits
<1>4. Given(HashState) = SubSeq(h, 1, a) /\ saved = SubSeq(h, a + 1, a + s)
  <2>1. 0 + 1 = 1 /\ 0 + a = a
    OBVIOUS
  <2>. QED
    BY <1>1, <1>2, <1>3, <2>1 DEF Waits, IsPart
<1>5. SubSeq(h, 1, a) \o SubSeq(h, a + 1, a + s) = h
  <2>1. PICK n \in 0 .. Len(h) : n = a + s /\ a \in 0 .. n
    BY <1>3
  <2>2. SubSeq(h, 1, a) \o SubSeq(h, a + 1, n) = SubSeq(h, 1, n)
    BY <2>1, LongerBeginning
  <2>3. SubSeq(h, 1, n) = h
    BY <1>3, <2>1
  <2>. QED
    BY <2>1, <2>2, <2>3
<1>6. TakenIn = Hashed(taken)
  BY <1>3, <1>4, <1>5 DEF Given, HashState, TakenIn
<1>7. /\ blocks \in Seq(Seq(Seq(Nat))) /\ block \in Seq(Seq(Nat)) /\ saved \in Seq(Nat)
      /\ Len(block) < Rate /\ \A i \in 1 .. Len(blocks) : Len(blocks[i]) = Rate
  BY <1>1 DEF Waits, Whole, States, HashState
<1>8. \A i \in DOMAIN blocks : Len(blocks[i]) = Rate
  BY <1>7
<1>9. pc = "returned" => FlattenSeq(FlattenSeq(answer)) = Append(TakenIn, "pad")
  BY <1>7, PadIsLast DEF Absorbed, HashShape, TakenIn
<1>10. Len(TakenIn) = Len(Message(taken)) /\ DOMAIN TakenIn = DOMAIN Message(taken)
  <2>1. HashCalls /\ taken \in 0 .. Len(job.calls)
    BY DEF Absorbed, HashShape
  <2>. QED
    BY <1>6, <2>1, HashedType, MessageType
<1>11. ASSUME NEW i \in DOMAIN TakenIn, ~InWholeWord(i) PROVE TakenIn[i] = Message(taken)[i]
  BY <1>6, <1>10, <1>11 DEF Hashed
<1>. QED
  BY <1>2, <1>7, <1>8, <1>9, <1>10, <1>11 DEF WordsInPlace

-----------------------------------------------------------------------------
(* HashBuffer: a message among all jobs.                                   *)

\* A message is hashed by its module, and no other.
LEMMA OthersHashNothing ==
  ASSUME job.op = "hash", pc \in {"start", "returned"}
  PROVE  ~(RunShamir \/ RunSharing \/ RunMatrices \/ RunNumbers \/ RunMessages \/ RunEvaluation)
<1>1. ~RunShamir
  BY DEF RunShamir, ShamirNext, TooFew, Detect, Compare, BuildSystem, Solve, Reduce, Extract, TryFewer,
         StartDivision, DivideStep, Finish
<1>2. ~RunSharing
  BY DEF RunSharing, SharingNext, RefuseToShare, ShareShamir, ShareAdditive, DrawNext, SharingDone, At
<1>3. ~RunMatrices
  BY DEF RunMatrices, MatrixOperation, At
<1>4. ~RunNumbers
  BY DEF RunNumbers, NumbersNext, FieldOperation, RingOperation, StartEuclid, EuclidStep, EuclidEnd,
         StartNewton, NewtonStep, NewtonEnd, At
<1>5. ~RunMessages
  BY DEF RunMessages, MessagesNext, SendNext, RecvSizes, RecvContent, ExchangeDone, At
<1>6. ~RunEvaluation
  BY DEF RunEvaluation, EvaluationNext, SetClearInputs, SetClearInputsFlat, GetClearOutputs,
         GetClearOutputsThrows, SetDummyLambdas, PopulateDummyLambdas, DummyPrep, PrepFromDummyLambdas,
         CallsDone, CallIs, At
<1>. QED
  BY <1>1, <1>2, <1>3, <1>4, <1>5, <1>6

\* Every job that hashes satisfies its invariant.
HashesWell == job.op = "hash" => Absorbed

LEMMA HashesWellInit == Init => HashesWell
BY HashStarts DEF Init, HashesWell

LEMMA HashesWellStep == HashesWell /\ [Next]_vars => HashesWell'
<1> SUFFICES ASSUME HashesWell, [Next]_vars, (job.op = "hash")' PROVE Absorbed'
  BY DEF HashesWell
<1>1. job.op = "hash" /\ Absorbed
  BY JobStays DEF HashesWell
<1>2. ~(RunShamir \/ RunSharing \/ RunMatrices \/ RunNumbers \/ RunMessages \/ RunEvaluation)
  BY <1>1, OthersHashNothing DEF Absorbed, HashShape
<1>3. CASE RunHash
  BY <1>1, <1>3, ShortKeeps, UpdateKeeps, FinalizeKeeps DEF RunHash, HashNext
<1>4. CASE Over \/ UNCHANGED vars
  <2>1. /\ job' = job /\ pc' = pc /\ answer' = answer
        /\ blocks' = blocks /\ block' = block /\ saved' = saved /\ taken' = taken
    BY <1>4 DEF Over, vars, callVars, hashVars
  <2>2. HashShape'
    BY <1>1, <2>1 DEF Absorbed, HashShape, HashCalls
  <2>3. PICK g \in Nat : Waits(taken, g, HashState, saved)
    BY <1>1 DEF Absorbed
  <2>4. PICK n, state, rest : n = taken /\ state = HashState /\ rest = saved
    OBVIOUS
  <2>5. Waits(n, g, state, rest)'
    BY <2>1, <2>3, <2>4, SameJobSameHash
  <2>6. Waits(taken, g, HashState, saved)'
    BY <2>1, <2>4, <2>5 DEF Waits, HashState
  <2>. QED
    BY <2>2, <2>6 DEF Absorbed
<1>. QED
  BY <1>2, <1>3, <1>4 DEF Next

\* However a message is split into calls of Hash::Update, the state is given
\* whole blocks of words as long as the message, what waits in mSaved is less
\* than a word, Finalize puts the padding behind it, and every byte is at its
\* place in the message, except the third and later ones of a word that is whole
\* in one call, of which nothing is said (hash.h:147-151 takes the second for
\* them).  For every message, split, word size and rate.
THEOREM WordsAlwaysInPlace == Spec => []WordsInPlace
<1>1. HashesWell => WordsInPlace
  BY BytesInPlace DEF HashesWell, WordsInPlace
<1>. QED
  BY HashesWellInit, HashesWellStep, <1>1, PTL DEF Spec
=============================================================================
