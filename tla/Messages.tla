------------------------------ MODULE Messages ------------------------------
(***************************************************************************)
(* The typed messages of scl::Channel (scl/net/channel.h), over a stream   *)
(* of bytes that arrives whole and in order.  A vector or a matrix is sent *)
(* as its sizes and its elements; an element and an STL vector of elements *)
(* come without a size.  A job is a list of messages; the receiver asks    *)
(* for the same kinds in the same order.  A byte counts to Base here, and  *)
(* a size and an element take two of them.                                 *)
(***************************************************************************)
EXTENDS Integers, Sequences, SequencesExt, Calls

CONSTANTS Base,         \* the values of a byte
          MaxReadSize,  \* MAX_VEC_READ_SIZE and MAX_MAT_READ_SIZE
          Order         \* elements are read modulo the order of their field

\* A size of the limit fits in the word that announces it.
ASSUME MessagesAssumption ==
  /\ Base \in Nat \ {0}
  /\ MaxReadSize \in Nat /\ MaxReadSize < Base * Base
  /\ Order \in 1 .. Base * Base

\* The elements of a field, and matrices of them.  A matrix without elements is 0
\* by 0 unless FromVector was given a side that is not 0; that one fits in a word.
Values == 0 .. Order - 1
MatrixMessages ==
  { m \in [kind : {"mat"}, rows : Nat, cols : Nat, values : Seq(Values)] :
      /\ Len(m.values) = m.rows * m.cols
      /\ m.values = << >> => m.rows < Base * Base /\ m.cols < Base * Base }
TypedMessages == [kind : {"scalar", "stl", "vec"}, values : Seq(Values)] \cup MatrixMessages

ASSUME ExchangesAssumption ==
  \A j \in Jobs : j.op = "exchange" => j.messages \in Seq(TypedMessages)

VARIABLES
  stream,  \* bytes sent and not yet received
  sent,    \* messages sent
  sizes    \* the sizes that were received for the message whose content is due

messageVars == << stream, sent, sizes >>

MessagesInit == stream = << >> /\ sent = 0 /\ sizes = << >>

\* The sizes a std::uint32_t can hold.
Uint32 == Base * Base

Word(v) == << v % Base, (v \div Base) % Base >>
FromWord(bytes, i) == bytes[2 * i - 1] + Base * bytes[2 * i]
Write(values) == FlattenSeq([i \in DOMAIN values |-> Word(values[i])])
Read(bytes, n) == [i \in 1 .. n |-> FromWord(bytes, i) % Order]

\* What goes before the elements, for each kind of message.
Header(m) ==
  CASE m.kind = "vec" -> << Len(m.values) >>
    [] m.kind = "mat" -> << m.rows, m.cols >>
    [] OTHER -> << >>

SendNext ==
  /\ At("exchange", "start") \/ At("exchange", "content")
  /\ sent < Len(job.messages)
  /\ LET m == job.messages[sent + 1]
     IN  stream' = stream \o Write(Header(m)) \o Write(m.values)
  /\ sent' = sent + 1
  /\ UNCHANGED << callVars, sizes >>

\* The message that is received next; its kind is the receiver's, and so is the
\* length of an STL vector.
Wanted == job.messages[Len(answer) + 1]

\* Recv waits for as many bytes as it wants.
Arrived(words) == Len(stream) >= 2 * words
Received(words) == stream' = SubSeq(stream, 2 * words + 1, Len(stream))

\* Fault: only the rows are looked at.
TooManyRows(n) == n[1] > MaxReadSize

\* A product of two sizes is as wide as they are.
ElementCount(n) == IF Len(n) = 2 THEN (n[1] * n[2]) % Uint32 ELSE n[1]
TooLarge(n) == ElementCount(n) > MaxReadSize

RecvSizes ==
  /\ At("exchange", "start") /\ Len(answer) < Len(job.messages)
  /\ Arrived(Len(Header(Wanted)))
  /\ LET n == IF Wanted.kind \in {"vec", "mat"}
                THEN [i \in DOMAIN Header(Wanted) |-> FromWord(stream, i)]
                ELSE << Len(Wanted.values) >>
     IN  /\ sizes' = n
         /\ Continue(IF Wanted.kind \in {"vec", "mat"} /\ TooLarge(n) THEN "thrown" ELSE "content")
  /\ Received(Len(Header(Wanted)))
  /\ UNCHANGED sent

\* Mat::Read multiplies the sizes again, in a wider type, and then reads beyond
\* the buffer if they give more than was received.
RecvContent ==
  /\ At("exchange", "content") /\ Arrived(ElementCount(sizes))
  /\ IF Wanted.kind = "mat" /\ sizes[1] * sizes[2] # ElementCount(sizes)
       THEN Goto("undefined") /\ UNCHANGED answer
       ELSE /\ Goto("start")
            /\ answer' = Append(answer,
                 LET values == Read(stream, ElementCount(sizes))
                 IN  IF Wanted.kind = "mat"
                       THEN [kind |-> "mat", rows |-> sizes[1], cols |-> sizes[2], values |-> values]
                       ELSE [kind |-> Wanted.kind, values |-> values])
  /\ Received(ElementCount(sizes))
  /\ UNCHANGED << job, sent, sizes >>

ExchangeDone ==
  /\ At("exchange", "start") /\ Len(answer) = Len(job.messages)
  /\ Continue("returned")
  /\ UNCHANGED messageVars

MessagesNext == SendNext \/ RecvSizes \/ RecvContent \/ ExchangeDone

-----------------------------------------------------------------------------
\* Messages whose content may be received, and those whose sizes do not fit in
\* what they are sent or multiplied in.
WithinLimit(m) == m.kind \in {"vec", "mat"} => Len(m.values) <= MaxReadSize
Wraps(m) == m.kind \in {"vec", "mat"} /\ Len(m.values) >= Uint32

\* None before i was beyond the limit: receiver and sender agree on where it begins.
InStep(i) == \A j \in 1 .. i - 1 : WithinLimit(job.messages[j])

\* Messages arrive as they were sent, one after the other, as long as they are
\* within the limit, and nothing is left of them; one beyond the limit is refused
\* before its content is received.  The limit is passed unnoticed only by sizes
\* that wrap around, and then a matrix is read beyond what was received.
MessagesArrive ==
  job.op = "exchange" =>
    /\ \A i \in DOMAIN answer : InStep(i) =>
         IF WithinLimit(job.messages[i]) THEN answer[i] = job.messages[i] ELSE Wraps(job.messages[i])
    /\ InStep(Len(answer) + 1) =>
         /\ pc = "thrown" => ~WithinLimit(Wanted)
         /\ pc = "undefined" => Wanted.kind = "mat" /\ Wraps(Wanted)
         /\ pc = "returned" => stream = << >>
=============================================================================
