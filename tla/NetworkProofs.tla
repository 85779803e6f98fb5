--------------------------- MODULE NetworkProofs ---------------------------
(***************************************************************************)
(* Proofs about the network.                                               *)
(*                                                                         *)
(* MemChannel, for any sizes of Send and Recv and any bounds: no byte is   *)
(* lost or moved, and the channel implements ByteStream.                   *)
(*                                                                         *)
(* ThreadedSender, for any sizes, room, byte that stops the thread and     *)
(* bounds: nothing is lost while the channel is open, and open or not the  *)
(* peer reads a stream.                                                    *)
(*                                                                         *)
(* Discovery and NetworkSetup, for any number of clients, ids, machines,   *)
(* ports and files: what the processes take for the configuration of the   *)
(* network is the same for all and right where the ids they were started   *)
(* with allow it, and a channel of a network leads to the party it is kept *)
(* for.                                                                    *)
(***************************************************************************)
EXTENDS MemChannel, ThreadedSender, NetworkSetup, StreamLemmas


-----------------------------------------------------------------------------
(* A channel in memory.                                                     *)

Byte == 1 .. MaxBytes

Pcs == {"idle", "loop", "asleep", "flush", "flushPop"}

TypeOK ==
  /\ nSent \in 0 .. MaxBytes
  /\ writer \in {"idle", "notify"}
  /\ deck \in Seq(Seq(Byte))
  /\ reader \in [pc : Pcs, rem : Nat, dst : Seq(Byte)]
  /\ overflow \in Seq(Byte) /\ left \in Seq(Byte)

\* A call of Recv that is not done has used up the overflow, and only a call
\* that runs has a destination.
Waiting ==
  /\ reader.pc \in {"loop", "asleep"} => overflow = << >> /\ reader.rem > 0
  /\ reader.pc = "idle" => reader.dst = << >>

\* Nobody else pops: a call of Flush that saw a buffer finds one.
FlushFinds == reader.pc = "flushPop" => deck # << >>

Channel == TypeOK /\ Waiting /\ FlushFinds /\ NothingLost

\* What the receiving thread has taken from the queue and not handed out.
Held == IF Flushing THEN overflow \o reader.dst ELSE reader.dst \o overflow

\* Bytes a to b, and those that follow.
LEMMA BytesFacts ==
  ASSUME NEW m \in Nat, NEW n \in Nat, m + n <= MaxBytes
  PROVE  /\ Bytes(1, m) \in Seq(Byte) /\ Len(Bytes(1, m)) = m
         /\ Bytes(m + 1, m + n) \in Seq(Byte) /\ Len(Bytes(m + 1, m + n)) = n
         /\ Bytes(1, m) \o Bytes(m + 1, m + n) = Bytes(1, m + n)
<1>1. Bytes(1, m) \in Seq(Byte) /\ Len(Bytes(1, m)) = m
  BY BoundsAssumption DEF Bytes, Byte
<1>2. Bytes(m + 1, m + n) \in Seq(Byte) /\ Len(Bytes(m + 1, m + n)) = n
  BY BoundsAssumption DEF Bytes, Byte
<1>3. Bytes(1, m) \o Bytes(m + 1, m + n) = Bytes(1, m + n)
  BY CountingOn DEF Bytes
<1>. QED
  BY <1>1, <1>2, <1>3

\* What a copy of as much as there is of s, and at most n of it, leaves behind.
LEMMA CopyFacts ==
  ASSUME NEW s \in Seq(Byte), NEW n \in Nat, NEW k, k = Least(n, Len(s))
  PROVE  /\ First(s, k) \in Seq(Byte) /\ Past(s, k) \in Seq(Byte)
         /\ First(s, k) \o Past(s, k) = s
         /\ n - k \in Nat
         /\ n - k # 0 => Past(s, k) = << >>
<1>1. k \in 0 .. Len(s) /\ n - k \in Nat /\ (n - k # 0 => k = Len(s))
  BY DEF Least
<1>2. SubSeq(s, 1, k) \in Seq(Byte) /\ SubSeq(s, k + 1, Len(s)) \in Seq(Byte)
      /\ SubSeq(s, 1, k) \o SubSeq(s, k + 1, Len(s)) = s
      /\ Len(SubSeq(s, k + 1, Len(s))) = Len(s) - k
  BY <1>1, SplitAt
<1>3. n - k # 0 => SubSeq(s, k + 1, Len(s)) = << >>
  BY <1>1, SubSeqEmpty
<1>. QED
  BY <1>1, <1>2, <1>3 DEF First, Past

\* Sequences end to end, however they are put together.
LEMMA EndToEnd == \A a, b, c \in Seq(Byte) : a \o (b \o c) = (a \o b) \o c
BY ThreeParts

\* Bytes behind bytes are bytes.
LEMMA Joined == \A a, b \in Seq(Byte) : a \o b \in Seq(Byte)
BY ConcatProperties

\* Nothing behind or before bytes leaves them as they are.
LEMMA NoneBehind == << >> \in Seq(Byte) /\ \A a \in Seq(Byte) : a \o << >> = a /\ << >> \o a = a
OBVIOUS

\* A channel begins with nothing sent and nothing held.
LEMMA InitChannel == MemInit => Channel
<1> SUFFICES ASSUME MemInit PROVE Channel
  OBVIOUS
<1>1. TypeOK
  BY BoundsAssumption DEF MemInit, TypeOK, Idle, Pcs
<1>2. Waiting /\ FlushFinds
  BY DEF MemInit, Waiting, FlushFinds, Idle
<1>3. Bytes(1, 0) = << >>
  BY DEF Bytes
<1>4. NothingLost
  BY <1>3, FlattenEmpty DEF MemInit, NothingLost, Idle, Flushing
<1>. QED
  BY <1>1, <1>2, <1>4 DEF Channel

\* What is held between the ends, and that it is bytes.
LEMMA HeldFacts ==
  ASSUME Channel
  PROVE  /\ Held \in Seq(Byte) /\ left \in Seq(Byte) /\ FlattenSeq(deck) \in Seq(Byte)
         /\ left \o Held \o FlattenSeq(deck) = Bytes(1, nSent)
<1>1. overflow \in Seq(Byte) /\ reader.dst \in Seq(Byte) /\ left \in Seq(Byte)
  BY DEF Channel, TypeOK
<1>2. Held \in Seq(Byte)
  BY <1>1, Joined DEF Held
<1>3. FlattenSeq(deck) \in Seq(Byte)
  BY FlattenType DEF Channel, TypeOK
<1>. QED
  BY <1>1, <1>2, <1>3 DEF Channel, NothingLost, Held

\* A buffer of n bytes is queued behind the others.
LEMMA SendChannel ==
  ASSUME Channel, NEW n \in SendSizes, PushBack(n)
  PROVE  Channel'
<1> DEFINE new == Bytes(nSent + 1, nSent + n)
<1>0. n \in Nat /\ nSent \in Nat /\ nSent + n <= MaxBytes /\ nSent + n \in 0 .. MaxBytes
  BY SizesAssumption, BoundsAssumption DEF Channel, TypeOK, PushBack
<1>1. /\ new \in Seq(Byte) /\ Bytes(1, nSent) \o new = Bytes(1, nSent + n)
      /\ Bytes(1, nSent) \in Seq(Byte)
  BY <1>0, BytesFacts
<1> HIDE DEF new
<1>2. deck' = Append(deck, new)
  BY DEF PushBack, new
<1>3. deck' \in Seq(Seq(Byte)) /\ deck' # << >>
  <2>1. deck \in Seq(Seq(Byte)) /\ new \in Seq(Byte)
    BY <1>1 DEF Channel, TypeOK
  <2>. QED
    BY <1>2, <2>1, AppendProperties
<1>4. TypeOK'
  BY <1>0, <1>3 DEF PushBack, Channel, TypeOK
<1>5. Waiting' /\ FlushFinds'
  BY <1>3 DEF PushBack, Channel, Waiting, FlushFinds
<1>6. NothingLost'
  <2>1. FlattenSeq(deck') = FlattenSeq(deck) \o new
    BY <1>1, <1>2, FlattenAppend DEF Channel, TypeOK
  <2>2. left \o Held \in Seq(Byte) /\ FlattenSeq(deck) \in Seq(Byte)
    BY HeldFacts, Joined
  <2>3. (left \o Held) \o (FlattenSeq(deck) \o new) = ((left \o Held) \o FlattenSeq(deck)) \o new
    BY <1>1, <2>2, EndToEnd, Zenon
  <2>4. Held' = Held /\ left' = left /\ nSent' = nSent + n
    BY DEF PushBack, Held, Flushing
  <2>5. left' \o Held' \o FlattenSeq(deck') = Bytes(1, nSent')
    BY <1>1, <2>1, <2>3, <2>4, HeldFacts
  <2>. QED
    BY <2>5 DEF NothingLost, Held
<1>. QED
  BY <1>4, <1>5, <1>6 DEF Channel

\* Signals, waits and wake-ups move no byte.
LEMMA SignalChannel ==
  ASSUME Channel, Notify \/ Wait \/ WakeUp
  PROVE  Channel'
<1>1. TypeOK'
  BY DEF Channel, TypeOK, Pcs, Notify, Wait, WakeUp
<1>2. /\ left' = left /\ overflow' = overflow /\ deck' = deck /\ nSent' = nSent
      /\ reader'.dst = reader.dst /\ reader'.rem = reader.rem
      /\ reader'.pc # reader.pc => {reader.pc, reader'.pc} = {"loop", "asleep"}
  BY DEF Channel, TypeOK, Pcs, Notify, Wait, WakeUp
<1>3. Waiting' /\ FlushFinds'
  BY <1>2 DEF Channel, Waiting, FlushFinds
<1>4. Flushing' = Flushing
  BY <1>2 DEF Flushing
<1>5. NothingLost'
  BY <1>2, <1>4 DEF Channel, NothingLost
<1>. QED
  BY <1>1, <1>3, <1>5 DEF Channel

\* Recv moves bytes from the front of the overflow to the front of dst, and
\* hands them out if they are enough.
LEMMA RecvChannel ==
  ASSUME Channel, NEW n \in RecvSizes, Recv(n)
  PROVE  Channel' /\ nSent' = nSent /\ \E got \in Seq(Byte) : left' = left \o got
<1> DEFINE k == Least(n, Len(overflow))
           f == First(overflow, k)
           p == Past(overflow, k)
<1>0. overflow \in Seq(Byte) /\ n \in Nat
  BY SizesAssumption DEF Channel, TypeOK
<1>1. /\ f \in Seq(Byte) /\ p \in Seq(Byte) /\ f \o p = overflow
      /\ n - k \in Nat /\ (n - k # 0 => p = << >>)
  BY <1>0, CopyFacts
<1>2. /\ reader.pc = "idle" /\ Progress(n - k, f) /\ overflow' = p
      /\ UNCHANGED << nSent, writer, deck >>
  BY DEF Recv
<1> HIDE DEF k, f, p
<1>3. Held = overflow
  BY <1>0, <1>2, NoneBehind DEF Held, Flushing, Channel, Waiting
<1>4. CASE n - k = 0
  <2>1. reader' = Idle /\ left' = left \o f
    BY <1>2, <1>4 DEF Progress
  <2>2. TypeOK'
    BY <1>1, <1>2, <2>1, Joined, NoneBehind DEF Channel, TypeOK, Idle, Pcs
  <2>3. Held' = p
    BY <1>1, <1>2, <2>1, NoneBehind DEF Held, Flushing, Idle
  <2>4. (left \o f) \o p = left \o overflow
    BY <1>1, EndToEnd, HeldFacts, ZenonT(60)
  <2>. QED
    BY <1>1, <1>2, <1>3, <2>1, <2>2, <2>3, <2>4, HeldFacts
       DEF Channel, Waiting, FlushFinds, NothingLost, Held, Idle
<1>5. CASE n - k # 0
  <2>1. reader' = [pc |-> "loop", rem |-> n - k, dst |-> f] /\ left' = left
    BY <1>2, <1>5 DEF Progress
  <2>2. TypeOK'
    BY <1>1, <1>2, <2>1 DEF Channel, TypeOK, Pcs
  <2>3. Held' = overflow
    BY <1>1, <1>2, <2>1 DEF Held, Flushing
  <2>4. left' = left \o << >>
    BY <2>1, HeldFacts, NoneBehind
  <2>5. Waiting' /\ FlushFinds'
    BY <1>1, <1>2, <1>5, <2>1 DEF Waiting, FlushFinds
  <2>6. NothingLost'
    BY <1>2, <1>3, <2>1, <2>3, HeldFacts DEF NothingLost, Held
  <2>. QED
    BY <1>2, <2>2, <2>4, <2>5, <2>6, NoneBehind DEF Channel
<1>. QED
  BY <1>4, <1>5

\* Pop moves bytes from the first buffer of the queue to the end of dst, and
\* what dst has no room for to the overflow, which was empty.
LEMMA PopChannel ==
  ASSUME Channel, Pop
  PROVE  Channel' /\ nSent' = nSent /\ \E got \in Seq(Byte) : left' = left \o got
<1> DEFINE data == Head(deck)
           k == Least(reader.rem, Len(data))
           f == First(data, k)
           p == Past(data, k)
           dst == reader.dst
           rest == FlattenSeq(Tail(deck))
<1>0. /\ data \in Seq(Byte) /\ Tail(deck) \in Seq(Seq(Byte)) /\ reader.rem \in Nat
      /\ dst \in Seq(Byte) /\ rest \in Seq(Byte) /\ FlattenSeq(deck) = data \o rest
  <2>1. deck \in Seq(Seq(Byte)) /\ deck # << >>
    BY DEF Channel, TypeOK, Pop
  <2>2. data \in Seq(Byte) /\ Tail(deck) \in Seq(Seq(Byte))
    BY <2>1, HeadTailProperties
  <2>. QED
    BY <2>1, <2>2, FlattenHead, FlattenType DEF Channel, TypeOK
<1>1. /\ f \in Seq(Byte) /\ p \in Seq(Byte) /\ f \o p = data
      /\ reader.rem - k \in Nat /\ (reader.rem - k # 0 => p = << >>)
  BY <1>0, CopyFacts
<1>2. /\ reader.pc = "loop" /\ Progress(reader.rem - k, dst \o f)
      /\ overflow' = overflow \o p /\ deck' = Tail(deck) /\ UNCHANGED << nSent, writer >>
  BY DEF Pop, Saved
<1> HIDE DEF data, k, f, p
<1>3. overflow = << >> /\ overflow' = p
  BY <1>1, <1>2, NoneBehind DEF Channel, Waiting
<1>4. Held = dst
  BY <1>0, <1>2, <1>3, NoneBehind DEF Held, Flushing
<1> HIDE DEF dst, rest
<1>5. dst \o f \in Seq(Byte) /\ left \in Seq(Byte)
  BY <1>0, <1>1, Joined, HeldFacts
<1>6. (left \o ((dst \o f) \o p)) \o rest = Bytes(1, nSent')
  <2>1. (left \o dst) \o (data \o rest) = Bytes(1, nSent')
    BY <1>0, <1>2, <1>4, HeldFacts
  <2>2. (left \o dst) \o (data \o rest) = ((left \o dst) \o data) \o rest
    <3>1. left \o dst \in Seq(Byte)
      BY <1>0, <1>5, Joined
    <3>. QED
      BY <1>0, <3>1, EndToEnd, Zenon
  <2>3. (left \o dst) \o data = left \o (dst \o data)
    BY <1>0, <1>5, EndToEnd, ZenonT(60)
  <2>4. dst \o (f \o p) = (dst \o f) \o p
    BY <1>0, <1>1, EndToEnd, ZenonT(60)
  <2>. QED
    BY <1>1, <2>1, <2>2, <2>3, <2>4
<1>7. CASE reader.rem - k = 0
  <2>1. reader' = Idle /\ left' = left \o (dst \o f)
    BY <1>2, <1>7 DEF Progress
  <2>2. TypeOK'
    BY <1>0, <1>1, <1>2, <1>3, <1>5, <2>1, Joined, NoneBehind DEF Channel, TypeOK, Idle, Pcs
  <2>3. Held' = p
    BY <1>1, <1>3, <2>1, NoneBehind DEF Held, Flushing, Idle
  <2>4. (left \o (dst \o f)) \o p = left \o ((dst \o f) \o p)
    BY <1>1, <1>5, EndToEnd, ZenonT(60)
  <2>5. Waiting' /\ FlushFinds'
    BY <2>1 DEF Waiting, FlushFinds, Idle
  <2>6. NothingLost'
    BY <1>2, <1>6, <2>1, <2>3, <2>4 DEF NothingLost, Held, rest
  <2>. QED
    BY <1>2, <1>5, <2>1, <2>2, <2>5, <2>6 DEF Channel
<1>8. CASE reader.rem - k # 0
  <2>1. reader' = [pc |-> "loop", rem |-> reader.rem - k, dst |-> dst \o f] /\ left' = left
    BY <1>2, <1>8 DEF Progress
  <2>2. TypeOK'
    BY <1>0, <1>1, <1>2, <1>3, <1>5, <2>1 DEF Channel, TypeOK, Pcs
  <2>3. Held' = (dst \o f) \o p
    BY <1>3, <2>1 DEF Held, Flushing
  <2>4. left' = left \o << >>
    BY <1>5, <2>1, NoneBehind
  <2>5. Waiting' /\ FlushFinds'
    BY <1>1, <1>3, <1>8, <2>1 DEF Waiting, FlushFinds
  <2>6. NothingLost'
    BY <1>2, <1>6, <2>1, <2>3 DEF NothingLost, Held, rest
  <2>. QED
    BY <1>2, <2>2, <2>4, <2>5, <2>6, NoneBehind DEF Channel
<1>. QED
  BY <1>7, <1>8

\* Flush ends when it sees an empty queue, and drops what it holds then.
LEMMA FlushSizeChannel ==
  ASSUME Channel, FlushSize
  PROVE  Channel' /\ nSent' = nSent /\ \E got \in Seq(Byte) : left' = left \o got
<1>0. /\ overflow \in Seq(Byte) /\ reader.dst \in Seq(Byte) /\ left \in Seq(Byte)
      /\ reader.pc \in {"idle", "flush"} /\ UNCHANGED << nSent, writer, deck >>
  BY DEF Channel, TypeOK, FlushSize
<1>1. Held = overflow \o reader.dst
  <2>1. CASE reader.pc = "idle"
    BY <1>0, <2>1, NoneBehind DEF Held, Flushing, Channel, Waiting
  <2>2. CASE reader.pc = "flush"
    BY <2>2 DEF Held, Flushing
  <2>. QED
    BY <1>0, <2>1, <2>2
<1>2. CASE deck # << >>
  <2>1. reader' = [reader EXCEPT !.pc = "flushPop"] /\ UNCHANGED << overflow, left >>
    BY <1>2 DEF FlushSize
  <2>2. TypeOK' /\ reader'.pc = "flushPop" /\ reader'.dst = reader.dst
    BY <1>0, <2>1 DEF Channel, TypeOK, Pcs
  <2>3. Held' = Held
    <3>1. Held' = overflow' \o reader'.dst
      BY <2>2 DEF Held, Flushing
    <3>. QED
      BY <1>1, <2>1, <2>2, <3>1
  <2>4. Waiting' /\ FlushFinds'
    BY <1>0, <1>2, <2>2 DEF Waiting, FlushFinds
  <2>5. NothingLost'
    BY <1>0, <2>1, <2>3, HeldFacts DEF NothingLost, Held
  <2>6. left' = left \o << >>
    BY <1>0, <2>1, NoneBehind
  <2>. QED
    BY <1>0, <2>2, <2>4, <2>5, <2>6, NoneBehind DEF Channel
<1>3. CASE deck = << >>
  <2>1. reader' = Idle /\ overflow' = << >> /\ left' = left \o overflow \o reader.dst
    BY <1>3 DEF FlushSize
  <2>2. left' = left \o Held
    BY <1>0, <1>1, <2>1, EndToEnd
  <2>3. left' \in Seq(Byte)
    BY <1>0, <2>2, HeldFacts, Joined
  <2>4. TypeOK'
    BY <1>0, <2>1, <2>3, NoneBehind DEF Channel, TypeOK, Idle, Pcs
  <2>5. Held' = << >>
    BY <2>1, NoneBehind DEF Held, Flushing, Idle
  <2>6. Waiting' /\ FlushFinds'
    BY <2>1 DEF Waiting, FlushFinds, Idle
  <2>7. left' \o Held' = left \o Held
    BY <2>2, <2>3, <2>5, NoneBehind
  <2>8. NothingLost'
    BY <1>0, <2>7, HeldFacts DEF NothingLost, Held
  <2>. QED
    BY <1>0, <2>2, <2>4, <2>6, <2>8, HeldFacts DEF Channel
<1>. QED
  BY <1>2, <1>3

\* A buffer that Flush pops comes behind the overflow and the others it popped.
LEMMA FlushPopChannel ==
  ASSUME Channel, FlushPop
  PROVE  Channel'
<1> DEFINE data == Head(deck)
           rest == FlattenSeq(Tail(deck))
<1>1. /\ data \in Seq(Byte) /\ Tail(deck) \in Seq(Seq(Byte))
      /\ rest \in Seq(Byte) /\ FlattenSeq(deck) = data \o rest
  <2>1. deck \in Seq(Seq(Byte)) /\ deck # << >>
    BY DEF Channel, TypeOK, FlushPop
  <2>2. data \in Seq(Byte) /\ Tail(deck) \in Seq(Seq(Byte))
    BY <2>1, HeadTailProperties
  <2>. QED
    BY <2>1, <2>2, FlattenHead, FlattenType
<1>2. /\ overflow \in Seq(Byte) /\ reader.dst \in Seq(Byte) /\ left \in Seq(Byte)
      /\ reader.pc = "flushPop" /\ deck' = Tail(deck) /\ UNCHANGED << nSent, writer, overflow, left >>
      /\ reader' = [reader EXCEPT !.pc = "flush", !.dst = reader.dst \o data]
  BY DEF Channel, TypeOK, FlushPop
<1> HIDE DEF data
<1>3. reader.dst \o data \in Seq(Byte)
  BY <1>1, <1>2, Joined
<1>4. TypeOK' /\ reader'.pc = "flush" /\ reader'.dst = reader.dst \o data
  BY <1>1, <1>2, <1>3 DEF Channel, TypeOK, Pcs
<1>5. Waiting' /\ FlushFinds'
  BY <1>4 DEF Waiting, FlushFinds
<1>6. NothingLost'
  <2>1. Held = overflow \o reader.dst /\ Held' = overflow \o (reader.dst \o data)
    BY <1>2, <1>4 DEF Held, Flushing
  <2>2. Held' = Held \o data
    BY <1>1, <1>2, <2>1, EndToEnd, ZenonT(60)
  <2>3. left \o (Held \o data) = (left \o Held) \o data
    BY <1>1, <1>2, HeldFacts, EndToEnd, ZenonT(60)
  <2>4. ((left \o Held) \o data) \o rest = (left \o Held) \o (data \o rest)
    <3>1. left \o Held \in Seq(Byte)
      BY HeldFacts, Joined
    <3>. QED
      BY <1>1, <3>1, EndToEnd, Zenon
  <2>5. left' \o Held' \o FlattenSeq(deck') = Bytes(1, nSent')
    BY <1>1, <1>2, <2>2, <2>3, <2>4, HeldFacts
  <2>. QED
    BY <2>5 DEF NothingLost, Held
<1>. QED
  BY <1>4, <1>5, <1>6 DEF Channel

-----------------------------------------------------------------------------
(* The theorems.                                                            *)

\* Every step keeps the channel in order.
LEMMA NextChannel == Channel /\ [MemNext]_memVars => Channel'
<1> SUFFICES ASSUME Channel, [MemNext]_memVars PROVE Channel'
  OBVIOUS
<1>1. ASSUME NEW n \in SendSizes, PushBack(n) PROVE Channel'
  BY <1>1, SendChannel
<1>2. ASSUME NEW n \in RecvSizes, Recv(n) PROVE Channel'
  BY <1>2, RecvChannel
<1>3. CASE Notify \/ Wait \/ WakeUp
  BY <1>3, SignalChannel
<1>4. CASE Pop
  BY <1>4, PopChannel
<1>5. CASE FlushSize
  BY <1>5, FlushSizeChannel
<1>6. CASE FlushPop
  BY <1>6, FlushPopChannel
<1>7. CASE UNCHANGED memVars
  <2>1. TypeOK' /\ Waiting' /\ FlushFinds' /\ NothingLost'
    BY <1>7 DEF memVars, Channel, TypeOK, Waiting, FlushFinds, NothingLost, Flushing
  <2>. QED
    BY <2>1 DEF Channel
<1>. QED
  BY <1>1, <1>2, <1>3, <1>4, <1>5, <1>6, <1>7 DEF MemNext

\* The channel is in order at all times.
THEOREM ChannelInOrder == MemSpec => []Channel
<1>. QED
  BY InitChannel, NextChannel, PTL DEF MemSpec

\* However Send, Recv and Flush interleave, a byte that was sent is handed out,
\* held by the receiving end or queued, once and in its place.
THEOREM BytesKept == MemSpec => []NothingLost
<1>1. Channel => NothingLost
  BY DEF Channel
<1>. QED
  BY <1>1, ChannelInOrder, PTL

\* A call of Flush pops only what it saw: it does not wait for a sender.
THEOREM FlushNeverWaits == MemSpec => []FlushFinds
<1>1. Channel => FlushFinds
  BY DEF Channel
<1>. QED
  BY <1>1, ChannelInOrder, PTL

\* A step of the channel that sends n bytes writes them to the stream, unless
\* there are none.
LEMMA SendWrites ==
  ASSUME Channel, NEW n \in SendSizes, PushBack(n)
  PROVE  Stream!Write \/ UNCHANGED Stream!streamVars
<1>1. n \in Nat /\ nSent \in Nat /\ nSent + n <= MaxBytes /\ nSent' = nSent + n /\ left' = left
  BY SizesAssumption DEF Channel, TypeOK, PushBack
<1> DEFINE old == Bytes(1, nSent)
           new == Bytes(nSent + 1, nSent + n)
<1>2. /\ old \in Seq(Byte) /\ new \in Seq(Byte) /\ Len(new) = n
      /\ Bytes(1, nSent + n) = old \o new
  BY <1>1, BytesFacts
<1>3. Bytes(1, nSent)' = old \o new
  BY <1>1, <1>2 DEF Bytes
<1> HIDE DEF new
<1>4. old \o new \in Seq(Byte) /\ IsPrefix(old, old \o new)
  BY <1>2, Joined, PrefixOfConcat
<1>5. CASE n = 0
  BY <1>1, <1>5 DEF Stream!streamVars, Bytes
<1>6. CASE n # 0
  <2>1. Len(old \o new) > Len(old)
    BY <1>1, <1>2, <1>6, ConcatProperties
  <2>2. /\ Len(Bytes(1, nSent)') > Len(Bytes(1, nSent))
        /\ IsPrefix(Bytes(1, nSent), Bytes(1, nSent)')
        /\ Bytes(1, nSent)' \in Seq(1 .. MaxBytes)
    BY <1>3, <1>4, <2>1 DEF Byte
  <2>. QED
    BY <1>1, <2>2 DEF Stream!Write, Stream!IsPrefix, IsPrefix
<1>. QED
  BY <1>5, <1>6

\* A step that hands out bytes reads them from the stream: they are the next.
LEMMA TakeReads ==
  ASSUME Channel, Channel', nSent' = nSent, NEW got \in Seq(Byte), left' = left \o got
  PROVE  Stream!Read \/ UNCHANGED Stream!streamVars
<1>1. left \in Seq(Byte) /\ left' \in Seq(Byte)
  BY DEF Channel, TypeOK
<1>2. Bytes(1, nSent)' = Bytes(1, nSent)
  BY DEF Bytes
<1>3. IsPrefix(left, left')
  BY <1>1, PrefixOfConcat
<1>4. IsPrefix(left', Bytes(1, nSent))
  <2>1. PICK held \in Seq(Byte), queued \in Seq(Byte) : left' \o held \o queued = Bytes(1, nSent)'
    <3>1. overflow' \in Seq(Byte) /\ reader'.dst \in Seq(Byte) /\ FlattenSeq(deck') \in Seq(Byte)
      BY FlattenType DEF Channel, TypeOK
    <3>2. Held' \in Seq(Byte)
      BY <3>1, Joined DEF Held
    <3>. QED
      BY <3>1, <3>2 DEF Channel, NothingLost, Held
  <2>2. held \o queued \in Seq(Byte)
    BY Joined
  <2>3. PICK l \in Seq(Byte) : l = left'
    BY <1>1
  <2>4. l \o (held \o queued) = (l \o held) \o queued
    BY EndToEnd, Zenon
  <2>5. IsPrefix(l, l \o (held \o queued))
    BY <2>2, PrefixOfConcat
  <2>. QED
    BY <1>2, <2>1, <2>3, <2>4, <2>5
<1>5. CASE got = << >>
  BY <1>1, <1>2, <1>5, NoneBehind DEF Stream!streamVars
<1>6. CASE got # << >>
  <2>1. Len(left') > Len(left)
    BY <1>1, <1>6, LongerConcat
  <2>. QED
    BY <1>2, <1>3, <1>4, <2>1 DEF Stream!Read, Stream!IsPrefix, IsPrefix
<1>. QED
  BY <1>5, <1>6

\* The channel implements the stream: what callers get or flush is what was sent,
\* in order and each byte once.
THEOREM ChannelIsStream == MemSpec => StreamOrder
<1>1. MemInit => Stream!Init
  <2>1. Bytes(1, 0) = << >>
    BY DEF Bytes
  <2>. QED
    BY <2>1 DEF MemInit, Stream!Init
<1>2. ASSUME Channel, Channel', [MemNext]_memVars
      PROVE  [Stream!Next]_(Stream!streamVars)
  <2>1. ASSUME NEW n \in SendSizes, PushBack(n) PROVE Stream!Write \/ UNCHANGED Stream!streamVars
    BY <1>2, <2>1, SendWrites
  <2>2. ASSUME NEW n \in RecvSizes, Recv(n) PROVE Stream!Read \/ UNCHANGED Stream!streamVars
    BY <1>2, <2>2, RecvChannel, TakeReads
  <2>3. CASE Pop
    BY <1>2, <2>3, PopChannel, TakeReads DEF Stream!Next
  <2>4. CASE FlushSize
    BY <1>2, <2>4, FlushSizeChannel, TakeReads DEF Stream!Next
  <2>5. CASE Notify \/ Wait \/ WakeUp \/ FlushPop \/ UNCHANGED memVars
    <3>1. nSent' = nSent /\ left' = left
      BY <2>5 DEF Notify, Wait, WakeUp, FlushPop, memVars
    <3>. QED
      BY <3>1 DEF Stream!streamVars, Bytes
  <2>. QED
    BY <1>2, <2>1, <2>2, <2>3, <2>4, <2>5 DEF MemNext, Stream!Next
<1>. QED
  BY <1>1, <1>2, ChannelInOrder, PTL DEF MemSpec, StreamOrder, Stream!Spec

-----------------------------------------------------------------------------
(* A sender thread over TCP.                                                *)

Data == Byte \cup {StopSignal}  \* what the queue holds

Owners == {"open", "closing: dead", "closing: wake", "closing: wait", "closed", "destroying", "gone"}
ThreadPcs == {"peek", "check", "write", "in write", "returned", "threw"}

SenderTypeOK ==
  /\ nSent \in 0 .. MaxBytes
  /\ queue \in Seq(Seq(Data))
  /\ thread \in [pc : ThreadPcs, rem : Seq(Data)]
  /\ owner \in Owners /\ closes \in 0 .. MaxCloses
  /\ mAlive \in BOOLEAN /\ fdOpen \in BOOLEAN
  /\ wire \in Seq(Data) /\ received \in Seq(Data)

\* Only the thread takes items out, when it is done with them.
ItemStays == thread.pc # "peek" => queue # << >>

\* The socket is closed before the channel is dead, and the channel is dead
\* before the thread is woken.
CloseOrder ==
  /\ owner = "closing: dead" \/ ~mAlive => ~fdOpen
  /\ owner = "open" => mAlive
  /\ owner \in {"closing: wake", "closing: wait", "closed"} => ~mAlive

\* What the thread may still write of the item it has.
InHand == IF thread.pc \in {"write", "in write"} THEN thread.rem ELSE << >>

\* As long as the channel is alive no byte is missing, even with its socket
\* closed; after that what was written is what was sent first.
InOrder ==
  /\ mAlive => received \o wire \o Unwritten = Bytes(1, nSent)
  /\ ~mAlive => IsPrefix(received \o wire \o InHand, Bytes(1, nSent))

Sender == SenderTypeOK /\ ItemStays /\ CloseOrder /\ InOrder

-----------------------------------------------------------------------------
(* Sequences of what the queue holds.                                       *)

\* End to end, however they are put together.
LEMMA DataEndToEnd == \A a, b, c \in Seq(Data) : a \o (b \o c) = (a \o b) \o c
BY ThreeParts

\* They make a sequence.
LEMMA DataJoined == \A a, b \in Seq(Data) : a \o b \in Seq(Data)
BY ConcatProperties

\* The empty one adds nothing.
LEMMA NoDataBehind == << >> \in Seq(Data) /\ \A a \in Seq(Data) : a \o << >> = a /\ << >> \o a = a
OBVIOUS

\* What begins with two of them begins with the first.
LEMMA PrefixFirst ==
  ASSUME NEW a \in Seq(Data), NEW b \in Seq(Data), NEW t \in Seq(Data), IsPrefix(a \o b, t)
  PROVE  IsPrefix(a, t)
<1>1. a \o b \in Seq(Data)
  BY DataJoined
<1>2. PICK r \in Seq(Data) : t = (a \o b) \o r
  BY <1>1, PrefixRest, ZenonT(60)
<1>3. a \o (b \o r) = (a \o b) \o r
  BY DataEndToEnd, ZenonT(60)
<1>4. b \o r \in Seq(Data)
  BY DataJoined
<1>. QED
  BY <1>2, <1>3, <1>4, PrefixOfConcat

\* Bytes up to m, and n that follow.
LEMMA DataFacts ==
  ASSUME NEW m \in Nat, NEW n \in Nat, m + n <= MaxBytes
  PROVE  /\ Bytes(1, m) \in Seq(Byte) /\ Bytes(1, m) \in Seq(Data)
         /\ Bytes(m + 1, m + n) \in Seq(Data) /\ Len(Bytes(m + 1, m + n)) = n
         /\ Bytes(1, m) \o Bytes(m + 1, m + n) = Bytes(1, m + n)
<1>1. Bytes(1, m) \in Seq(Byte) /\ Bytes(1, m) \in Seq(Data)
  BY BoundsAssumption DEF Bytes, Byte, Data
<1>2. Bytes(m + 1, m + n) \in Seq(Data) /\ Len(Bytes(m + 1, m + n)) = n
  BY BoundsAssumption DEF Bytes, Byte, Data
<1>3. Bytes(1, m) \o Bytes(m + 1, m + n) = Bytes(1, m + n)
  BY CountingOn DEF Bytes
<1>. QED
  BY <1>1, <1>2, <1>3

-----------------------------------------------------------------------------
(* The invariant.                                                           *)

\* An item that is queued is an item and leaves the queue not empty.
LEMMA QueueGrows ==
  ASSUME SenderTypeOK, NEW e \in Seq(Data)
  PROVE  Append(queue, e) \in Seq(Seq(Data)) /\ Append(queue, e) # << >>
<1>1. queue \in Seq(Seq(Data))
  BY DEF SenderTypeOK
<1>. QED
  BY <1>1, AppendProperties

\* An item that is there is a sequence, and so are the items behind it.
LEMMA QueueParts ==
  ASSUME SenderTypeOK, queue # << >>
  PROVE  /\ Head(queue) \in Seq(Data) /\ Tail(queue) \in Seq(Seq(Data))
         /\ FlattenSeq(Tail(queue)) \in Seq(Data)
         /\ FlattenSeq(queue) = Head(queue) \o FlattenSeq(Tail(queue))
<1>1. queue \in Seq(Seq(Data))
  BY DEF SenderTypeOK
<1>2. Head(queue) \in Seq(Data) /\ Tail(queue) \in Seq(Seq(Data))
  BY <1>1, HeadTailProperties
<1>. QED
  BY <1>1, <1>2, FlattenHead, FlattenType

\* Types, the queue and the order of closing, from any step.
LEMMA NextShape ==
  ASSUME SenderTypeOK, ItemStays, CloseOrder, [SenderNext]_senderVars
  PROVE  SenderTypeOK' /\ ItemStays' /\ CloseOrder'
<1> USE DEF ownerVars
<1>1. ASSUME NEW n \in Sizes, Send(n) PROVE SenderTypeOK' /\ ItemStays' /\ CloseOrder'
  <2>1. n \in Nat /\ nSent \in Nat /\ nSent + n <= MaxBytes /\ nSent + n \in 0 .. MaxBytes
    BY <1>1, QueuedAssumption, BoundsAssumption DEF Send, SenderTypeOK
  <2>2. Bytes(nSent + 1, nSent + n) \in Seq(Data)
    BY <2>1, DataFacts
  <2>3. queue' \in Seq(Seq(Data)) /\ queue' # << >>
    BY <1>1, <2>2, QueueGrows DEF Send
  <2>. QED
    BY <1>1, <2>1, <2>3 DEF Send, SenderTypeOK, ItemStays, CloseOrder
<1>2. CASE WakeThread
  <2>1. << StopSignal >> \in Seq(Data)
    BY DEF Data
  <2>2. queue' \in Seq(Seq(Data)) /\ queue' # << >>
    BY <1>2, <2>1, QueueGrows DEF WakeThread
  <2>. QED
    BY <1>2, <2>2 DEF WakeThread, SenderTypeOK, Owners, ItemStays, CloseOrder
<1>3. CASE CloseSocket
  <2>1. closes' \in 0 .. MaxCloses
    <3>1. closes \in 0 .. MaxCloses /\ closes < MaxCloses /\ closes' = closes + 1
      BY <1>3 DEF SenderTypeOK, CloseSocket
    <3>. QED
      BY <3>1, BoundsAssumption, RoomAssumption
  <2>2. owner' \in {"closing: dead", "closing: wake"} /\ fdOpen' \in BOOLEAN
        /\ (owner' = "closing: wake" => ~mAlive) /\ (owner' = "closing: dead" => ~fdOpen')
        /\ (~fdOpen => ~fdOpen')
    BY <1>3 DEF SenderTypeOK, CloseSocket
  <2>. QED
    BY <1>3, <2>1, <2>2 DEF SenderTypeOK, Owners, ItemStays, CloseOrder, CloseSocket
<1>4. CASE ClearAlive
  BY <1>4 DEF SenderTypeOK, Owners, ItemStays, CloseOrder, ClearAlive
<1>5. CASE JoinThread
  BY <1>5 DEF SenderTypeOK, Owners, ItemStays, CloseOrder, JoinThread
<1>6. CASE Destroy
  BY <1>6 DEF SenderTypeOK, Owners, ItemStays, CloseOrder, Destroy
<1>7. CASE DestroyRest
  BY <1>7 DEF SenderTypeOK, Owners, ItemStays, CloseOrder, DestroyRest
<1>8. CASE Peek
  BY <1>8, QueueParts DEF Peek, SenderTypeOK, ThreadPcs, ItemStays, CloseOrder
<1>9. CASE CheckAlive
  BY <1>9 DEF CheckAlive, SenderTypeOK, ThreadPcs, ItemStays, CloseOrder
<1>10. CASE CallWrite
  BY <1>10 DEF CallWrite, SenderTypeOK, ThreadPcs, ItemStays, CloseOrder
<1>11. CASE FinishWrite
  <2>1. PICK n \in 1 .. Len(thread.rem) :
          /\ wire' = wire \o SubSeq(thread.rem, 1, n)
          /\ thread' = [pc |-> "write", rem |-> Past(thread.rem, n)]
    BY <1>11 DEF FinishWrite
  <2>2. thread.rem \in Seq(Data) /\ n \in 0 .. Len(thread.rem) /\ wire \in Seq(Data)
    BY DEF SenderTypeOK
  <2>3. SubSeq(thread.rem, 1, n) \in Seq(Data) /\ Past(thread.rem, n) \in Seq(Data)
    BY <2>2, SplitAt DEF Past
  <2>4. wire' \in Seq(Data)
    BY <2>1, <2>2, <2>3, DataJoined
  <2>. QED
    BY <1>11, <2>1, <2>3, <2>4 DEF FinishWrite, SenderTypeOK, ThreadPcs, ItemStays, CloseOrder
<1>12. CASE PopFront
  <2>1. Tail(queue) \in Seq(Seq(Data))
    BY <1>12, QueueParts DEF PopFront, ItemStays
  <2>. QED
    BY <1>12, <2>1 DEF PopFront, SenderTypeOK, ThreadPcs, ItemStays, CloseOrder
<1>13. CASE PeerReads
  <2>1. PICK n \in 1 .. Len(wire) :
          received' = received \o SubSeq(wire, 1, n) /\ wire' = Past(wire, n)
    BY <1>13 DEF PeerReads
  <2>2. wire \in Seq(Data) /\ n \in 0 .. Len(wire) /\ received \in Seq(Data)
    BY DEF SenderTypeOK
  <2>3. SubSeq(wire, 1, n) \in Seq(Data) /\ wire' \in Seq(Data)
    BY <2>1, <2>2, SplitAt DEF Past
  <2>4. received' \in Seq(Data)
    BY <2>1, <2>2, <2>3, DataJoined
  <2>. QED
    BY <1>13, <2>3, <2>4 DEF PeerReads, SenderTypeOK, ItemStays, CloseOrder
<1>14. CASE UNCHANGED senderVars
  BY <1>14 DEF senderVars, SenderTypeOK, ItemStays, CloseOrder
<1>. QED
  BY <1>1, <1>2, <1>3, <1>4, <1>5, <1>6, <1>7, <1>8, <1>9, <1>10, <1>11, <1>12, <1>13, <1>14 DEF SenderNext, Closing, SenderThread

\* What is read, on the wire, in hand and unwritten are sequences.
LEMMA PartsTypes ==
  ASSUME SenderTypeOK, ItemStays
  PROVE  /\ received \o wire \in Seq(Data) /\ InHand \in Seq(Data) /\ Unwritten \in Seq(Data)
         /\ received \o wire \o InHand \in Seq(Data) /\ Bytes(1, nSent) \in Seq(Data)
<1>1. received \o wire \in Seq(Data)
  BY DataJoined DEF SenderTypeOK
<1>2. InHand \in Seq(Data)
  BY NoDataBehind DEF SenderTypeOK, InHand
<1>3. Unwritten \in Seq(Data)
  <2>1. CASE thread.pc = "peek"
    BY <2>1, FlattenType DEF SenderTypeOK, Unwritten
  <2>2. CASE thread.pc # "peek"
    <3>1. thread.rem \in Seq(Data) /\ FlattenSeq(Tail(queue)) \in Seq(Data)
      BY <2>2, QueueParts DEF SenderTypeOK, ItemStays
    <3>. QED
      BY <2>2, <3>1, DataJoined DEF Unwritten
  <2>. QED
    BY <2>1, <2>2
<1>4. received \o wire \o InHand \in Seq(Data)
  BY <1>1, <1>2, DataJoined
<1>5. Bytes(1, nSent) \in Seq(Data)
  <2>1. nSent \in Nat /\ 0 \in Nat /\ nSent + 0 <= MaxBytes
    BY BoundsAssumption DEF SenderTypeOK
  <2>. QED
    BY <2>1, DataFacts
<1>. QED
  BY <1>1, <1>2, <1>3, <1>4, <1>5

\* Alive or not, what is written and in hand is what was sent first.
LEMMA WrittenFirst ==
  ASSUME SenderTypeOK, ItemStays, InOrder
  PROVE  /\ IsPrefix(received \o wire \o InHand, Bytes(1, nSent))
         /\ IsPrefix(received \o wire, Bytes(1, nSent))
<1> DEFINE w == received \o wire
<1>0. w \in Seq(Data) /\ InHand \in Seq(Data) /\ Bytes(1, nSent) \in Seq(Data)
  BY PartsTypes
<1> HIDE DEF w
<1>1. IsPrefix(w \o InHand, Bytes(1, nSent))
  <2>1. CASE mAlive
    <3>1. PICK r \in Seq(Data) : Unwritten = InHand \o r
      <4>1. CASE thread.pc \in {"write", "in write"}
        BY <4>1, QueueParts DEF InHand, Unwritten, ItemStays
      <4>2. CASE thread.pc \notin {"write", "in write"}
        BY <4>2, PartsTypes, NoDataBehind DEF InHand
      <4>. QED
        BY <4>1, <4>2
    <3>2. w \o (InHand \o r) = Bytes(1, nSent)
      BY <2>1, <3>1 DEF InOrder, w
    <3>3. w \o (InHand \o r) = (w \o InHand) \o r
      BY <1>0, DataEndToEnd, ZenonT(60)
    <3>4. w \o InHand \in Seq(Data)
      BY <1>0, DataJoined
    <3>. QED
      BY <3>2, <3>3, <3>4, PrefixOfConcat
  <2>2. CASE ~mAlive
    BY <2>2 DEF InOrder, w
  <2>. QED
    BY <2>1, <2>2 DEF SenderTypeOK
<1>2. IsPrefix(w, Bytes(1, nSent))
  BY <1>0, <1>1, PrefixFirst
<1>. QED
  BY <1>1, <1>2 DEF w

\* A step that sends and moves no byte keeps the order, if the thread has in
\* hand what it had, or nothing.
LEMMA SameBytes ==
  ASSUME SenderTypeOK, ItemStays, InOrder, SenderTypeOK',
         UNCHANGED << nSent, wire, received >>,
         mAlive' => mAlive /\ Unwritten' = Unwritten,
         ~mAlive' => InHand' \in {InHand, << >>}
  PROVE  InOrder'
<1>1. Bytes(1, nSent)' = Bytes(1, nSent) /\ (received \o wire)' = received \o wire
  BY DEF Bytes
<1>2. CASE mAlive'
  BY <1>1, <1>2 DEF InOrder
<1>3. CASE ~mAlive'
  <2>1. received \o wire \o << >> = received \o wire
    BY PartsTypes, NoDataBehind
  <2>2. IsPrefix(received \o wire \o InHand', Bytes(1, nSent))
    BY <1>3, <2>1, WrittenFirst
  <2>. QED
    BY <1>1, <1>3, <2>2 DEF InOrder
<1>. QED
  BY <1>2, <1>3 DEF SenderTypeOK

\* What is sent is yet to be written, behind what was sent before.
LEMMA SendInOrder ==
  ASSUME SenderTypeOK, ItemStays, CloseOrder, InOrder, NEW n \in Sizes, Send(n)
  PROVE  InOrder'
<1> DEFINE new == Bytes(nSent + 1, nSent + n)
           w == received \o wire
<1>0. n \in Nat /\ nSent \in Nat /\ nSent + n <= MaxBytes
  BY QueuedAssumption DEF Send, SenderTypeOK
<1>1. new \in Seq(Data) /\ Bytes(1, nSent) \o new = Bytes(1, nSent + n)
  BY <1>0, DataFacts
<1>2. queue' = Append(queue, new) /\ mAlive /\ UNCHANGED << thread, mAlive, wire, received >> /\ nSent' = nSent + n
  BY DEF Send, CloseOrder
<1> HIDE DEF new
<1>3. queue \in Seq(Seq(Data))
  BY DEF SenderTypeOK
<1>4. Unwritten' = Unwritten \o new
  <2>1. CASE thread.pc = "peek"
    BY <1>1, <1>2, <1>3, <2>1, FlattenAppend DEF Unwritten
  <2>2. CASE thread.pc # "peek"
    <3>1. queue # << >> /\ Tail(queue) \in Seq(Seq(Data)) /\ FlattenSeq(Tail(queue)) \in Seq(Data)
      BY <2>2, QueueParts DEF ItemStays
    <3>2. Tail(queue') = Append(Tail(queue), new)
      BY <1>1, <1>2, <1>3, <3>1, SMTT(30)
    <3>3. FlattenSeq(Tail(queue')) = FlattenSeq(Tail(queue)) \o new
      BY <1>1, <3>1, <3>2, FlattenAppend
    <3>4. thread.rem \in Seq(Data)
      BY DEF SenderTypeOK
    <3>5. thread.rem \o (FlattenSeq(Tail(queue)) \o new) = (thread.rem \o FlattenSeq(Tail(queue))) \o new
      BY <1>1, <3>1, <3>4, DataEndToEnd, Zenon
    <3>. QED
      BY <1>2, <2>2, <3>3, <3>5 DEF Unwritten
  <2>. QED
    BY <2>1, <2>2
<1>5. w \in Seq(Data) /\ Unwritten \in Seq(Data)
  BY PartsTypes
<1> HIDE DEF w
<1>6. w \o (Unwritten \o new) = (w \o Unwritten) \o new
  BY <1>1, <1>5, DataEndToEnd, Zenon
<1>7. w \o Unwritten = Bytes(1, nSent) /\ w' = w
  BY <1>2 DEF InOrder, w
<1>8. w' \o Unwritten' = Bytes(1, nSent')
  BY <1>1, <1>2, <1>4, <1>6, <1>7
<1>. QED
  BY <1>2, <1>8 DEF InOrder, w

\* What a call of ::write takes from the thread comes last on the wire.
LEMMA WriteInOrder ==
  ASSUME SenderTypeOK, ItemStays, InOrder, FinishWrite
  PROVE  InOrder'
<1> DEFINE w == received \o wire
           R == FlattenSeq(Tail(queue))
<1>1. PICK n \in 1 .. Len(thread.rem) :
        /\ wire' = wire \o SubSeq(thread.rem, 1, n)
        /\ thread' = [pc |-> "write", rem |-> Past(thread.rem, n)]
  BY DEF FinishWrite
<1> DEFINE f == SubSeq(thread.rem, 1, n)
           p == Past(thread.rem, n)
<1>2. f \in Seq(Data) /\ p \in Seq(Data) /\ f \o p = thread.rem
  <2>1. thread.rem \in Seq(Data) /\ n \in 0 .. Len(thread.rem)
    BY DEF SenderTypeOK
  <2>. QED
    BY <2>1, SplitAt DEF Past
<1>3. /\ thread.pc = "in write" /\ thread'.pc = "write" /\ thread'.rem = p /\ wire' = wire \o f
      /\ UNCHANGED << nSent, mAlive, queue, received >>
  BY <1>1 DEF FinishWrite, ownerVars
<1> HIDE DEF f, p
<1>4. w \in Seq(Data) /\ received \in Seq(Data) /\ wire \in Seq(Data) /\ R \in Seq(Data)
  BY <1>3, PartsTypes, QueueParts DEF SenderTypeOK, ItemStays
<1> HIDE DEF R
<1>5. w' = w \o f
  <2>1. received \o (wire \o f) = (received \o wire) \o f
    BY <1>2, <1>4, DataEndToEnd, SMTT(30)
  <2>. QED
    BY <1>3, <2>1
<1> HIDE DEF w
<1>6. (w \o f) \o p = w \o thread.rem /\ w \o f \in Seq(Data)
  <2>1. w \o (f \o p) = (w \o f) \o p
    <3>1. w \in Seq(Data) /\ f \in Seq(Data) /\ p \in Seq(Data)
      BY <1>2, <1>4
    <3>. QED
      BY <3>1, DataEndToEnd, Zenon
  <2>. QED
    BY <1>2, <1>4, <2>1, DataJoined
<1>7. InHand = thread.rem /\ InHand' = p
  BY <1>3 DEF InHand
<1>8. Unwritten = thread.rem \o R /\ Unwritten' = p \o R
  BY <1>3 DEF Unwritten, R
<1>9. CASE mAlive
  <2>1. w \o (thread.rem \o R) = Bytes(1, nSent)
    BY <1>8, <1>9 DEF InOrder, w
  <2>2. w \o (thread.rem \o R) = (w \o thread.rem) \o R
    <3>1. thread.rem \in Seq(Data)
      BY DEF SenderTypeOK
    <3>. QED
      BY <1>4, <3>1, DataEndToEnd, ZenonT(60)
  <2>3. ((w \o f) \o p) \o R = (w \o f) \o (p \o R)
    BY <1>2, <1>4, <1>6, DataEndToEnd, ZenonT(60)
  <2>4. w' \o Unwritten' = Bytes(1, nSent')
    BY <1>2, <1>3, <1>5, <1>6, <1>8, <2>1, <2>2, <2>3
  <2>. QED
    BY <1>3, <1>9, <2>4 DEF InOrder, w
<1>10. CASE ~mAlive
  <2>1. IsPrefix(w' \o InHand', Bytes(1, nSent'))
    BY <1>3, <1>5, <1>6, <1>7, <1>10 DEF InOrder, w
  <2>. QED
    BY <1>3, <1>10, <2>1 DEF InOrder, w
<1>. QED
  BY <1>9, <1>10 DEF SenderTypeOK

\* What the peer reads comes first on the wire.
LEMMA ReadInOrder ==
  ASSUME SenderTypeOK, InOrder, PeerReads
  PROVE  InOrder' /\ \E got \in Seq(Data) : received' = received \o got
<1>1. PICK n \in 1 .. Len(wire) : received' = received \o SubSeq(wire, 1, n) /\ wire' = Past(wire, n)
  BY DEF PeerReads
<1> DEFINE f == SubSeq(wire, 1, n)
           p == Past(wire, n)
<1>2. f \in Seq(Data) /\ p \in Seq(Data) /\ f \o p = wire /\ received \in Seq(Data)
  <2>1. wire \in Seq(Data) /\ n \in 0 .. Len(wire)
    BY DEF SenderTypeOK
  <2>. QED
    BY <2>1, SplitAt DEF Past, SenderTypeOK
<1>3. received' = received \o f /\ wire' = p /\ UNCHANGED << nSent, mAlive, queue, thread >>
  BY <1>1 DEF PeerReads, ownerVars
<1> HIDE DEF f, p
<1>4. received' \o wire' = received \o wire
  BY <1>2, <1>3, DataEndToEnd
<1>5. Unwritten' = Unwritten /\ InHand' = InHand /\ Bytes(1, nSent)' = Bytes(1, nSent)
  BY <1>3 DEF Unwritten, InHand, Bytes
<1>. QED
  BY <1>2, <1>3, <1>4, <1>5 DEF InOrder

\* Every other step moves no byte.
LEMMA NextInOrder ==
  ASSUME Sender, [SenderNext]_senderVars
  PROVE  Sender'
<1>0. SenderTypeOK /\ ItemStays /\ CloseOrder /\ InOrder /\ SenderTypeOK' /\ ItemStays' /\ CloseOrder'
  BY NextShape DEF Sender
<1> SUFFICES InOrder'
  BY <1>0 DEF Sender
<1> USE DEF ownerVars
<1>1. ASSUME NEW n \in Sizes, Send(n) PROVE InOrder'
  BY <1>0, <1>1, SendInOrder
<1>2. CASE CloseSocket
  <2>1. UNCHANGED << nSent, wire, received, mAlive, queue, thread >>
    BY <1>2 DEF CloseSocket
  <2>. QED
    BY <1>0, <2>1, SameBytes DEF Unwritten, InHand
<1>3. CASE ClearAlive
  <2>1. UNCHANGED << nSent, wire, received, thread >> /\ ~mAlive'
    BY <1>3 DEF ClearAlive
  <2>. QED
    BY <1>0, <2>1, SameBytes DEF InHand
<1>4. CASE WakeThread
  <2>1. UNCHANGED << nSent, wire, received, thread >> /\ ~mAlive'
    BY <1>0, <1>4 DEF WakeThread, CloseOrder
  <2>. QED
    BY <1>0, <2>1, SameBytes DEF InHand
<1>5. CASE JoinThread
  <2>1. UNCHANGED << nSent, wire, received, mAlive, queue, thread >>
    BY <1>5 DEF JoinThread
  <2>. QED
    BY <1>0, <2>1, SameBytes DEF Unwritten, InHand
<1>6. CASE Destroy
  <2>1. UNCHANGED << nSent, wire, received, mAlive, queue, thread >>
    BY <1>6 DEF Destroy
  <2>. QED
    BY <1>0, <2>1, SameBytes DEF Unwritten, InHand
<1>7. CASE DestroyRest
  <2>1. UNCHANGED << nSent, wire, received, thread >> /\ ~mAlive'
    BY <1>7 DEF DestroyRest
  <2>. QED
    BY <1>0, <2>1, SameBytes DEF InHand
<1>8. CASE Peek
  <2>1. /\ UNCHANGED << nSent, wire, received, mAlive, queue >> /\ queue # << >>
        /\ thread.pc = "peek" /\ thread' = [pc |-> "check", rem |-> Head(queue)]
    BY <1>8 DEF Peek
  <2>2. Unwritten' = Unwritten /\ InHand' = << >>
    BY <1>0, <2>1, QueueParts DEF Unwritten, InHand
  <2>. QED
    BY <1>0, <2>1, <2>2, SameBytes
<1>9. CASE CheckAlive
  <2>1. /\ UNCHANGED << nSent, wire, received, mAlive, queue >>
        /\ thread.pc = "check" /\ thread'.rem = thread.rem
        /\ thread'.pc = IF mAlive THEN "write" ELSE "returned"
    BY <1>0, <1>9 DEF CheckAlive, SenderTypeOK
  <2>2. Unwritten' = Unwritten /\ (~mAlive' => InHand' = << >>)
    BY <2>1 DEF Unwritten, InHand
  <2>. QED
    BY <1>0, <2>1, <2>2, SameBytes
<1>10. CASE CallWrite
  <2>1. /\ UNCHANGED << nSent, wire, received, mAlive, queue >>
        /\ thread.pc = "write" /\ thread'.rem = thread.rem
        /\ thread'.pc \in {"in write", "threw"}
    BY <1>0, <1>10 DEF CallWrite, SenderTypeOK
  <2>2. Unwritten' = Unwritten /\ InHand' \in {InHand, << >>}
    BY <2>1 DEF Unwritten, InHand
  <2>. QED
    BY <1>0, <2>1, <2>2, SameBytes
<1>11. CASE FinishWrite
  BY <1>0, <1>11, WriteInOrder
<1>12. CASE PopFront
  <2>1. /\ UNCHANGED << nSent, wire, received, mAlive >> /\ queue' = Tail(queue)
        /\ thread.pc = "write" /\ thread.rem = << >> /\ thread'.pc = "peek"
    BY <1>0, <1>12 DEF PopFront, SenderTypeOK
  <2>2. Unwritten = << >> \o FlattenSeq(Tail(queue)) /\ Unwritten' = FlattenSeq(Tail(queue))
    BY <2>1 DEF Unwritten
  <2>3. Unwritten' = Unwritten /\ InHand' = << >>
    BY <1>0, <2>1, <2>2, QueueParts, NoDataBehind DEF ItemStays, InHand
  <2>. QED
    BY <1>0, <2>1, <2>3, SameBytes
<1>13. CASE PeerReads
  BY <1>0, <1>13, ReadInOrder
<1>14. CASE UNCHANGED senderVars
  BY <1>0, <1>14 DEF senderVars, InOrder, Unwritten, InHand
<1>. QED
  BY <1>1, <1>2, <1>3, <1>4, <1>5, <1>6, <1>7, <1>8, <1>9, <1>10, <1>11, <1>12, <1>13, <1>14
     DEF SenderNext, Closing, SenderThread

\* Nothing has been sent, read or queued.
LEMMA InitSender == SenderInit => Sender
<1> SUFFICES ASSUME SenderInit PROVE Sender
  OBVIOUS
<1>1. SenderTypeOK
  BY BoundsAssumption, RoomAssumption DEF SenderInit, SenderTypeOK, Owners, ThreadPcs
<1>2. ItemStays /\ CloseOrder
  BY DEF SenderInit, ItemStays, CloseOrder
<1>3. Bytes(1, 0) = << >>
  BY DEF Bytes
<1>4. InOrder
  BY <1>3, FlattenEmpty DEF SenderInit, InOrder, Unwritten
<1>. QED
  BY <1>1, <1>2, <1>4 DEF Sender

-----------------------------------------------------------------------------
(* The theorems.                                                            *)

\* The queue, the thread and the wire are in order at all times.
THEOREM SenderInOrder == SenderSpec => []Sender
<1>. QED
  BY InitSender, NextInOrder, PTL DEF SenderSpec

\* While the channel is open every byte sent is read, on the wire or yet to be
\* written, in the order it was sent.
THEOREM OpenLosesNothing == SenderSpec => []NothingLostWhileOpen
<1>1. Sender => NothingLostWhileOpen
  BY DEF Sender, CloseOrder, InOrder, NothingLostWhileOpen
<1>. QED
  BY <1>1, SenderInOrder, PTL

\* Open, closing, closed or destroyed, the peer reads a stream: what was sent,
\* from the beginning, without a gap and without the byte that stops the thread.
THEOREM SenderIsStream == SenderSpec => PeerReadsStream
<1>1. SenderInit => Peer!Init
  <2>1. Bytes(1, 0) = << >>
    BY DEF Bytes
  <2>. QED
    BY <2>1 DEF SenderInit, Peer!Init
<1>2. ASSUME Sender, Sender', [SenderNext]_senderVars
      PROVE  [Peer!Next]_(Peer!streamVars)
  <2>1. ASSUME NEW n \in Sizes, Send(n) PROVE [Peer!Next]_(Peer!streamVars)
    <3>1. /\ n \in Nat /\ nSent \in Nat /\ nSent + n <= MaxBytes
          /\ nSent' = nSent + n /\ received' = received
      BY <1>2, <2>1, QueuedAssumption DEF Sender, SenderTypeOK, Send
    <3>2. CASE n = 0
      BY <3>1, <3>2 DEF Peer!streamVars, Bytes
    <3>3. CASE n # 0
      <4> DEFINE new == Bytes(nSent + 1, nSent + n)
      <4>1. /\ Bytes(1, nSent) \in Seq(Data) /\ new \in Seq(Data) /\ Len(new) = n
            /\ Bytes(1, nSent)' = Bytes(1, nSent) \o new
        BY <3>1, DataFacts
      <4>2. Bytes(1, nSent)' \in Seq(1 .. MaxBytes)
        <5>1. nSent' \in Nat /\ 0 \in Nat /\ nSent' + 0 <= MaxBytes
          BY <3>1
        <5>. QED
          BY <5>1, DataFacts DEF Byte
      <4> HIDE DEF new
      <4>3. IsPrefix(Bytes(1, nSent), Bytes(1, nSent)')
        BY <4>1, PrefixOfConcat
      <4>4. Len(Bytes(1, nSent)') > Len(Bytes(1, nSent))
        BY <3>1, <3>3, <4>1, ConcatProperties
      <4>. QED
        BY <3>1, <4>2, <4>3, <4>4 DEF Peer!Next, Peer!Write, Peer!IsPrefix, IsPrefix
    <3>. QED
      BY <3>2, <3>3
  <2>2. CASE PeerReads
    <3>1. PICK got \in Seq(Data) : received' = received \o got
      BY <1>2, <2>2, ReadInOrder DEF Sender
    <3>2. received \in Seq(Data) /\ received' \in Seq(Data) /\ wire' \in Seq(Data) /\ nSent' = nSent
      BY <1>2, <2>2 DEF Sender, SenderTypeOK, PeerReads, ownerVars
    <3>3. IsPrefix(received, received')
      BY <3>1, <3>2, PrefixOfConcat
    <3>4. IsPrefix(received', Bytes(1, nSent))
      <4>1. IsPrefix(received \o wire, Bytes(1, nSent))'
        BY <1>2, WrittenFirst, PTL DEF Sender
      <4>2. Bytes(1, nSent)' = Bytes(1, nSent) /\ Bytes(1, nSent) \in Seq(Data)
        BY <1>2, <3>2, PartsTypes DEF Sender, Bytes
      <4>. QED
        BY <3>2, <4>1, <4>2, PrefixFirst
    <3>5. CASE got = << >>
      BY <3>1, <3>2, <3>5, NoDataBehind DEF Peer!streamVars, Bytes
    <3>6. CASE got # << >>
      <4>1. Len(received') > Len(received)
        BY <3>1, <3>2, <3>6, LongerConcat
      <4>2. Bytes(1, nSent)' = Bytes(1, nSent)
        BY <3>2 DEF Bytes
      <4>. QED
        BY <3>3, <3>4, <4>1, <4>2 DEF Peer!Next, Peer!Read, Peer!IsPrefix, IsPrefix
    <3>. QED
      BY <3>5, <3>6
  <2>3. CASE \/ CloseSocket \/ Closing \/ Destroy \/ DestroyRest \/ Peek \/ CheckAlive
             \/ CallWrite \/ FinishWrite \/ PopFront \/ UNCHANGED senderVars
    <3>1. nSent' = nSent /\ received' = received
      BY <2>3 DEF CloseSocket, Closing, ClearAlive, WakeThread, JoinThread, Destroy, DestroyRest,
                  Peek, CheckAlive, CallWrite, FinishWrite, PopFront, senderVars, ownerVars
    <3>. QED
      BY <3>1 DEF Peer!streamVars, Bytes
  <2>. QED
    BY <1>2, <2>1, <2>2, <2>3 DEF SenderNext, SenderThread, Peer!Next
<1>. QED
  BY <1>1, <1>2, SenderInOrder, PTL DEF SenderSpec, PeerReadsStream, Peer!Spec

-----------------------------------------------------------------------------
(* The discovery.                                                           *)

DiscoveryActions == DiscoveryStep \/ UNCHANGED vars

\* The number of parties and the slots of the server's loops.
LEMMA Parties ==
  /\ NParties \in Nat /\ NParties >= 2 /\ Me \in Slots
  /\ IsFiniteSet(Clients) /\ Cardinality(Clients) = NParties - 1
  /\ IsFiniteSet(All) /\ Cardinality(All) = NParties
  /\ Server \notin Clients /\ None \notin All
  /\ FirstSlot \in Slots \ {Me} /\ \A i \in Slots \ {Me} : FirstSlot <= i
<1>1. Cardinality(Clients) \in Nat /\ Cardinality(Clients) # 0
  BY MeAssumption, FS_CardinalityType, FS_EmptySet
<1>2. NParties \in Nat /\ NParties >= 2 /\ Cardinality(Clients) = NParties - 1
  BY <1>1 DEF NParties
<1>3. IsFiniteSet(All) /\ Cardinality(All) = NParties
  BY MeAssumption, FS_AddElement DEF All, NParties
<1>4. FirstSlot \in Slots \ {Me} /\ \A i \in Slots \ {Me} : FirstSlot <= i
  BY <1>2, MeAssumption DEF Slots, FirstSlot
<1>. QED
  BY <1>2, <1>3, <1>4, MeAssumption, NoneAssumption DEF All, Slots

\* A loop goes on with the slot behind the one it was at, or is through.
LEMMA SlotsInTurn ==
  ASSUME slot \in Slots \ {Me}, NEW next, Goes(next)
  PROVE  /\ slot' \in Slots \ {Me}
         /\ \/ server' = server /\ \A i \in Slots \ {Me} : i < slot' <=> i < slot \/ i = slot
            \/ /\ server' = next /\ slot' = FirstSlot
               /\ \A i \in Slots \ {Me} : (i < slot \/ i = slot) /\ ~(i < FirstSlot)
<1>1. CASE Following(slot) < NParties
  BY <1>1, Parties DEF Goes, Following, Slots
<1>2. CASE ~(Following(slot) < NParties)
  BY <1>2, Parties DEF Goes, Following, Slots
<1>. QED
  BY <1>1, <1>2

DiscoveryTypes ==
  /\ idOf \in [All -> 0 .. NParties] /\ idOf[Server] = Me
  /\ file \in Files \cup {None}
  /\ clients \in [Clients -> {"start", "connected", "waiting", "done", "threw", "killed", "undefined"}]
  /\ backlog \in Seq(Clients)
  /\ server \in {"accept", "collect", "send", "done", "threw"}
  /\ slot \in Slots \ {Me}
  /\ channels \in [Slots -> Clients \cup {None}]
  /\ DOMAIN parties = 1 .. NParties /\ parties = [i \in 1 .. NParties |-> parties[i]]
  /\ DOMAIN config = All /\ config = [c \in All |-> config[c]]

\* Every client connects once and is given one slot; slots are filled in turn.
Accepted ==
  /\ \A k \in 1 .. Len(backlog) : clients[backlog[k]] # "start"
  /\ \A k, l \in 1 .. Len(backlog) : backlog[k] = backlog[l] => k = l
  /\ \A i \in Slots : channels[i] # None =>
       /\ clients[channels[i]] # "start"
       /\ \A k \in 1 .. Len(backlog) : backlog[k] # channels[i]
       /\ \A j \in Slots : channels[j] = channels[i] => i = j
  /\ channels[Me] = None
  /\ file = None => \A i \in Slots \ {Me} :
       channels[i] # None <=> server # "accept" \/ i < slot

\* The party of this id is in the list, with the port of a process of that id.
IsNoted(i) == \E e \in All : idOf[e] = i /\ parties[i + 1] = Party(i, mHostnames(i), PortOf[e])

\* What the list holds was noted; who was heard of is in it.
ListRight ==
  /\ IsNoted(Me)
  /\ \A i \in Slots : parties[i + 1] = NoParty \/ IsNoted(i)
  /\ server = "accept" => \A i \in Slots \ {Me} : parties[i + 1] = NoParty
  /\ file = None => \A i \in Slots \ {Me} :
       (server = "collect" /\ i < slot) \/ server \in {"send", "done"} =>
         idOf[channels[i]] < NParties /\ IsNoted(idOf[channels[i]])
  /\ file = None /\ server \in {"send", "done"} => Valid(Me, parties)

\* Configurations are given out once the list is made, or are the lines of the file.
ConfigsRight ==
  /\ sentTo # {} => server \in {"send", "done"}
  /\ file # None =>
       /\ server \in {"accept", "done", "threw"} /\ sentTo = {} /\ backlog = << >>
       /\ \A c \in Clients : clients[c] \notin {"connected", "waiting"}
       /\ \A c \in All : config[c] # None => config[c] = Lines /\ Valid(idOf[c], Lines)
       /\ server = "done" => Valid(Me, Lines)
  /\ file = None =>
       /\ \A c \in Clients : config[c] # None =>
            server \in {"send", "done"} /\ config[c] = ByTheirIds(parties)
       /\ config[Server] # None => server = "done" /\ config[Server] = parties
  /\ \A c \in Clients : config[c] # None => clients[c] = "done"

Discovered == DiscoveryTypes /\ Accepted /\ ListRight /\ ConfigsRight

\* What the discovery starts with.
LEMMA InitDiscovered == DiscoveryInit => Discovered
<1> SUFFICES ASSUME DiscoveryInit PROVE Discovered
  OBVIOUS
<1>1. PICK ids \in StartIds : idOf = [c \in All |-> IF c = Server THEN Me ELSE ids[c]]
  BY DEF DiscoveryInit
<1>2. idOf \in [All -> 0 .. NParties] /\ idOf[Server] = Me
  BY <1>1, Parties, StartIdsAssumption DEF All, Slots
<1>3. DiscoveryTypes
  BY <1>2, Parties DEF DiscoveryInit, DiscoveryTypes
<1>4. Accepted
  <2>1. \A i \in Slots \ {Me} : ~(i < FirstSlot)
    BY Parties DEF Slots
  <2>2. backlog = << >> /\ (\A i \in Slots : channels[i] = None) /\ slot = FirstSlot /\ server = "accept"
    BY DEF DiscoveryInit
  <2>3. \A k \in 1 .. Len(backlog) : FALSE
    BY <2>2
  <2>. QED
    BY <2>1, <2>2, <2>3, Parties DEF Accepted
<1>5. ListRight
  <2>1. \A i \in Slots : i + 1 \in 1 .. NParties /\ (i + 1 = Me + 1 <=> i = Me)
    BY Parties DEF Slots
  <2>2. \A i \in Slots : parties[i + 1] = IF i = Me THEN MeParty ELSE NoParty
    BY <2>1 DEF DiscoveryInit
  <2>3. IsNoted(Me)
    <3>1. Server \in All /\ mHostnames(Me) = HostOf[Server]
      BY DEF All, mHostnames
    <3>. QED
      BY <1>2, <2>2, <3>1, Parties DEF IsNoted, MeParty
  <2>. QED
    BY <2>2, <2>3, Parties DEF DiscoveryInit, ListRight
<1>6. ConfigsRight
  BY Parties DEF DiscoveryInit, ConfigsRight, All
<1>. QED
  BY <1>3, <1>4, <1>5, <1>6 DEF Discovered

\* The variables keep their types.
LEMMA NextTypes == DiscoveryTypes /\ Accepted /\ ConfigsRight /\ DiscoveryActions => DiscoveryTypes'
<1> SUFFICES ASSUME DiscoveryTypes, Accepted, ConfigsRight, DiscoveryActions PROVE DiscoveryTypes'
  OBVIOUS
<1> USE DEF DiscoveryTypes
<1>1. ASSUME NEW c \in Clients, ConnectAsClient(c) PROVE DiscoveryTypes'
  BY <1>1 DEF ConnectAsClient
<1>2. ASSUME NEW c \in Clients, SendIdAndPort(c) PROVE DiscoveryTypes'
  BY <1>2 DEF SendIdAndPort
<1>3. ASSUME NEW c \in Clients, ReceiveNetworkConfig(c) PROVE DiscoveryTypes'
  BY <1>3 DEF ReceiveNetworkConfig
<1>4. ASSUME NEW c \in Clients, ReceiveAtEnd(c) PROVE DiscoveryTypes'
  BY <1>4 DEF ReceiveAtEnd
<1>5. CASE Accept
  <2>1. slot' \in Slots \ {Me} /\ server' \in {"accept", "collect"}
    BY <1>5, SlotsInTurn DEF Accept
  <2>2. Head(backlog) \in Clients /\ Tail(backlog) \in Seq(Clients)
    BY <1>5 DEF Accept
  <2>. QED
    BY <1>5, <2>1, <2>2 DEF Accept
<1>6. CASE Collect
  <2>1. slot' \in Slots \ {Me} /\ server' \in {"collect", "send", "threw"}
    BY <1>6, SlotsInTurn DEF Collect
  <2>2. DOMAIN parties' = 1 .. NParties /\ parties' = [i \in 1 .. NParties |-> parties'[i]]
    BY <1>6 DEF Collect
  <2>. QED
    BY <1>6, <2>1, <2>2 DEF Collect
<1>7. CASE SendNetworkConfig
  <2>1. slot' \in Slots \ {Me} /\ server' \in {"send", "done"}
    BY <1>7, SlotsInTurn DEF SendNetworkConfig
  <2>. QED
    BY <1>7, <2>1 DEF SendNetworkConfig
<1>8. CASE Return
  BY <1>8 DEF Return
<1>9. ASSUME NEW c \in All, Load(c) PROVE DiscoveryTypes'
  BY <1>9 DEF Load, All
<1>10. CASE UNCHANGED vars
  BY <1>10 DEF vars
<1>. QED
  BY <1>1, <1>2, <1>3, <1>4, <1>5, <1>6, <1>7, <1>8, <1>9, <1>10
     DEF DiscoveryActions, DiscoveryStep, ServerStep, ClientStep

\* A client that connects is queued once and is given one slot.
LEMMA NextAccepted ==
  DiscoveryTypes /\ Accepted /\ ConfigsRight /\ DiscoveryActions => Accepted'
<1> SUFFICES ASSUME DiscoveryTypes, Accepted, ConfigsRight, DiscoveryActions PROVE Accepted'
  OBVIOUS
<1>0. backlog \in Seq(Clients) /\ channels \in [Slots -> Clients \cup {None}] /\ slot \in Slots \ {Me}
  BY DEF DiscoveryTypes
<1>1. ASSUME NEW c \in Clients, ConnectAsClient(c) PROVE Accepted'
  <2>1. /\ \A d \in Clients : clients[d] # "start" => d # c /\ clients'[d] # "start"
        /\ clients'[c] # "start"
    BY <1>1 DEF ConnectAsClient, DiscoveryTypes
  <2>2. PICK n \in Nat : n = Len(backlog)
    BY <1>0
  <2>3. PICK m \in Nat : m = n + 1
    OBVIOUS
  <2>4. /\ Len(backlog') = m /\ backlog'[m] = c /\ \A k \in 1 .. n : backlog'[k] = backlog[k]
        /\ \A k \in 1 .. m : k \in 1 .. n \/ k = m
    BY <1>0, <1>1, <2>2, <2>3 DEF ConnectAsClient
  <2>5. \A k \in 1 .. n : backlog[k] \in Clients /\ clients[backlog[k]] # "start"
    BY <1>0, <2>2 DEF Accepted
  <2>6. \A i \in Slots : channels[i] # None => channels[i] \in Clients /\ clients[channels[i]] # "start"
    BY <1>0 DEF Accepted
  <2>7. channels' = channels /\ file' = file /\ server' = server /\ slot' = slot
    BY <1>1 DEF ConnectAsClient
  <2>8. \A k \in 1 .. m : clients'[backlog'[k]] # "start"
    BY <2>1, <2>4, <2>5
  <2>9. \A k, l \in 1 .. n : backlog[k] = backlog[l] => k = l
    BY <2>2 DEF Accepted
  <2>10. \A k, l \in 1 .. m : backlog'[k] = backlog'[l] => k = l
    BY <2>1, <2>4, <2>5, <2>9
  <2>11. ASSUME NEW i \in Slots, channels[i] # None, NEW k \in 1 .. m PROVE backlog'[k] # channels[i]
    <3>1. channels[i] # c
      BY <2>1, <2>6, <2>11
    <3>2. \A l \in 1 .. n : backlog[l] # channels[i]
      BY <2>2, <2>11 DEF Accepted
    <3>. QED
      BY <2>4, <3>1, <3>2
  <2>. QED
    BY <2>1, <2>4, <2>6, <2>7, <2>8, <2>10, <2>11 DEF Accepted
<1>2. ASSUME UNCHANGED << file, backlog, channels >>,
             \A c \in Clients : clients[c] # "start" => clients'[c] # "start",
             server # "accept" => server' # "accept",
             server' = "accept" => slot' = slot,
             server = "accept" /\ server' # "accept" => file # None
      PROVE  Accepted'
  <2>1. \A k \in 1 .. Len(backlog) : backlog[k] \in Clients
    BY <1>0
  <2>2. \A i \in Slots : channels[i] # None => channels[i] \in Clients
    BY <1>0
  <2>. QED
    BY <1>2, <2>1, <2>2 DEF Accepted
<1>3. ASSUME NEW c \in Clients, SendIdAndPort(c) PROVE Accepted'
  BY <1>2, <1>3 DEF SendIdAndPort, DiscoveryTypes
<1>4. ASSUME NEW c \in Clients, ReceiveNetworkConfig(c) PROVE Accepted'
  BY <1>2, <1>4 DEF ReceiveNetworkConfig, DiscoveryTypes
<1>5. ASSUME NEW c \in Clients, ReceiveAtEnd(c) PROVE Accepted'
  BY <1>2, <1>5 DEF ReceiveAtEnd, DiscoveryTypes
<1>6. CASE Accept
  <2>1. PICK n \in Nat : n = Len(backlog)
    BY <1>0
  <2>2. PICK m \in Nat : n = m + 1
    BY <1>0, <1>6, <2>1 DEF Accept
  <2>3. /\ Len(backlog') = m /\ \A k \in 1 .. m : backlog'[k] = backlog[k + 1] /\ k + 1 \in 1 .. n
        /\ 1 \in 1 .. n /\ \A k \in 1 .. m : k + 1 # 1
    <3>1. backlog' = Tail(backlog) /\ backlog # << >>
      BY <1>6 DEF Accept
    <3>2. Len(backlog') = m /\ \A k \in 1 .. m : backlog'[k] = backlog[k + 1]
      <4>1. PICK rest : rest = Tail(backlog)
        OBVIOUS
      <4>2. Len(rest) = Len(backlog) - 1 /\ \A k \in 1 .. Len(rest) : rest[k] = backlog[k + 1]
        BY <1>0, <3>1, <4>1, HeadTailProperties
      <4>3. Len(rest) = m
        <5>1. Len(rest) = Len(backlog) - 1
          BY <4>2
        <5>2. Len(rest) = n - 1
          BY <2>1, <5>1
        <5>. QED
          BY <2>2, <5>2
      <4>. QED
        BY <3>1, <4>1, <4>2, <4>3
    <3>3. 1 \in 1 .. n /\ \A k \in 1 .. m : k + 1 # 1 /\ k + 1 \in 1 .. n
      BY <2>2
    <3>. QED
      BY <3>2, <3>3
  <2>4. channels' = [channels EXCEPT ![slot] = backlog[1]] /\ clients' = clients /\ file' = file
    BY <1>0, <1>6 DEF Accept
  <2>5. channels'[slot] = backlog[1] /\ \A i \in Slots : i # slot => channels'[i] = channels[i]
    BY <1>0, <2>4
  <2>6. /\ \A k \in 1 .. n : clients[backlog[k]] # "start" /\ backlog[k] \in Clients
        /\ \A k, l \in 1 .. n : backlog[k] = backlog[l] => k = l
        /\ \A i \in Slots : channels[i] # None =>
             /\ clients[channels[i]] # "start"
             /\ \A k \in 1 .. n : backlog[k] # channels[i]
             /\ \A j \in Slots : channels[j] = channels[i] => i = j
    BY <1>0, <2>1 DEF Accepted
  <2>7. \A k, l \in 1 .. m : backlog'[k] = backlog'[l] => k = l
    BY <2>3, <2>6
  <2>8. \A k \in 1 .. m : clients[backlog'[k]] # "start" /\ backlog'[k] # backlog[1]
    BY <2>3, <2>6
  <2>9. ASSUME NEW i \in Slots, channels'[i] # None
        PROVE  /\ clients[channels'[i]] # "start"
               /\ \A k \in 1 .. m : backlog'[k] # channels'[i]
               /\ \A j \in Slots : channels'[j] = channels'[i] => i = j
    <3>1. CASE i = slot
      <4>1. channels'[i] = backlog[1] /\ backlog[1] \in Clients /\ backlog[1] # None
        BY <2>3, <2>5, <2>6, <3>1, Parties DEF All
      <4>2. \A j \in Slots : j # i => channels'[j] # backlog[1]
        BY <2>3, <2>5, <2>6, <3>1, <4>1
      <4>. QED
        BY <2>3, <2>6, <2>8, <4>1, <4>2
    <3>2. CASE i # slot
      BY <2>3, <2>5, <2>6, <2>9, <3>2
    <3>. QED
      BY <3>1, <3>2
  <2>10. channels'[Me] = None
    BY <1>0, <2>5, Parties DEF Accepted
  <2>11. ASSUME file = None, NEW i \in Slots \ {Me}
         PROVE  channels'[i] # None <=> server' # "accept" \/ i < slot'
    <3>1. channels[i] # None <=> i < slot
      BY <1>6, <2>11 DEF Accept, Accepted
    <3>2. channels'[i] # None <=> i < slot \/ i = slot
      BY <2>3, <2>5, <2>6, <3>1, Parties DEF All
    <3>3. \/ server' = "accept" /\ (i < slot' <=> i < slot \/ i = slot)
          \/ server' = "collect" /\ (i < slot \/ i = slot)
      BY <1>0, <1>6, SlotsInTurn DEF Accept
    <3>. QED
      BY <3>2, <3>3
  <2>. QED
    BY <2>3, <2>4, <2>7, <2>8, <2>9, <2>10, <2>11 DEF Accepted
<1>7. CASE Collect
  BY <1>0, <1>2, <1>7, SlotsInTurn DEF Collect
<1>8. CASE SendNetworkConfig
  BY <1>0, <1>2, <1>8, SlotsInTurn DEF SendNetworkConfig
<1>9. CASE Return
  BY <1>2, <1>9 DEF Return
<1>10. ASSUME NEW c \in All, Load(c) PROVE Accepted'
  BY <1>2, <1>10 DEF Load, DiscoveryTypes
<1>11. CASE UNCHANGED vars
  BY <1>2, <1>11 DEF vars
<1>. QED
  BY <1>1, <1>3, <1>4, <1>5, <1>6, <1>7, <1>8, <1>9, <1>10, <1>11
     DEF DiscoveryActions, DiscoveryStep, ServerStep, ClientStep

\* The list changes only while the server collects.
LEMMA ListKept ==
  ASSUME ListRight, DiscoveryTypes, UNCHANGED << file, idOf, channels, parties >>,
         server' = "accept" => server = "accept",
         server' \in {"collect", "send", "done"} =>
           \/ server' = server /\ slot' = slot
           \/ file # None
           \/ server \in {"send", "done"} /\ server' \in {"send", "done"}
  PROVE  ListRight'
<1>1. \A i : mHostnames(i)' = mHostnames(i)
  BY DEF mHostnames
<1>2. \A i : IsNoted(i)' <=> IsNoted(i)
  BY <1>1 DEF IsNoted
<1>3. file = None /\ server' \in {"send", "done"} => Valid(Me, parties)
  BY DEF ListRight
<1>4. ASSUME file = None, NEW i \in Slots \ {Me},
             (server' = "collect" /\ i < slot') \/ server' \in {"send", "done"}
      PROVE  idOf[channels[i]] < NParties /\ IsNoted(idOf[channels[i]])
  <2>1. (server = "collect" /\ i < slot) \/ server \in {"send", "done"}
    BY <1>4
  <2>. QED
    BY <1>4, <2>1 DEF ListRight
<1>5. IsNoted(Me) /\ \A i \in Slots : parties[i + 1] = NoParty \/ IsNoted(i)
  BY DEF ListRight
<1>6. server' = "accept" => \A i \in Slots \ {Me} : parties[i + 1] = NoParty
  BY DEF ListRight
<1>. QED
  BY <1>2, <1>3, <1>4, <1>5, <1>6 DEF ListRight

\* A client that is heard of is noted at the place of its id.
LEMMA CollectNotes ==
  ASSUME DiscoveryTypes, Accepted, ListRight, ConfigsRight, Collect
  PROVE  ListRight'
<1> PICK c, id : c = channels[slot] /\ id = idOf[c]
  OBVIOUS
<1> DEFINE noted == [parties EXCEPT ![id + 1] = Noted(slot, id)]
<1>0. file = None /\ file' = file /\ channels' = channels /\ idOf' = idOf /\ server = "collect"
  BY DEF Collect, ConfigsRight
<1>1. slot \in Slots \ {Me} /\ c \in Clients /\ c \in All /\ id \in 0 .. NParties
  BY <1>0, Parties DEF DiscoveryTypes, Accepted, All
<1>2. \A i : mHostnames(i)' = mHostnames(i)
  BY <1>0 DEF mHostnames
<1>3. CASE id >= NParties
  <2>1. server' = "threw" /\ parties' = parties
    BY <1>3 DEF Collect
  <2>. QED
    BY <1>0, <2>1, ListKept
<1>4. CASE ~(id >= NParties)
  <2>1. id \in Slots /\ id < NParties /\ \A i \in Slots : i + 1 \in 1 .. NParties /\ (i + 1 = id + 1 <=> i = id)
    BY <1>1, <1>4, Parties DEF Slots
  <2>2. /\ parties' = noted
        /\ \/ server' = "threw"
           \/ Goes("send") /\ (Following(slot) >= NParties => Valid(Me, noted))
    BY <1>4 DEF Collect, PlaceOfId
  <2>3. /\ parties'[id + 1] = Party(id, mHostnames(id), PortOf[c])
        /\ \A i \in Slots : i # id => parties'[i + 1] = parties[i + 1]
    BY <2>1, <2>2 DEF DiscoveryTypes, Noted
  <2>4. IsNoted(id)'
    BY <1>0, <1>1, <1>2, <2>3 DEF IsNoted
  <2>5. ASSUME NEW i \in Slots, IsNoted(i) PROVE IsNoted(i)'
    <3>1. CASE i = id
      BY <2>4, <3>1
    <3>2. CASE i # id
      BY <1>0, <1>2, <2>3, <2>5, <3>2 DEF IsNoted
    <3>. QED
      BY <3>1, <3>2
  <2>6. IsNoted(Me)'
    BY <2>5, Parties DEF ListRight
  <2>7. \A i \in Slots : parties'[i + 1] = NoParty \/ IsNoted(i)'
    BY <2>3, <2>4, <2>5 DEF ListRight
  <2>8. server' # "accept"
    BY <1>0, <1>1, <2>2, SlotsInTurn
  <2>9. ASSUME NEW i \in Slots \ {Me}, i < slot \/ i = slot
        PROVE  idOf[channels[i]] < NParties /\ IsNoted(idOf[channels[i]])'
    <3>0. PICK j : j = idOf[channels[i]]
      OBVIOUS
    <3>1. CASE i = slot
      <4>1. j = id /\ j < NParties
        BY <1>0, <2>1, <3>0, <3>1
      <4>2. IsNoted(j)'
        BY <2>4, <4>1
      <4>. QED
        BY <1>0, <3>0, <4>1, <4>2 DEF IsNoted
    <3>2. CASE i < slot
      <4>1. idOf[channels[i]] < NParties /\ IsNoted(idOf[channels[i]])
        BY <1>0, <3>2 DEF ListRight
      <4>2. channels[i] # None
        BY <1>0 DEF Accepted
      <4>3. channels[i] \in All
        BY <4>2 DEF DiscoveryTypes, All
      <4>4. idOf[channels[i]] \in Slots
        BY <4>1, <4>3, Parties DEF DiscoveryTypes, Slots
      <4>5. IsNoted(j)'
        BY <2>5, <3>0, <4>1, <4>4
      <4>. QED
        BY <1>0, <3>0, <4>1, <4>5 DEF IsNoted
    <3>. QED
      BY <2>9, <3>1, <3>2
  <2>10. ASSUME NEW i \in Slots \ {Me},
                (server' = "collect" /\ i < slot') \/ server' \in {"send", "done"}
         PROVE  i < slot \/ i = slot
    <3>1. Goes("send")
      BY <2>2, <2>10
    <3>. QED
      BY <1>0, <1>1, <2>10, <3>1, SlotsInTurn
  <2>11. ASSUME server' \in {"send", "done"} PROVE Valid(Me, parties')
    <3>1. Goes("send") /\ (Following(slot) >= NParties => Valid(Me, noted))
      BY <2>2, <2>11
    <3>2. ~(Following(slot) < NParties)
      BY <1>0, <2>11, <3>1 DEF Goes
    <3>3. Following(slot) \in Int
      BY <1>1 DEF Following, Slots
    <3>. QED
      BY <2>2, <3>1, <3>2, <3>3, Parties
  <2>. QED
    BY <1>0, <2>6, <2>7, <2>8, <2>9, <2>10, <2>11 DEF ListRight
<1>. QED
  BY <1>3, <1>4

\* The list keeps to what the server has heard.
LEMMA NextList ==
  DiscoveryTypes /\ Accepted /\ ListRight /\ ConfigsRight /\ DiscoveryActions => ListRight'
<1> SUFFICES ASSUME DiscoveryTypes, Accepted, ListRight, ConfigsRight, DiscoveryActions PROVE ListRight'
  OBVIOUS
<1>1. ASSUME NEW c \in Clients, ConnectAsClient(c) PROVE ListRight'
  BY <1>1, ListKept DEF ConnectAsClient
<1>2. ASSUME NEW c \in Clients, SendIdAndPort(c) PROVE ListRight'
  BY <1>2, ListKept DEF SendIdAndPort
<1>3. ASSUME NEW c \in Clients, ReceiveNetworkConfig(c) PROVE ListRight'
  BY <1>3, ListKept DEF ReceiveNetworkConfig
<1>4. ASSUME NEW c \in Clients, ReceiveAtEnd(c) PROVE ListRight'
  BY <1>4, ListKept DEF ReceiveAtEnd
<1>5. CASE Accept
  <2>1. /\ file' = file /\ idOf' = idOf /\ parties' = parties /\ server = "accept"
        /\ slot \in Slots \ {Me} /\ Goes("collect")
    BY <1>5 DEF Accept, DiscoveryTypes
  <2>2. mHostnames(Me)' = mHostnames(Me)
    BY DEF mHostnames
  <2>3. IsNoted(Me)'
    BY <2>1, <2>2 DEF ListRight, IsNoted
  <2>4. \A i \in Slots \ {Me} : parties'[i + 1] = NoParty
    BY <2>1 DEF ListRight
  <2>5. /\ server' \in {"accept", "collect"}
        /\ server' = "collect" => \A i \in Slots \ {Me} : ~(i < slot')
    BY <2>1, SlotsInTurn
  <2>. QED
    BY <2>3, <2>4, <2>5 DEF ListRight
<1>6. CASE Collect
  BY <1>6, CollectNotes
<1>7. CASE SendNetworkConfig
  <2>1. server = "send" /\ server' \in {"send", "done"}
    BY <1>7, SlotsInTurn DEF SendNetworkConfig, DiscoveryTypes
  <2>. QED
    BY <1>7, <2>1, ListKept DEF SendNetworkConfig
<1>8. CASE Return
  BY <1>8, ListKept DEF Return
<1>9. ASSUME NEW c \in All, Load(c) PROVE ListRight'
  <2>1. file # None /\ UNCHANGED << file, idOf, channels, parties >>
    BY <1>9 DEF Load
  <2>2. server' # "accept" \/ server' = server
    BY <1>9 DEF Load
  <2>. QED
    BY <2>1, <2>2, ListKept
<1>10. CASE UNCHANGED vars
  BY <1>10, ListKept DEF vars
<1>. QED
  BY <1>1, <1>2, <1>3, <1>4, <1>5, <1>6, <1>7, <1>8, <1>9, <1>10
     DEF DiscoveryActions, DiscoveryStep, ServerStep, ClientStep

\* Configurations are given out of a list that is complete and stays as it is.
LEMMA NextConfigs ==
  DiscoveryTypes /\ Accepted /\ ConfigsRight /\ DiscoveryActions => ConfigsRight'
<1> SUFFICES ASSUME DiscoveryTypes, Accepted, ConfigsRight, DiscoveryActions PROVE ConfigsRight'
  OBVIOUS
<1> USE DEF ConfigsRight
<1>0. /\ Server \in All /\ Clients \subseteq All /\ Server \notin Clients
      /\ DOMAIN config = All /\ DOMAIN clients = Clients
  BY Parties DEF DiscoveryTypes, All
<1>1. ASSUME NEW c \in Clients, ConnectAsClient(c) PROVE ConfigsRight'
  BY <1>0, <1>1 DEF ConnectAsClient
<1>2. ASSUME NEW c \in Clients, SendIdAndPort(c) PROVE ConfigsRight'
  BY <1>0, <1>2 DEF SendIdAndPort, Lines
<1>3. ASSUME NEW c \in Clients, ReceiveNetworkConfig(c) PROVE ConfigsRight'
  <2> DEFINE ps == ByTheirIds(parties)
  <2>1. file = None /\ server \in {"send", "done"} /\ UNCHANGED << file, server, sentTo, parties >>
    BY <1>3 DEF ReceiveNetworkConfig
  <2>2. /\ \A d \in Clients : d # c => clients'[d] = clients[d]
        /\ \A d \in All : config'[d] # config[d] => d = c /\ config'[d] = ps /\ clients'[d] = "done"
        /\ clients'[c] # "done" => config'[c] = config[c]
    BY <1>0, <1>3 DEF ReceiveNetworkConfig
  <2>3. config[c] = None
    BY <1>3 DEF ReceiveNetworkConfig
  <2> HIDE DEF ps
  <2>4. ps' = ps
    BY <2>1 DEF ps, ByTheirIds, NoParty
  <2>5. \A d \in Clients : config'[d] # None => config'[d] = ps /\ clients'[d] = "done"
    BY <1>0, <2>1, <2>2, <2>3 DEF ps
  <2>6. config'[Server] = config[Server]
    BY <1>0, <2>2
  <2>. QED
    BY <2>1, <2>4, <2>5, <2>6 DEF ps
<1>4. ASSUME NEW c \in Clients, ReceiveAtEnd(c) PROVE ConfigsRight'
  BY <1>0, <1>4 DEF ReceiveAtEnd, Lines
<1>5. CASE Accept
  <2>1. file = None /\ server' \in {"accept", "collect"} /\ server = "accept"
    BY <1>5, SlotsInTurn DEF Accept, DiscoveryTypes
  <2>. QED
    BY <1>0, <1>5, <2>1 DEF Accept
<1>6. CASE Collect
  <2>1. file = None /\ server' \in {"collect", "send", "threw"} /\ server = "collect"
    BY <1>6, SlotsInTurn DEF Collect, DiscoveryTypes
  <2>. QED
    BY <1>0, <1>6, <2>1 DEF Collect
<1>7. CASE SendNetworkConfig
  <2>1. file = None /\ server' \in {"send", "done"} /\ server = "send" /\ config[Server] = None
    BY <1>7, SlotsInTurn DEF SendNetworkConfig, DiscoveryTypes
  <2>. QED
    BY <1>0, <1>7, <2>1 DEF SendNetworkConfig
<1>8. CASE Return
  <2>1. /\ UNCHANGED << file, server, sentTo, backlog, clients, idOf, parties >>
        /\ file = None /\ server = "done" /\ config[Server] = None
    BY <1>8 DEF Return
  <2>2. /\ config'[Server] = parties /\ \A c \in Clients : config'[c] = config[c]
    BY <1>0, <1>8 DEF Return
  <2>3. Lines' = Lines /\ ByTheirIds(parties)' = ByTheirIds(parties)
    BY <2>1 DEF Lines, ByTheirIds, NoParty
  <2>. QED
    BY <1>0, <2>1, <2>2, <2>3
<1>9. ASSUME NEW c \in All, Load(c) PROVE ConfigsRight'
  <2>1. /\ file # None /\ UNCHANGED << file, sentTo, backlog, idOf >>
        /\ Lines' = Lines
    BY <1>9 DEF Load, Lines
  <2>2. /\ \A d \in All : d # c => config'[d] = config[d]
        /\ config'[c] = IF Valid(idOf[c], Lines) THEN Lines ELSE None
    BY <1>0, <1>9 DEF Load
  <2>3. CASE c = Server
    <3>1. /\ clients' = clients /\ server' = IF Valid(Me, Lines) THEN "done" ELSE "threw"
      BY <1>9, <2>3 DEF Load, DiscoveryTypes
    <3>2. \A d \in Clients : config'[d] = config[d]
      BY <1>0, <2>2, <2>3
    <3>3. /\ \A d \in All : config'[d] # None => config'[d] = Lines /\ Valid(idOf[d], Lines)
          /\ server' = "done" => Valid(Me, Lines)
          /\ server' \in {"accept", "done", "threw"}
      BY <2>1, <2>2, <3>1
    <3>4. \A d \in All : Valid(idOf[d], Lines)' <=> Valid(idOf[d], Lines)
      BY <2>1 DEF Valid, IdsInRange, IdsDistinct
    <3>. QED
      BY <2>1, <3>1, <3>2, <3>3, <3>4
  <2>4. CASE c # Server
    <3>1. /\ server' = server /\ c \in Clients
          /\ clients' = [clients EXCEPT ![c] = IF Valid(idOf[c], Lines) THEN "done" ELSE "threw"]
      BY <1>9, <2>4 DEF Load, All
    <3>2. \A d \in Clients : config'[d] # None => clients'[d] = "done"
      BY <1>0, <2>2, <3>1
    <3>3. \A d \in Clients : clients'[d] \notin {"connected", "waiting"}
      BY <1>0, <2>1, <3>1
    <3>4. \A d \in All : config'[d] # None => config'[d] = Lines /\ Valid(idOf[d], Lines)
      BY <2>1, <2>2
    <3>5. \A d \in All : Valid(idOf[d], Lines)' <=> Valid(idOf[d], Lines)
      BY <2>1 DEF Valid, IdsInRange, IdsDistinct
    <3>. QED
      BY <2>1, <3>1, <3>2, <3>3, <3>4, <3>5
  <2>. QED
    BY <2>3, <2>4
<1>10. CASE UNCHANGED vars
  BY <1>10 DEF vars, Lines
<1>. QED
  BY <1>1, <1>2, <1>3, <1>4, <1>5, <1>6, <1>7, <1>8, <1>9, <1>10
     DEF DiscoveryActions, DiscoveryStep, ServerStep, ClientStep

\* Every step of the discovery keeps its invariant.
LEMMA NextDiscovered == Discovered /\ DiscoveryActions => Discovered'
BY NextTypes, NextAccepted, NextList, NextConfigs DEF Discovered

\* A configuration that a process has stays what it is.
LEMMA ConfigKept ==
  ASSUME Discovered, DiscoveryActions, NEW c \in All, config[c] # None
  PROVE  config'[c] = config[c]
<1>0. DOMAIN config = All /\ Clients \subseteq All /\ Server \in All
  BY DEF Discovered, DiscoveryTypes, All
<1>1. ASSUME NEW d \in Clients, ClientStep(d) PROVE config'[c] = config[c]
  <2>1. CASE ReceiveNetworkConfig(d)
    <3>1. config[d] = None
      BY <2>1 DEF ReceiveNetworkConfig, Discovered, ConfigsRight
    <3>. QED
      BY <1>0, <2>1, <3>1 DEF ReceiveNetworkConfig
  <2>2. CASE ~ReceiveNetworkConfig(d)
    BY <1>1, <2>2 DEF ClientStep, ConnectAsClient, SendIdAndPort, ReceiveAtEnd
  <2>. QED
    BY <2>1, <2>2
<1>2. CASE ServerStep
  BY <1>0, <1>2 DEF ServerStep, Accept, Collect, SendNetworkConfig, Return
<1>3. ASSUME NEW d \in All, Load(d) PROVE config'[c] = config[c]
  BY <1>0, <1>3 DEF Load
<1>4. CASE UNCHANGED vars
  BY <1>4 DEF vars
<1>. QED
  BY <1>1, <1>2, <1>3, <1>4 DEF DiscoveryActions, DiscoveryStep

\* Nobody's id changes.
LEMMA IdsKept == DiscoveryActions => idOf' = idOf
BY DEF DiscoveryActions, DiscoveryStep, ServerStep, ClientStep, vars, Accept, Collect, SendNetworkConfig,
       Return, Load, ConnectAsClient, SendIdAndPort, ReceiveNetworkConfig, ReceiveAtEnd

Complete == file = None /\ server \in {"send", "done"}

\* There are as many slots beside the server's as clients.
LEMMA SlotsOfClients ==
  /\ IsFiniteSet(Slots) /\ Cardinality(Slots) = NParties
  /\ IsFiniteSet(Slots \ {Me}) /\ Cardinality(Slots \ {Me}) = Cardinality(Clients)
<1>1. IsFiniteSet(Slots) /\ Cardinality(Slots) = NParties
  <2>1. 0 \in Int /\ NParties - 1 \in Int /\ ~(0 > NParties - 1) /\ (NParties - 1) - 0 + 1 = NParties
    BY Parties
  <2>. QED
    BY <2>1, FS_Interval DEF Slots
<1>2. IsFiniteSet(Slots \ {Me}) /\ Cardinality(Slots \ {Me}) = NParties - 1
  BY <1>1, Parties, FS_RemoveElement
<1>. QED
  BY <1>1, <1>2, Parties

\* Once the list is complete, every client has a slot of its own: as many slots
\* are filled as there are clients, none of them with the same client twice.
LEMMA EveryClientAccepted ==
  ASSUME Discovered, Complete
  PROVE  \A c \in Clients : \E i \in Slots \ {Me} : channels[i] = c
<1> DEFINE f == [i \in Slots \ {Me} |-> channels[i]]
<1>1. \A i \in Slots \ {Me} : channels[i] # None /\ channels[i] \in Clients
  BY DEF Discovered, Complete, Accepted, DiscoveryTypes
<1>2. \A i, j \in Slots \ {Me} : channels[i] = channels[j] => i = j
  BY <1>1 DEF Discovered, Accepted
<1>3. f \in Injection(Slots \ {Me}, Clients)
  BY <1>1, <1>2 DEF Injection, IsInjective
<1> HIDE DEF f
<1>4. f \in Surjection(Slots \ {Me}, Clients)
  BY <1>3, SlotsOfClients, Parties, FS_Injection
<1>. QED
  BY <1>4 DEF Surjection, f

\* Then everybody has been heard of and noted.
LEMMA EveryoneNoted ==
  ASSUME Discovered, Complete, NEW d \in All
  PROVE  idOf[d] \in Slots /\ IsNoted(idOf[d])
<1>1. CASE d = Server
  <2>1. idOf[d] = Me
    BY <1>1 DEF Discovered, DiscoveryTypes
  <2>. QED
    BY <2>1, Parties DEF Discovered, ListRight
<1>2. CASE d # Server
  <2>1. PICK i \in Slots \ {Me} : channels[i] = d
    BY <1>2, EveryClientAccepted DEF All
  <2>2. idOf[d] < NParties /\ IsNoted(idOf[d])
    BY <2>1 DEF Discovered, ListRight, Complete
  <2>3. idOf[d] \in 0 .. NParties
    BY DEF Discovered, DiscoveryTypes
  <2>. QED
    BY <2>2, <2>3, Parties DEF Slots
<1>. QED
  BY <1>1, <1>2

\* The constructor has seen to it that each place holds the party of its id: a
\* place nobody has filled in passes for that of id 0.
LEMMA ListHasIds ==
  ASSUME Discovered, Complete
  PROVE  /\ \A i \in Slots : parties[i + 1].id = i
         /\ \A i \in Slots : i # 0 => IsNoted(i)
<1>1. \A i \in Slots : parties[i + 1] = NoParty \/ IsNoted(i)
  BY DEF Discovered, ListRight
<1>2. \A i \in Slots : IsNoted(i) => parties[i + 1].id = i
  BY DEF IsNoted, Party
<1>3. IdsDistinct(parties)
  BY DEF Discovered, ListRight, Complete, Valid
<1>4. \A i \in Slots : i + 1 \in DOMAIN parties /\ (i # 0 => i + 1 # 0 + 1) /\ 0 \in Slots
  BY Parties DEF Discovered, DiscoveryTypes, Slots
<1>5. NoParty.id = 0
  BY DEF NoParty, Party
<1>6. parties[0 + 1].id = 0
  BY <1>1, <1>2, <1>4, <1>5, Parties
<1>7. ASSUME NEW i \in Slots, i # 0 PROVE IsNoted(i)
  <2>1. parties[i + 1].id # parties[0 + 1].id
    BY <1>3, <1>4, <1>7 DEF IdsDistinct
  <2>. QED
    BY <1>1, <1>5, <1>6, <2>1
<1>. QED
  BY <1>1, <1>2, <1>6, <1>7

\* A client that sorts the list by ids changes nothing.
LEMMA SortedAlready ==
  ASSUME Discovered, Complete
  PROVE  ByTheirIds(parties) = parties
<1>1. DOMAIN parties = 1 .. NParties /\ parties = [i \in 1 .. NParties |-> parties[i]]
  BY DEF Discovered, DiscoveryTypes
<1>2. \A i \in 1 .. NParties : parties[i].id = i - 1
  <2>1. ASSUME NEW i \in 1 .. NParties PROVE parties[i].id = i - 1
    <3>1. PICK j \in Slots : j = i - 1
      BY Parties DEF Slots
    <3>2. j + 1 = i
      BY <3>1
    <3>. QED
      BY <3>1, <3>2, ListHasIds
  <2>. QED
    BY <2>1
<1>3. \A i, j \in 1 .. NParties : parties[j].id = i - 1 <=> j = i
  BY <1>2, Parties
<1>4. ASSUME NEW i \in DOMAIN parties
      PROVE  (IF \E j \in DOMAIN parties : parties[j].id = i - 1
                THEN parties[CHOOSE j \in DOMAIN parties : parties[j].id = i - 1] ELSE NoParty) = parties[i]
  <2>1. \A j \in DOMAIN parties : parties[j].id = i - 1 <=> j = i
    BY <1>1, <1>3
  <2>. QED
    BY <2>1
<1>. QED
  BY <1>1, <1>4 DEF ByTheirIds

\* From the server everyone has the list of the server.
LEMMA FromServer ==
  ASSUME Discovered, file = None, NEW c \in All, config[c] # None
  PROVE  Complete /\ config[c] = parties
<1>1. CASE c = Server
  BY <1>1 DEF Discovered, ConfigsRight, Complete
<1>2. CASE c # Server
  <2>1. Complete /\ config[c] = ByTheirIds(parties)
    BY <1>2 DEF Discovered, ConfigsRight, Complete, All
  <2>. QED
    BY <2>1, SortedAlready
<1>. QED
  BY <1>1, <1>2

\* All processes that have a configuration have the same one.
LEMMA SameConfig ==
  ASSUME Discovered, NEW c \in All, NEW d \in All, config[c] # None, config[d] # None
  PROVE  config[c] = config[d]
<1>1. CASE file = None
  BY <1>1, FromServer
<1>2. CASE file # None
  BY <1>2 DEF Discovered, ConfigsRight
<1>. QED
  BY <1>1, <1>2

\* With right ids every party is in the list with its own port.
LEMMA PortsFromServer ==
  ASSUME Discovered, Complete, IdsAreRight, NEW d \in All
  PROVE  GetParty(parties, idOf[d]) = Party(idOf[d], mHostnames(idOf[d]), PortOf[d])
<1>1. PICK e \in All : idOf[e] = idOf[d] /\ parties[idOf[d] + 1] = Party(idOf[d], mHostnames(idOf[d]), PortOf[e])
  BY EveryoneNoted DEF IsNoted
<1>2. e = d
  BY <1>1 DEF IdsAreRight
<1>. QED
  BY <1>1, <1>2 DEF GetParty

\* If the clients came in the order of their ids also with its own hostname.
LEMMA HostsFromServer ==
  ASSUME Discovered, Complete, IdsAreRight, InOrderOfIds, NEW d \in All
  PROVE  mHostnames(idOf[d]) = HostOf[d]
<1>0. idOf[Server] = Me /\ Server \in All
  BY DEF Discovered, DiscoveryTypes, All
<1>1. CASE d = Server
  BY <1>0, <1>1 DEF mHostnames
<1>2. CASE d # Server
  <2>1. idOf[d] \in Slots \ {Me}
    BY <1>0, <1>2, EveryoneNoted DEF IdsAreRight
  <2>2. channels[idOf[d]] # None /\ channels[idOf[d]] \in All
    BY <2>1 DEF Discovered, Accepted, Complete, DiscoveryTypes, All
  <2>3. idOf[channels[idOf[d]]] = idOf[d]
    BY <2>1, <2>2 DEF InOrderOfIds, Complete
  <2>4. channels[idOf[d]] = d
    BY <2>2, <2>3 DEF IdsAreRight
  <2>. QED
    BY <2>1, <2>4 DEF mHostnames
<1>. QED
  BY <1>1, <1>2

\* The lines of a file in the order of right ids are those of the parties there.
LEMMA LinesInOrder ==
  ASSUME Discovered, file # None, IdsAreRight, InOrderOfIds, NEW d \in All
  PROVE  GetParty(Lines, idOf[d]) = Party(idOf[d], HostOf[d], PortOf[d])
<1>1. file \in [1 .. NParties -> All]
  BY StartIdsAssumption DEF Discovered, DiscoveryTypes
<1>2. idOf[d] \in Slots /\ idOf[d] + 1 \in 1 .. NParties
  BY Parties DEF Discovered, DiscoveryTypes, IdsAreRight, Slots
<1>3. idOf[file[idOf[d] + 1]] = idOf[d] /\ file[idOf[d] + 1] \in All
  BY <1>1, <1>2 DEF InOrderOfIds
<1>4. file[idOf[d] + 1] = d
  BY <1>3 DEF IdsAreRight
<1>. QED
  BY <1>2, <1>4 DEF GetParty, Lines

\* Lines that pass the check are those of all parties, each with an id of its own.
LEMMA LinesValid ==
  ASSUME Discovered, file # None, NEW id, Valid(id, Lines)
  PROVE  IdsAreRight
<1>1. file \in [1 .. NParties -> All]
  BY StartIdsAssumption DEF Discovered, DiscoveryTypes
<1>2. DOMAIN Lines = 1 .. NParties /\ Len(Lines) = NParties /\ \A i \in 1 .. NParties : Lines[i].id = idOf[file[i]]
  BY Parties DEF Lines, Party
<1>3. \A i, j \in 1 .. NParties : i # j => idOf[file[i]] # idOf[file[j]]
  BY <1>2 DEF Valid, IdsDistinct
<1>4. \A i \in 1 .. NParties : idOf[file[i]] < NParties
  BY <1>2 DEF Valid, IdsInRange
<1>5. file \in Injection(1 .. NParties, All)
  BY <1>1, <1>3 DEF Injection, IsInjective
<1>6. IsFiniteSet(1 .. NParties) /\ Cardinality(1 .. NParties) = NParties
  <2>1. 1 \in Int /\ NParties \in Int /\ ~(1 > NParties) /\ NParties - 1 + 1 = NParties
    BY Parties
  <2>. QED
    BY <2>1, FS_Interval
<1>7. file \in Surjection(1 .. NParties, All)
  BY <1>5, <1>6, Parties, FS_Injection
<1>8. \A c \in All : \E i \in 1 .. NParties : file[i] = c
  BY <1>7 DEF Surjection
<1>9. ASSUME NEW c \in All, NEW d \in All, c # d PROVE idOf[c] # idOf[d]
  <2>1. PICK i \in 1 .. NParties : file[i] = c
    BY <1>8
  <2>2. PICK j \in 1 .. NParties : file[j] = d
    BY <1>8
  <2>. QED
    BY <1>3, <1>9, <2>1, <2>2
<1>10. \A c \in All : idOf[c] < NParties
  BY <1>4, <1>8
<1>. QED
  BY <1>9, <1>10 DEF IdsAreRight

\* A process that has id 0 makes the list hold all ids, and then they are those
\* of different processes.
LEMMA ZeroFound ==
  ASSUME Discovered, Complete, NEW z \in All, idOf[z] = 0
  PROVE  IdsAreRight
<1>1. \A d \in All : idOf[d] \in Slots
  BY EveryoneNoted
<1>2. \A i \in Slots : IsNoted(i)
  BY EveryoneNoted, ListHasIds
<1>3. idOf \in Surjection(All, Slots)
  <2>1. idOf \in [All -> Slots]
    BY <1>1 DEF Discovered, DiscoveryTypes
  <2>2. \A i \in Slots : \E e \in All : idOf[e] = i
    BY <1>2 DEF IsNoted
  <2>. QED
    BY <2>1, <2>2 DEF Surjection
<1>4. idOf \in Injection(All, Slots)
  BY <1>3, SlotsOfClients, Parties, FS_SurjSameCardinalityImpliesInj
<1>5. \A c, d \in All : c # d => idOf[c] # idOf[d]
  BY <1>4 DEF Injection, IsInjective
<1>. QED
  BY <1>1, <1>5, Parties DEF IdsAreRight, Slots

\* The promise of the discovery follows from its invariant.
LEMMA DiscoveredAgree == Discovered => ConfigsAgree
<1> SUFFICES ASSUME Discovered PROVE ConfigsAgree
  OBVIOUS
<1>1. \A c, d \in All : config[c] # None /\ config[d] # None => config[c] = config[d]
  BY SameConfig
<1>2. ASSUME IdsAreRight, file = None \/ InOrderOfIds, NEW c \in All, NEW d \in All, config[c] # None
      PROVE  GetParty(config[c], idOf[d]).port = PortOf[d]
  <2>1. CASE file = None
    <3>1. Complete /\ config[c] = parties
      BY <1>2, <2>1, FromServer
    <3>2. GetParty(parties, idOf[d]) = Party(idOf[d], mHostnames(idOf[d]), PortOf[d])
      BY <1>2, <3>1, PortsFromServer
    <3>. QED
      BY <3>1, <3>2 DEF Party
  <2>2. CASE file # None
    <3>1. config[c] = Lines
      BY <1>2, <2>2 DEF Discovered, ConfigsRight
    <3>2. GetParty(Lines, idOf[d]) = Party(idOf[d], HostOf[d], PortOf[d])
      BY <1>2, <2>2, LinesInOrder
    <3>. QED
      BY <3>1, <3>2 DEF Party
  <2>. QED
    BY <2>1, <2>2
<1>3. ASSUME IdsAreRight, InOrderOfIds, NEW c \in All, NEW d \in All, config[c] # None
      PROVE  GetParty(config[c], idOf[d]).hostname = HostOf[d]
  <2>1. CASE file = None
    <3>1. Complete /\ config[c] = parties
      BY <1>3, <2>1, FromServer
    <3>2. GetParty(parties, idOf[d]) = Party(idOf[d], mHostnames(idOf[d]), PortOf[d])
      BY <1>3, <3>1, PortsFromServer
    <3>3. mHostnames(idOf[d]) = HostOf[d]
      BY <1>3, <3>1, HostsFromServer
    <3>. QED
      BY <3>1, <3>2, <3>3 DEF Party
  <2>2. CASE file # None
    <3>1. config[c] = Lines
      BY <1>3, <2>2 DEF Discovered, ConfigsRight
    <3>2. GetParty(Lines, idOf[d]) = Party(idOf[d], HostOf[d], PortOf[d])
      BY <1>3, <2>2, LinesInOrder
    <3>. QED
      BY <3>1, <3>2 DEF Party
  <2>. QED
    BY <2>1, <2>2
<1>4. ASSUME server \in {"send", "done"}, ~IdsAreRight, NEW c \in All PROVE idOf[c] # 0
  <2>1. CASE file = None
    BY <1>4, <2>1, ZeroFound DEF Complete
  <2>2. CASE file # None
    <3>1. Valid(Me, Lines)
      BY <1>4, <2>2 DEF Discovered, ConfigsRight
    <3>. QED
      BY <1>4, <2>2, <3>1, LinesValid
  <2>. QED
    BY <2>1, <2>2
<1>. QED
  BY <1>1, <1>2, <1>3, <1>4 DEF ConfigsAgree, HostsAreRight

\* The discovery goes on as part of the setting up of a network.
LEMMA StepsOfDiscovery == [Next]_<< vars, setupVars >> => DiscoveryActions
BY DEF Next, DiscoveryActions, Step, Listen, AcceptParty, ReadId, Connect, SendId, Retry, AcceptWaits, Over,
       vars, setupVars

\* The invariant of the discovery.
LEMMA DiscoveredInvariant == Spec => []Discovered
<1>1. Init => Discovered
  BY InitDiscovered DEF Init
<1>2. Discovered /\ [Next]_<< vars, setupVars >> => Discovered'
  BY NextDiscovered, StepsOfDiscovery
<1>. QED
  BY <1>1, <1>2, PTL DEF Spec

\* In whatever order clients connect and whatever ids they are started with, all
\* who end with a configuration end with the same, right ids give every party its
\* own port, ids in order also its own machine, and that two parties have one id is
\* noticed unless nobody has id 0.
THEOREM ConfigurationsAgree == Spec => []ConfigsAgree
BY DiscoveredAgree, DiscoveredInvariant, PTL

-----------------------------------------------------------------------------
(* Addresses.                                                               *)

\* Right ids are those of all places.
LEMMA IdsOnto ==
  ASSUME Discovered, IdsAreRight
  PROVE  \A i \in Slots : \E e \in All : idOf[e] = i
<1>1. idOf \in [All -> Slots]
  <2>1. \A d \in All : idOf[d] \in Slots
    BY Parties DEF Discovered, DiscoveryTypes, IdsAreRight, Slots
  <2>. QED
    BY <2>1 DEF Discovered, DiscoveryTypes
<1>2. idOf \in Injection(All, Slots)
  BY <1>1 DEF IdsAreRight, Injection, IsInjective
<1>3. idOf \in Surjection(All, Slots)
  BY <1>2, SlotsOfClients, Parties, FS_Injection
<1>. QED
  BY <1>3 DEF Surjection

\* Each place of a configuration has the machine and the port of some process, no
\* two places of the same one.
LEMMA PlacesDiffer ==
  ASSUME Discovered, IdsAreRight, HostsAreRight, NEW c \in All, config[c] # None,
         NEW i \in Slots, NEW j \in Slots,
         GetParty(config[c], i).hostname = GetParty(config[c], j).hostname,
         GetParty(config[c], i).port = GetParty(config[c], j).port
  PROVE  i = j
<1>1. CASE file = None
  <2>1. Complete /\ config[c] = parties
    BY <1>1, FromServer
  <2>2. ASSUME NEW e \in All
        PROVE  /\ GetParty(config[c], idOf[e]).hostname = HostOf[e]
               /\ GetParty(config[c], idOf[e]).port = PortOf[e]
    <3>1. GetParty(parties, idOf[e]) = Party(idOf[e], mHostnames(idOf[e]), PortOf[e])
      BY <2>1, PortsFromServer
    <3>2. GetParty(parties, idOf[e]).port = PortOf[e]
      BY <3>1 DEF Party
    <3>. QED
      BY <2>1, <3>2 DEF HostsAreRight
  <2>3. PICK d \in All : idOf[d] = i
    BY IdsOnto
  <2>4. PICK e \in All : idOf[e] = j
    BY IdsOnto
  <2>5. HostOf[d] = HostOf[e] /\ PortOf[d] = PortOf[e]
    BY <2>2, <2>3, <2>4
  <2>. QED
    BY <2>3, <2>4, <2>5, AddressAssumption DEF All
<1>2. CASE file # None
  <2>1. config[c] = Lines /\ Valid(idOf[c], Lines) /\ file \in [1 .. NParties -> All]
    BY <1>2, StartIdsAssumption DEF Discovered, DiscoveryTypes, ConfigsRight
  <2>2. PICK k \in 1 .. NParties : k = i + 1
    BY Parties DEF Slots
  <2>3. PICK l \in 1 .. NParties : l = j + 1
    BY Parties DEF Slots
  <2>4. /\ Lines[k].hostname = HostOf[file[k]] /\ Lines[k].port = PortOf[file[k]]
        /\ Lines[l].hostname = HostOf[file[l]] /\ Lines[l].port = PortOf[file[l]]
        /\ Lines[k].id = idOf[file[k]] /\ Lines[l].id = idOf[file[l]]
        /\ DOMAIN Lines = 1 .. NParties
    BY DEF Lines, Party
  <2>5. HostOf[file[k]] = HostOf[file[l]] /\ PortOf[file[k]] = PortOf[file[l]]
    BY <2>1, <2>2, <2>3, <2>4 DEF GetParty
  <2>6. file[k] = file[l]
    BY <2>1, <2>5, AddressAssumption DEF All
  <2>7. k = l
    BY <2>1, <2>4, <2>6 DEF Valid, IdsDistinct
  <2>. QED
    BY <2>2, <2>3, <2>7 DEF Slots
<1>. QED
  BY <1>1, <1>2

\* Who listens where the party of an id is looked for is that party.
LEMMA ListensRight ==
  ASSUME Discovered, IdsAreRight, HostsAreRight, NEW c \in All, NEW d \in All, NEW i \in Slots,
         config[c] # None, config[d] # None, ListensAt(d, c, i)
  PROVE  idOf[d] = i
<1>1. config[d] = config[c]
  BY SameConfig
<1>2. GetParty(config[c], idOf[d]).port = GetParty(config[c], i).port
  BY <1>1 DEF ListensAt
<1>3. GetParty(config[c], idOf[d]).hostname = GetParty(config[c], i).hostname
  BY DEF ListensAt, HostsAreRight
<1>4. idOf[d] \in Slots
  BY Parties DEF Discovered, DiscoveryTypes, IdsAreRight, Slots
<1>. QED
  BY <1>2, <1>3, <1>4, PlacesDiffer

-----------------------------------------------------------------------------
(* The connections.                                                         *)

SetupTypes ==
  /\ listening \in [All -> {"no", "yes", "closed"}]
  /\ waiting \in [All -> Seq(All)]
  /\ accepting \in [All -> All \cup {None}]
  /\ nAccepted \in [All -> Nat] /\ nConnected \in [All -> Nat]
  /\ socket \in [All -> All \cup {None}]
  /\ network \in [All -> [Slots -> All \cup {None}]]
  /\ \A c \in All : listening[c] # "no" => Started(c)
  /\ \A c \in All : accepting[c] # None => listening[c] = "yes"
  /\ \A c \in All : socket[c] # None => Started(c) /\ nConnected[c] < idOf[c]
  /\ \A c \in All : idOf[c] < NParties => nConnected[c] <= idOf[c]

\* c has the channel to d, reads its id or will accept its connection.
HasChannel(c, d) == network[c][idOf[d]] # None
Waits(c, d) == \E k \in 1 .. Len(waiting[c]) : waiting[c][k] = d
Knows(c, d) == Waits(c, d) \/ accepting[c] = d \/ (idOf[c] < idOf[d] /\ HasChannel(c, d))

Greater(c) == idOf[c] + 1 .. NParties - 1
Counted(c) == { i \in Greater(c) : network[c][i] # None }

\* The connections are between those who look for each other: who connects to a
\* party connects to the one with the id it is at, once.
Connections ==
  /\ \A c \in All : socket[c] # None => idOf[socket[c]] = nConnected[c]
  /\ \A c, d \in All : Knows(c, d) =>
       idOf[c] < idOf[d] /\ (idOf[c] < nConnected[d] \/ socket[d] = c)
  /\ \A c, d \in All : accepting[c] = d \/ (idOf[c] < idOf[d] /\ HasChannel(c, d)) => ~Waits(c, d)
  /\ \A c, d \in All : accepting[c] = d => ~HasChannel(c, d)
  /\ \A c \in All : \A k, l \in 1 .. Len(waiting[c]) : waiting[c][k] = waiting[c][l] => k = l

\* The channels kept lead to the parties of their places; those of the greater
\* ids have been counted.
Kept ==
  /\ \A c \in All : network[c][idOf[c]] = c
  /\ \A c \in All : \A i \in Slots : network[c][i] # None => idOf[network[c][i]] = i
  /\ \A c \in All : \A i \in Slots : i < nConnected[c] => network[c][i] # None
  /\ \A c \in All : nAccepted[c] = Cardinality(Counted(c))
  /\ \A c \in All : listening[c] = "closed" => nAccepted[c] = NGreater(c)
  /\ \A c \in All : listening[c] = "no" =>
       nAccepted[c] = 0 /\ accepting[c] = None /\ waiting[c] = << >>

Connected == SetupTypes /\ (IdsAreRight /\ HostsAreRight => Connections /\ Kept)

\* What the connections start with.
LEMMA InitConnected == Init => Connected
<1> SUFFICES ASSUME Init PROVE Connected
  OBVIOUS
<1>0. Discovered /\ idOf \in [All -> 0 .. NParties]
  BY InitDiscovered DEF Init, Discovered, DiscoveryTypes
<1>1. /\ \A c \in All : listening[c] = "no" /\ waiting[c] = << >> /\ accepting[c] = None
      /\ \A c \in All : nAccepted[c] = 0 /\ nConnected[c] = 0 /\ socket[c] = None
      /\ \A c \in All : \A i \in Slots : network[c][i] = IF i = idOf[c] THEN c ELSE None
  BY DEF Init
<1>2. SetupTypes
  BY <1>0, <1>1, Parties DEF Init, SetupTypes
<1>3. \A c, d \in All : ~Waits(c, d)
  BY <1>1 DEF Waits
<1>4. ASSUME IdsAreRight PROVE Connections
  <2>1. \A c \in All : idOf[c] \in Slots
    BY <1>0, <1>4, Parties DEF IdsAreRight, Slots
  <2>2. \A c, d \in All : idOf[c] < idOf[d] => ~HasChannel(c, d)
    BY <1>0, <1>1, <2>1 DEF HasChannel, Slots
  <2>3. \A c, d \in All : accepting[c] # d
    BY <1>1, Parties
  <2>4. \A c, d \in All : ~Knows(c, d)
    BY <1>3, <2>2, <2>3 DEF Knows
  <2>. QED
    BY <1>1, <1>3, <2>2, <2>3, <2>4 DEF Connections
<1>5. ASSUME IdsAreRight PROVE Kept
  <2>1. \A c \in All : idOf[c] \in Slots
    BY <1>0, <1>5, Parties DEF IdsAreRight, Slots
  <2>2. \A c \in All : Counted(c) = {}
    BY <1>0, <1>1, <2>1, Parties DEF Counted, Greater, Slots
  <2>3. /\ \A c \in All : network[c][idOf[c]] = c
        /\ \A c \in All : \A i \in Slots : network[c][i] # None => idOf[network[c][i]] = i
    BY <1>1, <2>1
  <2>4. \A i \in Slots : ~(i < 0)
    BY DEF Slots
  <2>. QED
    BY <1>1, <2>2, <2>3, <2>4, FS_EmptySet, ZenonT(60) DEF Kept
<1>. QED
  BY <1>2, <1>4, <1>5 DEF Connected

\* Who has started stays started; hostnames that are right now were right before.
LEMMA StartedStays ==
  ASSUME Discovered, DiscoveryActions
  PROVE  /\ \A c \in All : Started(c) => Started(c)'
         /\ IdsAreRight' <=> IdsAreRight
         /\ HostsAreRight' => HostsAreRight
<1>1. idOf' = idOf
  BY IdsKept
<1>2. \A c \in All : config[c] # None => config'[c] = config[c]
  BY ConfigKept
<1>3. IdsAreRight' <=> IdsAreRight
  BY <1>1 DEF IdsAreRight
<1>4. HostsAreRight' => HostsAreRight
  BY <1>1, <1>2 DEF HostsAreRight, GetParty
<1>. QED
  BY <1>2, <1>3, <1>4 DEF Started

\* The discovery does not touch connections.
LEMMA DiscoveryKeepsConnected ==
  ASSUME Discovered, Connected, DiscoveryActions, UNCHANGED setupVars
  PROVE  Connected'
<1>1. /\ UNCHANGED << listening, waiting, accepting, nAccepted, nConnected, socket, idSent, network >>
      /\ idOf' = idOf
  BY IdsKept DEF setupVars
<1>2. SetupTypes'
  BY <1>1, StartedStays DEF Connected, SetupTypes
<1>3. Connections' <=> Connections
  BY <1>1 DEF Connections, Knows, Waits, HasChannel
<1>4. Kept' <=> Kept
  BY <1>1 DEF Kept, Counted, Greater, NGreater
<1>. QED
  BY <1>2, <1>3, <1>4, StartedStays DEF Connected

\* In a step of a network the configurations stay.
LEMMA SetupStatic ==
  ASSUME UNCHANGED vars
  PROVE  /\ \A c \in All : Started(c)' <=> Started(c)
         /\ IdsAreRight' <=> IdsAreRight
         /\ HostsAreRight' <=> HostsAreRight
         /\ idOf' = idOf /\ config' = config
<1>1. idOf' = idOf /\ config' = config
  BY DEF vars
<1>2. IdsAreRight' <=> IdsAreRight
  BY <1>1 DEF IdsAreRight
<1>3. HostsAreRight' <=> HostsAreRight
  BY <1>1 DEF HostsAreRight, GetParty
<1>4. \A c \in All : Started(c)' <=> Started(c)
  BY <1>1, <1>2 DEF Started
<1>. QED
  BY <1>1, <1>2, <1>3, <1>4

\* The variables of the connections keep their types.
LEMMA SetupKeepsTypes ==
  ASSUME Discovered, Connected, NEW c \in All, Step(c)
  PROVE  SetupTypes'
<1> USE DEF SetupTypes
<1>0. UNCHANGED vars /\ SetupTypes /\ idOf \in [All -> 0 .. NParties] /\ NParties \in Nat /\ None \notin All
  BY Parties DEF Step, Listen, AcceptParty, ReadId, Connect, SendId, Connected, Discovered, DiscoveryTypes
<1>1. \A d \in All : Started(d) => idOf[d] \in Slots
  BY <1>0 DEF Started, IdsAreRight, Slots
<1>2. CASE Listen(c)
  BY <1>0, <1>2, SetupStatic DEF Listen
<1>3. CASE AcceptParty(c)
  <2>1. Head(waiting[c]) \in All /\ Tail(waiting[c]) \in Seq(All)
    BY <1>0, <1>3 DEF AcceptParty
  <2>. QED
    BY <1>0, <1>3, <2>1, SetupStatic DEF AcceptParty
<1>4. CASE ReadId(c)
  <2>1. accepting[c] \in All
    BY <1>0, <1>4 DEF ReadId
  <2>2. network' \in [All -> [Slots -> All \cup {None}]]
    BY <1>0, <1>4, <2>1 DEF ReadId
  <2>3. listening' \in [All -> {"no", "yes", "closed"}] /\ \A d \in All : listening'[d] # "no" => Started(d)
    <3>1. \A d \in All : d # c => listening'[d] = listening[d]
      BY <1>0, <1>4 DEF ReadId
    <3>2. listening'[c] = listening[c] \/ (listening'[c] = "closed" /\ nAccepted[c] + 1 = NGreater(c))
      BY <1>0, <1>4 DEF ReadId
    <3>3. listening[c] # "no"
      BY <1>0, <1>4 DEF ReadId
    <3>. QED
      BY <1>0, <1>4, <3>1, <3>2, <3>3 DEF ReadId
  <2>4. nAccepted' \in [All -> Nat]
    BY <1>0, <1>4 DEF ReadId
  <2>. QED
    BY <1>0, <1>4, <2>2, <2>3, <2>4, SetupStatic DEF ReadId
<1>5. CASE Connect(c)
  <2>1. PICK d \in All : /\ socket' = [socket EXCEPT ![c] = d]
                         /\ waiting' = [waiting EXCEPT ![d] = Append(@, c)]
    BY <1>5 DEF Connect
  <2>2. Started(c) /\ nConnected[c] < idOf[c]
    BY <1>5 DEF Connect, Connecting
  <2>. QED
    BY <1>0, <1>5, <2>1, <2>2, SetupStatic, SMTT(30) DEF Connect
<1>6. CASE SendId(c)
  <2>1. /\ socket[c] \in All /\ Started(c) /\ nConnected[c] < idOf[c]
        /\ nConnected[c] \in Nat /\ idOf[c] \in Nat /\ nConnected[c] \in Slots
    BY <1>0, <1>1, <1>6 DEF SendId, Slots
  <2>2. network' \in [All -> [Slots -> All \cup {None}]]
    BY <1>0, <1>6, <2>1 DEF SendId
  <2>3. nConnected' \in [All -> Nat] /\ \A d \in All : idOf[d] < NParties => nConnected'[d] <= idOf[d]
    BY <1>0, <1>6, <2>1 DEF SendId
  <2>4. socket' \in [All -> All \cup {None}] /\ \A d \in All : socket'[d] # None =>
          Started(d) /\ nConnected'[d] < idOf[d]
    BY <1>0, <1>6, <2>1 DEF SendId
  <2>. QED
    BY <1>0, <1>6, <2>2, <2>3, <2>4, SetupStatic DEF SendId
<1>. QED
  BY <1>2, <1>3, <1>4, <1>5, <1>6 DEF Step

\* What a step needs to know of the state it starts in.
LEMMA SetupFacts ==
  ASSUME Discovered, Connected, IdsAreRight, HostsAreRight
  PROVE  /\ SetupTypes /\ Connections /\ Kept
         /\ \A c \in All : idOf[c] \in Slots
         /\ \A c, d \in All : idOf[c] = idOf[d] => c = d
         /\ \A c, d \in All : idOf[c] \in Nat /\ nConnected[d] \in Nat
         /\ None \notin All
BY Parties DEF Connected, Discovered, DiscoveryTypes, IdsAreRight, Slots, SetupTypes

\* Listening changes nothing about who is connected to whom.
LEMMA ListenKeeps ==
  ASSUME Discovered, Connected, IdsAreRight, HostsAreRight, NEW c \in All, Listen(c)
  PROVE  Connections' /\ Kept'
<1>0. /\ UNCHANGED << waiting, accepting, nAccepted, nConnected, socket, network >> /\ idOf' = idOf
      /\ listening[c] = "no"
      /\ \A d \in All : d # c => listening'[d] = listening[d]
      /\ listening'[c] = IF NGreater(c) = 0 THEN "closed" ELSE "yes"
  BY SetupFacts, SetupStatic DEF Listen, SetupTypes
<1>1. Connections' <=> Connections
  BY <1>0 DEF Connections, Knows, Waits, HasChannel
<1>2. \A d \in All : Counted(d)' = Counted(d) /\ NGreater(d)' = NGreater(d)
  BY <1>0 DEF Counted, Greater, NGreater
<1>3. Kept'
  BY <1>0, <1>2, SetupFacts DEF Kept
<1>. QED
  BY <1>1, <1>3, SetupFacts

\* A connection that is accepted is one that waited, and no longer waits.
LEMMA AcceptKeeps ==
  ASSUME Discovered, Connected, IdsAreRight, HostsAreRight, NEW c \in All, AcceptParty(c)
  PROVE  Connections' /\ Kept'
<1>0. /\ UNCHANGED << listening, nAccepted, nConnected, socket, network >> /\ idOf' = idOf
      /\ listening[c] = "yes" /\ accepting[c] = None /\ waiting[c] # << >>
  BY SetupStatic DEF AcceptParty
<1>1. PICK h, rest : h = Head(waiting[c]) /\ rest = Tail(waiting[c])
  OBVIOUS
<1>2. waiting[c] \in Seq(All)
  BY SetupFacts DEF SetupTypes
<1>3. /\ h \in All /\ rest \in Seq(All) /\ Len(rest) = Len(waiting[c]) - 1
      /\ \A k \in 1 .. Len(rest) : rest[k] = waiting[c][k + 1]
  BY <1>0, <1>1, <1>2, HeadTailProperties
<1>4. /\ 1 \in 1 .. Len(waiting[c]) /\ waiting[c][1] = h
      /\ \A k \in 1 .. Len(rest) : k + 1 \in 1 .. Len(waiting[c]) /\ k + 1 # 1
  <2>1. Len(waiting[c]) \in Nat \ {0} /\ waiting[c][1] = h
    BY <1>0, <1>1, <1>2
  <2>2. Len(rest) = Len(waiting[c]) - 1
    BY <1>3
  <2>. QED
    BY <2>1, <2>2
<1>5. /\ accepting'[c] = h /\ waiting'[c] = rest
      /\ \A d \in All : d # c => accepting'[d] = accepting[d] /\ waiting'[d] = waiting[d]
  BY <1>1, SetupFacts DEF AcceptParty, SetupTypes
<1>6. \A k, l \in 1 .. Len(waiting[c]) : waiting[c][k] = waiting[c][l] => k = l
  BY SetupFacts DEF Connections
<1>7. \A k \in 1 .. Len(rest) : rest[k] # h
  BY <1>3, <1>4, <1>6
<1>8. \A k, l \in 1 .. Len(rest) : rest[k] = rest[l] => k = l
  <2>1. ASSUME NEW k \in 1 .. Len(rest), NEW l \in 1 .. Len(rest), rest[k] = rest[l] PROVE k = l
    <3>1. k + 1 = l + 1
      BY <1>3, <1>4, <1>6, <2>1
    <3>. QED
      BY <3>1
  <2>. QED
    BY <2>1
<1>9. Waits(c, h) /\ ~Waits(c, h)' /\ \A d \in All : Waits(c, d)' => Waits(c, d)
  BY <1>3, <1>4, <1>5, <1>7, SMTT(30) DEF Waits
<1>10. \A d, e \in All : d # c => (Waits(d, e)' <=> Waits(d, e)) /\ accepting'[d] = accepting[d]
  BY <1>5 DEF Waits
<1>11. \A d, e \in All : HasChannel(d, e)' <=> HasChannel(d, e)
  BY <1>0 DEF HasChannel
<1>12. /\ \A d \in All : socket[d] # None => idOf[socket[d]] = nConnected[d]
       /\ \A d, e \in All : Knows(d, e) =>
            idOf[d] < idOf[e] /\ (idOf[d] < nConnected[e] \/ socket[e] = d)
       /\ \A d, e \in All : accepting[d] = e \/ (idOf[d] < idOf[e] /\ HasChannel(d, e)) => ~Waits(d, e)
       /\ \A d, e \in All : accepting[d] = e => ~HasChannel(d, e)
       /\ \A d \in All : \A k, l \in 1 .. Len(waiting[d]) : waiting[d][k] = waiting[d][l] => k = l
  BY SetupFacts DEF Connections
<1>13. Knows(c, h) /\ ~HasChannel(c, h)
  BY <1>3, <1>9, <1>12 DEF Knows
<1>14. \A d, e \in All : Knows(d, e)' => Knows(d, e)
  BY <1>0, <1>5, <1>9, <1>10, <1>11, <1>13 DEF Knows
<1>15. \A d, e \in All : accepting'[d] = e \/ (idOf[d] < idOf[e] /\ HasChannel(d, e)) => ~Waits(d, e)'
  BY <1>5, <1>9, <1>10, <1>12
<1>16. \A d, e \in All : accepting'[d] = e => ~HasChannel(d, e)
  BY <1>5, <1>12, <1>13
<1>17. \A d \in All : \A k, l \in 1 .. Len(waiting'[d]) : waiting'[d][k] = waiting'[d][l] => k = l
  BY <1>5, <1>8, <1>12
<1>18. Connections'
  BY <1>0, <1>11, <1>12, <1>14, <1>15, <1>16, <1>17 DEF Connections
<1>19. Kept'
  <2>1. \A d \in All : Counted(d)' = Counted(d) /\ NGreater(d)' = NGreater(d)
    BY <1>0 DEF Counted, Greater, NGreater
  <2>2. \A d \in All : listening[d] = "no" => accepting'[d] = None /\ waiting'[d] = << >>
    BY <1>0, <1>5, SetupFacts DEF Kept
  <2>. QED
    BY <1>0, <2>1, <2>2, SetupFacts DEF Kept
<1>. QED
  BY <1>18, <1>19

\* One more of the parties with greater ids has its channel.
LEMMA OneMoreCounted ==
  ASSUME NEW S, IsFiniteSet(S), NEW x \in S, NEW f, NEW g, f[x] = None, g[x] # None,
         \A i \in S : i # x => g[i] = f[i]
  PROVE  Cardinality({ i \in S : g[i] # None }) = Cardinality({ i \in S : f[i] # None }) + 1
<1> DEFINE F == { i \in S : f[i] # None }
<1>1. IsFiniteSet(F)
  BY FS_Subset
<1>2. { i \in S : g[i] # None } = F \cup {x} /\ x \notin F
  OBVIOUS
<1> HIDE DEF F
<1>3. Cardinality(F \cup {x}) = Cardinality(F) + 1
  BY <1>1, <1>2, FS_AddElement
<1>. QED
  BY <1>2, <1>3 DEF F

\* The ids greater than one's own.
LEMMA GreaterFinite ==
  ASSUME NEW c \in All, idOf[c] \in Slots
  PROVE  IsFiniteSet(Greater(c)) /\ Cardinality(Greater(c)) = NGreater(c) /\ Greater(c) \subseteq Slots
<1>1. /\ idOf[c] + 1 \in Int /\ NParties - 1 \in Int
      /\ (IF idOf[c] + 1 > NParties - 1 THEN 0 ELSE (NParties - 1) - (idOf[c] + 1) + 1) = NParties - idOf[c] - 1
      /\ \A i \in idOf[c] + 1 .. NParties - 1 : i \in 0 .. NParties - 1
  BY Parties DEF Slots
<1>. QED
  BY <1>1, FS_Interval DEF Greater, NGreater, Slots

\* Reading the id of an accepted connection puts it at the place of that party.
LEMMA ReadKeeps ==
  ASSUME Discovered, Connected, IdsAreRight, HostsAreRight, NEW c \in All, ReadId(c)
  PROVE  Connections' /\ Kept'
<1>1. PICK d \in All : d = accepting[c]
  BY SetupFacts DEF ReadId, SetupTypes
<1>2. UNCHANGED << waiting, nConnected, socket >> /\ idOf' = idOf
  BY SetupStatic DEF ReadId
<1>3. /\ accepting'[c] = None /\ nAccepted'[c] = nAccepted[c] + 1
      /\ listening'[c] = IF nAccepted[c] + 1 = NGreater(c) THEN "closed" ELSE listening[c]
      /\ \A e \in All : e # c => /\ accepting'[e] = accepting[e] /\ nAccepted'[e] = nAccepted[e]
                                 /\ listening'[e] = listening[e] /\ network'[e] = network[e]
  BY SetupFacts DEF ReadId, SetupTypes
<1>4. /\ network'[c][idOf[d]] = d /\ \A i \in Slots : i # idOf[d] => network'[c][i] = network[c][i]
  BY <1>1, SetupFacts DEF ReadId, SetupTypes, PlaceOf
<1>5. Knows(c, d) /\ ~Waits(c, d) /\ ~HasChannel(c, d) /\ listening[c] = "yes"
  BY <1>1, SetupFacts DEF Knows, Connections, SetupTypes
<1>6. idOf[c] < idOf[d] /\ idOf[c] # idOf[d]
  BY <1>5, SetupFacts DEF Connections
<1>7. \A x, y \in All : Waits(x, y)' <=> Waits(x, y)
  BY <1>2 DEF Waits
<1>8. ASSUME NEW x \in All, NEW y \in All, ~(x = c /\ y = d)
      PROVE  HasChannel(x, y)' <=> HasChannel(x, y)
  <2>1. CASE x = c
    <3>1. idOf[y] # idOf[d] /\ idOf[y] \in Slots
      BY <1>8, <2>1, SetupFacts
    <3>. QED
      BY <1>2, <1>4, <2>1, <3>1 DEF HasChannel
  <2>2. CASE x # c
    BY <1>2, <1>3, <2>2 DEF HasChannel
  <2>. QED
    BY <2>1, <2>2
<1>9. \A x, y \in All : Knows(x, y)' => Knows(x, y)
  BY <1>2, <1>3, <1>5, <1>7, <1>8, SetupFacts DEF Knows
<1>10. Connections'
  <2>1. /\ \A x, y \in All : Knows(x, y)' =>
             idOf[x] < idOf[y] /\ (idOf[x] < nConnected[y] \/ socket[y] = x)
    BY <1>9, SetupFacts DEF Connections
  <2>2. \A x, y \in All : accepting'[x] = y => accepting[x] = y /\ ~(x = c)
    BY <1>3, SetupFacts
  <2>3. \A x, y \in All : accepting'[x] = y => ~Waits(x, y) /\ ~HasChannel(x, y)'
    BY <1>8, <2>2, SetupFacts DEF Connections
  <2>4. \A x, y \in All : idOf[x] < idOf[y] /\ HasChannel(x, y)' => ~Waits(x, y)
    BY <1>5, <1>8, SetupFacts DEF Connections
  <2>5. /\ \A x \in All : socket[x] # None => idOf[socket[x]] = nConnected[x]
        /\ \A x \in All : \A k, l \in 1 .. Len(waiting[x]) : waiting[x][k] = waiting[x][l] => k = l
    BY SetupFacts DEF Connections
  <2>. QED
    BY <1>2, <1>7, <2>1, <2>3, <2>4, <2>5 DEF Connections
<1>11. Kept'
  <2>1. /\ \A x \in All : Greater(x)' = Greater(x) /\ NGreater(x)' = NGreater(x)
        /\ \A x \in All : x # c => Counted(x)' = Counted(x)
    BY <1>2, <1>3 DEF Counted, Greater, NGreater
  <2>2. \A x \in All : network'[x][idOf[x]] = x
    BY <1>3, <1>4, <1>6, SetupFacts DEF Kept
  <2>3. /\ \A i \in Slots : network'[c][i] # None => idOf[network'[c][i]] = i
        /\ \A i \in Slots : i < nConnected[c] => network'[c][i] # None
    BY <1>4, SetupFacts DEF Kept
  <2>4. nAccepted'[c] = Cardinality(Counted(c)')
    <3>1. idOf[d] \in Greater(c)
      BY <1>6, SetupFacts DEF Greater, Slots
    <3>2. network[c][idOf[d]] = None /\ network'[c][idOf[d]] # None
      BY <1>4, <1>5, SetupFacts DEF HasChannel
    <3>3. \A i \in Greater(c) : i # idOf[d] => network'[c][i] = network[c][i]
      BY <1>4, GreaterFinite, SetupFacts
    <3>4. PICK f, g, x : f = network[c] /\ g = network'[c] /\ x = idOf[d]
      OBVIOUS
    <3>5. Cardinality({ i \in Greater(c) : g[i] # None }) = Cardinality({ i \in Greater(c) : f[i] # None }) + 1
      BY <3>1, <3>2, <3>3, <3>4, OneMoreCounted, GreaterFinite, SetupFacts, SMTT(30)
    <3>6. nAccepted[c] = Cardinality(Counted(c))
      BY SetupFacts DEF Kept
    <3>7. { i \in Greater(c) : g[i] # None } = Counted(c)' /\ { i \in Greater(c) : f[i] # None } = Counted(c)
      BY <2>1, <3>4 DEF Counted
    <3>. QED
      BY <1>3, <3>5, <3>6, <3>7
  <2>5. listening'[c] = "closed" => nAccepted'[c] = NGreater(c)
    BY <1>3, <1>5
  <2>6. listening'[c] # "no"
    BY <1>3, <1>5
  <2>7. ASSUME NEW x \in All
        PROVE  /\ \A i \in Slots : network'[x][i] # None => idOf[network'[x][i]] = i
               /\ \A i \in Slots : i < nConnected[x] => network'[x][i] # None
               /\ nAccepted'[x] = Cardinality(Counted(x)')
               /\ listening'[x] = "closed" => nAccepted'[x] = NGreater(x)
               /\ listening'[x] = "no" => nAccepted'[x] = 0 /\ accepting'[x] = None /\ waiting[x] = << >>
    <3>1. CASE x = c
      BY <2>3, <2>4, <2>5, <2>6, <3>1
    <3>2. CASE x # c
      <4>1. /\ accepting'[x] = accepting[x] /\ nAccepted'[x] = nAccepted[x]
            /\ listening'[x] = listening[x] /\ network'[x] = network[x]
        BY <1>3, <3>2
      <4>2. Counted(x)' = Counted(x)
        BY <2>1, <3>2
      <4>. QED
        BY <4>1, <4>2, SetupFacts DEF Kept
    <3>. QED
      BY <3>1, <3>2
  <2>. QED
    BY <1>2, <2>1, <2>2, <2>7 DEF Kept
<1>. QED
  BY <1>10, <1>11

\* Whoever connects to a party connects to the one it looks for, once.
LEMMA ConnectKeeps ==
  ASSUME Discovered, Connected, IdsAreRight, HostsAreRight, NEW c \in All, Connect(c)
  PROVE  Connections' /\ Kept'
<1>1. PICK n \in Nat : n = nConnected[c]
  BY SetupFacts
<1>2. PICK d \in All : /\ ListensAt(d, c, n)
                       /\ socket' = [socket EXCEPT ![c] = d]
                       /\ waiting' = [waiting EXCEPT ![d] = Append(waiting[d], c)]
  BY <1>1 DEF Connect
<1>3. /\ UNCHANGED << listening, accepting, nAccepted, nConnected, network >> /\ idOf' = idOf
      /\ config[c] # None /\ socket[c] = None /\ n < idOf[c]
  BY <1>1, SetupStatic DEF Connect, Connecting, Started
<1>4. listening[d] = "yes" /\ config[d] # None
  BY <1>2, SetupFacts DEF ListensAt, SetupTypes, Started
<1>5. n \in Slots
  BY <1>3, SetupFacts, Parties DEF Slots
<1>6. idOf[d] = n
  BY <1>2, <1>3, <1>4, <1>5, ListensRight
<1>7. /\ socket'[c] = d /\ waiting'[d] = Append(waiting[d], c)
      /\ \A x \in All : x # c => socket'[x] = socket[x]
      /\ \A x \in All : x # d => waiting'[x] = waiting[x]
  BY <1>2, SetupFacts DEF SetupTypes
<1>8. /\ \A x \in All : socket[x] # None => idOf[socket[x]] = nConnected[x]
      /\ \A x, y \in All : Knows(x, y) =>
           idOf[x] < idOf[y] /\ (idOf[x] < nConnected[y] \/ socket[y] = x)
      /\ \A x, y \in All : accepting[x] = y \/ (idOf[x] < idOf[y] /\ HasChannel(x, y)) => ~Waits(x, y)
      /\ \A x, y \in All : accepting[x] = y => ~HasChannel(x, y)
      /\ \A x \in All : \A k, l \in 1 .. Len(waiting[x]) : waiting[x][k] = waiting[x][l] => k = l
  BY SetupFacts DEF Connections
<1>9. ~Knows(d, c)
  BY <1>1, <1>3, <1>6, <1>8, SetupFacts
<1>10. PICK m \in Nat : m = Len(waiting[d])
  BY SetupFacts DEF SetupTypes
<1>11. /\ Len(waiting'[d]) = m + 1 /\ waiting'[d][m + 1] = c
       /\ \A k \in 1 .. m : waiting'[d][k] = waiting[d][k]
       /\ \A k \in 1 .. m + 1 : k \in 1 .. m \/ k = m + 1
  BY <1>7, <1>10, SetupFacts DEF SetupTypes
<1>12. \A k \in 1 .. m : waiting[d][k] # c
  BY <1>9, <1>10 DEF Knows, Waits
<1>13. \A k, l \in 1 .. m + 1 : waiting'[d][k] = waiting'[d][l] => k = l
  BY <1>8, <1>10, <1>11, <1>12, SMTT(30)
<1>14. \A y \in All : Waits(d, y)' => Waits(d, y) \/ y = c
  BY <1>10, <1>11 DEF Waits
<1>15. \A x, y \in All : x # d => (Waits(x, y)' <=> Waits(x, y))
  BY <1>7 DEF Waits
<1>16. \A x, y \in All : HasChannel(x, y)' <=> HasChannel(x, y)
  BY <1>3 DEF HasChannel
<1>17. \A x, y \in All : Knows(x, y)' => Knows(x, y) \/ (x = d /\ y = c)
  BY <1>3, <1>14, <1>15, <1>16 DEF Knows
<1>18. ASSUME NEW x \in All, NEW y \in All, Knows(x, y)'
       PROVE  idOf[x] < idOf[y] /\ (idOf[x] < nConnected[y] \/ socket'[y] = x)
  <2>1. CASE x = d /\ y = c
    BY <1>3, <1>6, <1>7, <2>1
  <2>2. CASE Knows(x, y)
    <3>1. idOf[x] < idOf[y] /\ (idOf[x] < nConnected[y] \/ socket[y] = x)
      BY <1>8, <2>2
    <3>2. CASE y = c
      BY <1>3, <3>1, <3>2, SetupFacts
    <3>3. CASE y # c
      BY <1>7, <3>1, <3>3
    <3>. QED
      BY <3>2, <3>3
  <2>. QED
    BY <1>17, <1>18, <2>1, <2>2
<1>19. \A x, y \in All : accepting[x] = y \/ (idOf[x] < idOf[y] /\ HasChannel(x, y)) => ~Waits(x, y)'
  BY <1>8, <1>9, <1>14, <1>15 DEF Knows
<1>20. ASSUME NEW x \in All
       PROVE  \A k, l \in 1 .. Len(waiting'[x]) : waiting'[x][k] = waiting'[x][l] => k = l
  <2>1. CASE x = d
    BY <1>11, <1>13, <2>1
  <2>2. CASE x # d
    <3>1. waiting'[x] = waiting[x]
      BY <1>7, <2>2
    <3>. QED
      BY <1>8, <3>1
  <2>. QED
    BY <2>1, <2>2
<1>21. \A x \in All : socket'[x] # None => idOf[socket'[x]] = nConnected[x]
  BY <1>1, <1>6, <1>7, <1>8
<1>22. Connections'
  BY <1>3, <1>8, <1>16, <1>18, <1>19, <1>20, <1>21 DEF Connections
<1>23. Kept'
  <2>1. \A x \in All : Counted(x)' = Counted(x) /\ NGreater(x)' = NGreater(x)
    BY <1>3 DEF Counted, Greater, NGreater
  <2>2. \A x \in All : listening[x] = "no" =>
          nAccepted[x] = 0 /\ accepting[x] = None /\ waiting'[x] = << >>
    BY <1>4, <1>7, SetupFacts DEF Kept
  <2>. QED
    BY <1>3, <2>1, <2>2, SetupFacts DEF Kept
<1>. QED
  BY <1>22, <1>23

\* The id that is sent goes to the party whose place the channel is kept at.
LEMMA SendKeeps ==
  ASSUME Discovered, Connected, IdsAreRight, HostsAreRight, NEW c \in All, SendId(c)
  PROVE  Connections' /\ Kept'
<1>1. PICK n \in Nat : n = nConnected[c]
  BY SetupFacts
<1>2. PICK d \in All : d = socket[c]
  BY SetupFacts DEF SendId, SetupTypes
<1>3. UNCHANGED << listening, waiting, accepting, nAccepted >> /\ idOf' = idOf
  BY SetupStatic DEF SendId
<1>4. idOf[d] = n /\ n < idOf[c] /\ n \in Slots
  BY <1>1, <1>2, SetupFacts, Parties DEF Connections, SetupTypes, Slots
<1>5. /\ nConnected'[c] = n + 1 /\ socket'[c] = None
      /\ \A x \in All : x # c => /\ nConnected'[x] = nConnected[x] /\ socket'[x] = socket[x]
                                 /\ network'[x] = network[x]
  BY <1>1, SetupFacts DEF SendId, SetupTypes
<1>6. network'[c][n] = d /\ \A i \in Slots : i # n => network'[c][i] = network[c][i]
  BY <1>1, <1>2, <1>4, SetupFacts DEF SendId, SetupTypes
<1>7. /\ \A x \in All : socket[x] # None => idOf[socket[x]] = nConnected[x]
      /\ \A x, y \in All : Knows(x, y) =>
           idOf[x] < idOf[y] /\ (idOf[x] < nConnected[y] \/ socket[y] = x)
      /\ \A x, y \in All : accepting[x] = y \/ (idOf[x] < idOf[y] /\ HasChannel(x, y)) => ~Waits(x, y)
      /\ \A x, y \in All : accepting[x] = y => ~HasChannel(x, y)
      /\ \A x \in All : \A k, l \in 1 .. Len(waiting[x]) : waiting[x][k] = waiting[x][l] => k = l
  BY SetupFacts DEF Connections
<1>8. \A x, y \in All : Waits(x, y)' <=> Waits(x, y)
  BY <1>3 DEF Waits
<1>9. \A x, y \in All : ~(x = c /\ y = d) => (HasChannel(x, y)' <=> HasChannel(x, y))
  <2>1. ASSUME NEW x \in All, NEW y \in All, ~(x = c /\ y = d) PROVE HasChannel(x, y)' <=> HasChannel(x, y)
    <3>1. CASE x = c
      <4>1. idOf[y] # n /\ idOf[y] \in Slots
        BY <1>4, <2>1, <3>1, SetupFacts
      <4>. QED
        BY <1>3, <1>6, <3>1, <4>1 DEF HasChannel
    <3>2. CASE x # c
      BY <1>3, <1>5, <3>2 DEF HasChannel
    <3>. QED
      BY <3>1, <3>2
  <2>. QED
    BY <2>1
<1>10. ~(idOf[c] < idOf[d])
  BY <1>4, SetupFacts
<1>11. \A x, y \in All : Knows(x, y)' => Knows(x, y)
  BY <1>3, <1>8, <1>9, <1>10 DEF Knows
<1>12. ASSUME NEW x \in All, NEW y \in All, Knows(x, y)
       PROVE  idOf[x] < idOf[y] /\ (idOf[x] < nConnected'[y] \/ socket'[y] = x)
  <2>1. idOf[x] < idOf[y] /\ (idOf[x] < nConnected[y] \/ socket[y] = x)
    BY <1>7, <1>12
  <2>2. CASE y = c
    <3>1. idOf[x] < n \/ idOf[x] = n
      BY <1>1, <1>2, <1>4, <2>1, <2>2
    <3>. QED
      BY <1>5, <2>1, <2>2, <3>1, SetupFacts
  <2>3. CASE y # c
    BY <1>5, <2>1, <2>3
  <2>. QED
    BY <2>2, <2>3
<1>13. ~(accepting[c] = d)
  BY <1>7, <1>10 DEF Knows
<1>14. \A x, y \in All : accepting[x] = y => ~HasChannel(x, y)'
  BY <1>7, <1>9, <1>13
<1>15. \A x, y \in All : accepting[x] = y \/ (idOf[x] < idOf[y] /\ HasChannel(x, y)') => ~Waits(x, y)
  BY <1>7, <1>9, <1>10
<1>16. \A x \in All : socket'[x] # None => idOf[socket'[x]] = nConnected'[x]
  BY <1>5, <1>7
<1>17. Connections'
  BY <1>3, <1>7, <1>8, <1>11, <1>12, <1>14, <1>15, <1>16 DEF Connections
<1>18. Kept'
  <2>1. \A x \in All : Greater(x)' = Greater(x) /\ NGreater(x)' = NGreater(x)
    BY <1>3 DEF Greater, NGreater
  <2>2. \A x \in All : Counted(x)' = Counted(x)
    <3>1. \A i \in Greater(c) : network'[c][i] = network[c][i]
      <4>1. \A i \in Greater(c) : i # n /\ i \in Slots
        BY <1>4, SetupFacts, GreaterFinite DEF Greater, Slots
      <4>. QED
        BY <1>6, <4>1
    <3>2. \A x \in All : x # c => network'[x] = network[x]
      BY <1>5
    <3>. QED
      BY <2>1, <3>1, <3>2 DEF Counted
  <2>3. \A x \in All : network'[x][idOf[x]] = x
    BY <1>4, <1>5, <1>6, SetupFacts DEF Kept
  <2>4. \A x \in All : \A i \in Slots : network'[x][i] # None => idOf[network'[x][i]] = i
    BY <1>4, <1>5, <1>6, SetupFacts DEF Kept
  <2>5. \A x \in All : \A i \in Slots : i < nConnected'[x] => network'[x][i] # None
    <3>1. \A i \in Slots : i < n + 1 => i < n \/ i = n
      BY Parties DEF Slots
    <3>2. \A i \in Slots : i < n => network[c][i] # None
      BY <1>1, SetupFacts DEF Kept
    <3>3. d # None
      BY SetupFacts
    <3>4. \A i \in Slots : i < nConnected'[c] => network'[c][i] # None
      BY <1>5, <1>6, <3>1, <3>2, <3>3
    <3>. QED
      BY <1>5, <3>4, SetupFacts DEF Kept
  <2>. QED
    BY <1>3, <2>1, <2>2, <2>3, <2>4, <2>5, SetupFacts DEF Kept
<1>. QED
  BY <1>17, <1>18

\* Every step keeps the connections right.
LEMMA NextConnected ==
  Discovered /\ Connected /\ [Next]_<< vars, setupVars >> => Connected'
<1> SUFFICES ASSUME Discovered, Connected, [Next]_<< vars, setupVars >> PROVE Connected'
  OBVIOUS
<1>1. ASSUME NEW c \in All, Step(c) PROVE Connected'
  <2>1. SetupTypes'
    BY <1>1, SetupKeepsTypes
  <2>2. UNCHANGED vars
    BY <1>1 DEF Step, Listen, AcceptParty, ReadId, Connect, SendId
  <2>3. ASSUME IdsAreRight', HostsAreRight' PROVE Connections' /\ Kept'
    <3>1. IdsAreRight /\ HostsAreRight
      BY <2>2, <2>3, SetupStatic
    <3>. QED
      BY <1>1, <3>1, ListenKeeps, AcceptKeeps, ReadKeeps, ConnectKeeps, SendKeeps DEF Step
  <2>. QED
    BY <2>1, <2>3 DEF Connected
<1>2. CASE DiscoveryStep /\ UNCHANGED setupVars
  BY <1>2, DiscoveryKeepsConnected DEF DiscoveryActions
<1>3. CASE UNCHANGED << vars, setupVars >>
  BY <1>3, DiscoveryKeepsConnected DEF DiscoveryActions
<1>4. ASSUME NEW c \in All, Retry(c) \/ AcceptWaits(c) PROVE Connected'
  BY <1>3, <1>4 DEF Retry, AcceptWaits
<1>5. CASE Over
  BY <1>3, <1>5 DEF Over
<1>. QED
  BY <1>1, <1>2, <1>3, <1>4, <1>5 DEF Next

\* A server thread that has counted as many connections as there are greater ids has
\* one of each.
LEMMA AllGreaterKept ==
  ASSUME Discovered, Connected, IdsAreRight, HostsAreRight, NEW c \in All, listening[c] = "closed"
  PROVE  \A i \in Greater(c) : network[c][i] # None
<1>1. IsFiniteSet(Greater(c)) /\ Cardinality(Greater(c)) = NGreater(c)
  BY SetupFacts, GreaterFinite
<1>2. Cardinality(Counted(c)) = NGreater(c) /\ Counted(c) \subseteq Greater(c)
  BY SetupFacts DEF Kept, Counted
<1>3. Counted(c) = Greater(c)
  BY <1>1, <1>2, FS_Subset
<1>. QED
  BY <1>3 DEF Counted

\* Every place of a network that was returned is filled, and rightly.
LEMMA ConnectedLead == Discovered /\ Connected => ChannelsLeadToTheirParty
<1> SUFFICES ASSUME Discovered, Connected, HostsAreRight,
                    NEW c \in All, Started(c), Created(c), NEW i \in Slots
             PROVE  network[c][i] # None /\ idOf[network[c][i]] = i
  BY DEF ChannelsLeadToTheirParty
<1>1. IdsAreRight
  BY DEF Started
<1>2. idOf[c] \in Slots /\ None \notin All
  BY <1>1, SetupFacts
<1>3. CASE i < idOf[c]
  BY <1>1, <1>3, SetupFacts DEF Created, Kept
<1>4. CASE i = idOf[c]
  BY <1>1, <1>2, <1>4, SetupFacts DEF Kept
<1>5. CASE i > idOf[c]
  <2>1. i \in Greater(c)
    BY <1>2, <1>5, Parties DEF Greater, Slots
  <2>. QED
    BY <1>1, <2>1, AllGreaterKept, SetupFacts DEF Created, Kept
<1>6. i < idOf[c] \/ i = idOf[c] \/ i > idOf[c]
  BY <1>2, Parties DEF Slots
<1>7. network[c][i] # None
  BY <1>3, <1>4, <1>5, <1>6
<1>. QED
  BY <1>1, <1>7, SetupFacts DEF Kept

\* A network that Create has returned has a channel to every party, and the one at
\* place i leads to party i, however many parties there are and in whatever order they
\* connect, unless the hostnames in the configuration are wrong.
THEOREM NetworksAreComplete == Spec => []ChannelsLeadToTheirParty
<1>1. Init => Connected
  BY InitConnected
<1>2. Discovered /\ Connected /\ [Next]_<< vars, setupVars >> => Connected'
  BY NextConnected
<1>3. Discovered /\ Connected => ChannelsLeadToTheirParty
  BY ConnectedLead
<1>. QED
  BY <1>1, <1>2, <1>3, DiscoveredInvariant, PTL DEF Spec
=============================================================================
