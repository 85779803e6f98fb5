----------------------------- MODULE MemChannel -----------------------------
(***************************************************************************)
(* One direction of a pair of channels in memory (scl::InMemoryChannel):   *)
(* the thread at one end sends, the thread at the other receives or        *)
(* flushes, and what is between them is a SharedDeque, a queue of buffers  *)
(* under a mutex with a condition variable.  A step is what a thread does  *)
(* while it holds the mutex, or between two such sections.  The bytes are  *)
(* numbered in the order they are sent.                                    *)
(***************************************************************************)
EXTENDS NumberedBytes, SequencesExt

CONSTANTS SendSizes, RecvSizes,  \* the n of the calls of Send and Recv
          MaxItems               \* bound: the buffers in the queue

ASSUME SizesAssumption == SendSizes \subseteq Nat /\ RecvSizes \subseteq Nat
ASSUME ItemsAssumption == MaxItems \in Nat

VARIABLES
  writer,    \* "idle", or "notify": item queued, condition not yet signalled
  deck,      \* mDeck of the deque that is mOut here and mIn there
  reader,    \* pc of the receiving thread; n - rem bytes are in dst
  overflow,  \* mOverflow of the receiving end
  left       \* history: bytes handed to callers of Recv or dropped by Flush

memVars == << nSent, writer, deck, reader, overflow, left >>

Least(a, b) == IF a <= b THEN a ELSE b

First(s, n) == SubSeq(s, 1, n)

Idle == [pc |-> "idle", rem |-> 0, dst |-> << >>]

MemInit ==
  /\ nSent = 0 /\ writer = "idle" /\ deck = << >>
  /\ reader = Idle /\ overflow = << >> /\ left = << >>

-----------------------------------------------------------------------------
(* The sending thread: the item is queued under the mutex, the condition    *)
(* is signalled after the mutex is released.                                *)

\* Fault: an item is queued without a signal.
SendSilently(n) ==
  /\ writer = "idle"
  /\ nSent + n <= MaxBytes /\ Len(deck) < MaxItems
  /\ deck' = Append(deck, Bytes(nSent + 1, nSent + n))
  /\ nSent' = nSent + n
  /\ UNCHANGED << writer, reader, overflow, left >>

PushBack(n) ==
  /\ writer = "idle"
  /\ nSent + n <= MaxBytes /\ Len(deck) < MaxItems
  /\ deck' = Append(deck, Bytes(nSent + 1, nSent + n))
  /\ nSent' = nSent + n
  /\ writer' = "notify"
  /\ UNCHANGED << reader, overflow, left >>

\* notify_one: the one thread that waits, if any, goes on.
Notify ==
  /\ writer = "notify"
  /\ writer' = "idle"
  /\ reader' = IF reader.pc = "asleep" THEN [reader EXCEPT !.pc = "loop"] ELSE reader
  /\ UNCHANGED << nSent, deck, overflow, left >>

-----------------------------------------------------------------------------
(* The receiving thread.                                                    *)

\* What is known when rem bytes are still to come and dst has been filled.
Progress(rem, dst) ==
  IF rem = 0 THEN reader' = Idle /\ left' = left \o dst
             ELSE reader' = [pc |-> "loop", rem |-> rem, dst |-> dst] /\ left' = left

\* Fault: what an earlier call left over is not looked at.
RecvFresh(n) ==
  /\ reader.pc = "idle"
  /\ Progress(n, << >>)
  /\ UNCHANGED << nSent, writer, deck, overflow >>

\* Recv begins with what an earlier call left over.
Recv(n) ==
  /\ reader.pc = "idle"
  /\ LET copied == Least(n, Len(overflow))
     IN  /\ Progress(n - copied, First(overflow, copied))
         /\ overflow' = Past(overflow, copied)
  /\ UNCHANGED << nSent, writer, deck >>

\* Pop finds the queue empty: the thread waits, giving up the mutex.
Wait ==
  /\ reader.pc = "loop" /\ deck = << >>
  /\ reader' = [reader EXCEPT !.pc = "asleep"]
  /\ UNCHANGED << nSent, writer, deck, overflow, left >>

\* A wait may end without a signal; the loop in Pop then looks again.
WakeUp ==
  /\ reader.pc = "asleep"
  /\ reader' = [reader EXCEPT !.pc = "loop"]
  /\ UNCHANGED << nSent, writer, deck, overflow, left >>

\* Fault: it is lost.
SavedNot(data, copied) == overflow

\* What does not fit in dst is saved for later calls.
Saved(data, copied) == overflow \o Past(data, copied)

Pop ==
  /\ reader.pc = "loop" /\ deck # << >>
  /\ deck' = Tail(deck)
  /\ LET data == Head(deck)
         copied == Least(reader.rem, Len(data))
     IN  /\ Progress(reader.rem - copied, reader.dst \o First(data, copied))
         /\ overflow' = Saved(data, copied)
  /\ UNCHANGED << nSent, writer >>

\* Flush: while the queue has a size, pop; then forget the overflow.  Size and
\* PopFront take the mutex one after the other.
FlushSize ==
  /\ reader.pc \in {"idle", "flush"}
  /\ IF deck # << >>
       THEN reader' = [reader EXCEPT !.pc = "flushPop"] /\ UNCHANGED << overflow, left >>
       ELSE reader' = Idle /\ overflow' = << >> /\ left' = left \o overflow \o reader.dst
  /\ UNCHANGED << nSent, writer, deck >>

FlushPop ==
  /\ reader.pc = "flushPop" /\ deck # << >>
  /\ reader' = [reader EXCEPT !.pc = "flush", !.dst = @ \o Head(deck)]
  /\ deck' = Tail(deck)
  /\ UNCHANGED << nSent, writer, overflow, left >>

Flushing == reader.pc \in {"flush", "flushPop"}

Reading == Wait \/ Pop \/ (Flushing /\ FlushSize) \/ FlushPop

MemNext ==
  \/ \E n \in SendSizes : PushBack(n)
  \/ \E n \in RecvSizes : Recv(n)
  \/ Notify \/ Wait \/ WakeUp \/ Pop \/ FlushSize \/ FlushPop

\* A thread that can run does.  Nothing makes the threads call Send or Recv,
\* and nothing makes a wait end without a signal.
MemSpec == MemInit /\ [][MemNext]_memVars /\ WF_memVars(Notify) /\ WF_memVars(Reading)

-----------------------------------------------------------------------------
(* Properties.                                                              *)

\* Every byte sent is in one place: with the callers, in the call that runs, in
\* the overflow or in the queue, and these hold them in the order they were sent.
NothingLost ==
  LET held == IF Flushing THEN overflow \o reader.dst ELSE reader.dst \o overflow
  IN  left \o held \o FlattenSeq(deck) = Bytes(1, nSent)

Available == Len(FlattenSeq(deck))

\* A call of Recv for which enough has been sent returns, though an item is
\* queued and its signal given in two steps; a call of Flush does not wait for a
\* sender, though the size it looks at is of an earlier moment than its pop.
CallsReturn ==
  /\ (reader.pc \in {"loop", "asleep"} /\ reader.rem <= Available) ~> (reader.pc = "idle")
  /\ [](reader.pc = "flushPop" => deck # << >>)

\* The channel is a stream of bytes: what callers get, or have flushed, is what
\* was sent, in order.
Stream == INSTANCE ByteStream WITH Byte <- 1 .. MaxBytes, sent <- Bytes(1, nSent), received <- left
StreamOrder == Stream!Spec
=============================================================================
