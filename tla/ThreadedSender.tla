--------------------------- MODULE ThreadedSender ---------------------------
(***************************************************************************)
(* scl::ThreadedSenderChannel over scl::TcpChannel: Send queues a buffer   *)
(* and returns, a thread of the channel writes what is queued to a socket. *)
(* The owner of the channel sends, closes it and destroys it; the peer     *)
(* reads.  The queue is a SharedDeque, whose operations are steps here     *)
(* (MemChannel has its mutex and condition); a write is one call or more   *)
(* of ::write, each of which takes as much as the socket has room for and  *)
(* at least one byte, waiting for room for that.  Bytes are numbered in    *)
(* the order they are sent.  The peer keeps its end open.                  *)
(***************************************************************************)
EXTENDS NumberedBytes, SequencesExt

CONSTANTS Sizes,      \* the n of calls of Send
          Room,       \* bytes a socket takes that the peer has not read
          MaxCloses,  \* bound: calls of Close
          StopSignal  \* the byte Close queues to wake the thread

ASSUME QueuedAssumption == Sizes \subseteq Nat
ASSUME RoomAssumption == Room \in Nat \ {0} /\ MaxCloses \in Nat
ASSUME StopSignalAssumption == StopSignal \notin 1 .. MaxBytes

VARIABLES
  queue,     \* mSendBuffer
  thread,    \* the sending thread: pc, and rem, what it has yet to write
  owner,     \* where the owner is: "open", in Close, "closed", in the destructor, "gone"
  closes,    \* calls of Close so far
  mAlive, fdOpen,  \* mAlive of mChannel; whether the socket is open
  wire,      \* bytes the socket has taken and the peer has not read
  received   \* what the peer has read

senderVars == << nSent, queue, thread, owner, closes, mAlive, fdOpen, wire, received >>
ownerVars == << nSent, owner, closes, mAlive, fdOpen >>

SenderInit ==
  /\ nSent = 0 /\ queue = << >> /\ thread = [pc |-> "peek", rem |-> << >>]
  /\ owner = "open" /\ closes = 0 /\ mAlive = TRUE /\ fdOpen = TRUE
  /\ wire = << >> /\ received = << >>

-----------------------------------------------------------------------------
(* The owner.                                                               *)

Send(n) ==
  /\ owner = "open" /\ nSent + n <= MaxBytes
  /\ queue' = Append(queue, Bytes(nSent + 1, nSent + n))
  /\ nSent' = nSent + n
  /\ UNCHANGED << thread, owner, closes, mAlive, fdOpen, wire, received >>

\* Close: first the socket, if it has not been closed before ...
CloseSocket ==
  /\ owner \in {"open", "closed"} /\ closes < MaxCloses
  /\ closes' = closes + 1
  /\ IF mAlive THEN owner' = "closing: dead" /\ fdOpen' = FALSE
               ELSE owner' = "closing: wake" /\ UNCHANGED fdOpen
  /\ UNCHANGED << nSent, queue, thread, mAlive, wire, received >>

ClearAlive ==
  /\ owner = "closing: dead"
  /\ mAlive' = FALSE /\ owner' = "closing: wake"
  /\ UNCHANGED << nSent, queue, thread, closes, fdOpen, wire, received >>

\* Fault: the thread is not woken.
WakeNobody ==
  /\ owner = "closing: wake"
  /\ owner' = "closing: wait"
  /\ UNCHANGED << nSent, queue, thread, closes, mAlive, fdOpen, wire, received >>

\* ... then a byte that makes the thread look whether the channel is alive ...
WakeThread ==
  /\ owner = "closing: wake"
  /\ queue' = Append(queue, << StopSignal >>) /\ owner' = "closing: wait"
  /\ UNCHANGED << nSent, thread, closes, mAlive, fdOpen, wire, received >>

\* ... and a wait for the thread, however it ends.
ThreadEnded == thread.pc \in {"returned", "threw"}

JoinThread ==
  /\ owner = "closing: wait" /\ ThreadEnded
  /\ owner' = "closed"
  /\ UNCHANGED << nSent, queue, thread, closes, mAlive, fdOpen, wire, received >>

\* The destructor, of a channel that was closed or that was not: the future of
\* the thread goes first and waits for it, then mChannel closes its socket.
Destroy ==
  /\ owner \in {"open", "closed"}
  /\ owner' = "destroying"
  /\ UNCHANGED << nSent, queue, thread, closes, mAlive, fdOpen, wire, received >>

DestroyRest ==
  /\ owner = "destroying" /\ ThreadEnded
  /\ owner' = "gone" /\ mAlive' = FALSE /\ fdOpen' = FALSE
  /\ UNCHANGED << nSent, queue, thread, closes, wire, received >>

-----------------------------------------------------------------------------
(* The sending thread.                                                      *)

\* Peek waits for an item and leaves it in the queue.
Peek ==
  /\ thread.pc = "peek" /\ queue # << >>
  /\ thread' = [pc |-> "check", rem |-> Head(queue)]
  /\ UNCHANGED << ownerVars, queue, wire, received >>

CheckAlive ==
  /\ thread.pc = "check"
  /\ thread' = [thread EXCEPT !.pc = IF mAlive THEN "write" ELSE "returned"]
  /\ UNCHANGED << ownerVars, queue, wire, received >>

\* A call of ::write.  On a socket that is closed it fails, and TcpChannel::Send
\* throws; the future keeps the exception and nobody asks for it.
CallWrite ==
  /\ thread.pc = "write" /\ thread.rem # << >>
  /\ thread' = [thread EXCEPT !.pc = IF fdOpen THEN "in write" ELSE "threw"]
  /\ UNCHANGED << ownerVars, queue, wire, received >>

\* Fault: the bytes a call of ::write did not take are not written.
WriteOnce ==
  /\ thread.pc = "in write"
  /\ \E n \in 1 .. Len(thread.rem) :
       /\ Len(wire) + n <= Room
       /\ wire' = wire \o SubSeq(thread.rem, 1, n)
       /\ thread' = [pc |-> "write", rem |-> << >>]
  /\ UNCHANGED << ownerVars, queue, received >>

\* A call that has begun ends even if the socket is closed in the meantime.
FinishWrite ==
  /\ thread.pc = "in write"
  /\ \E n \in 1 .. Len(thread.rem) :
       /\ Len(wire) + n <= Room
       /\ wire' = wire \o SubSeq(thread.rem, 1, n)
       /\ thread' = [pc |-> "write", rem |-> Past(thread.rem, n)]
  /\ UNCHANGED << ownerVars, queue, received >>

\* Fault: the item stays.
PopNothing ==
  /\ thread.pc = "write" /\ thread.rem = << >>
  /\ thread' = [thread EXCEPT !.pc = "peek"]
  /\ UNCHANGED << ownerVars, queue, wire, received >>

PopFront ==
  /\ thread.pc = "write" /\ thread.rem = << >>
  /\ queue' = Tail(queue)
  /\ thread' = [thread EXCEPT !.pc = "peek"]
  /\ UNCHANGED << ownerVars, wire, received >>

SenderThread == Peek \/ CheckAlive \/ CallWrite \/ FinishWrite \/ PopFront

\* The peer calls TcpChannel::Recv, which takes as much as there is at a time.
PeerReads ==
  /\ \E n \in 1 .. Len(wire) :
       received' = received \o SubSeq(wire, 1, n) /\ wire' = Past(wire, n)
  /\ UNCHANGED << ownerVars, queue, thread >>

Closing == ClearAlive \/ WakeThread \/ JoinThread

SenderNext ==
  \/ \E n \in Sizes : Send(n)
  \/ CloseSocket \/ Closing \/ Destroy \/ DestroyRest
  \/ SenderThread \/ PeerReads

\* Threads run, the peer reads what it is sent, a call of the owner goes on.
\* Nothing makes the owner send, close or destroy.
SenderSpec ==
  SenderInit /\ [][SenderNext]_senderVars
       /\ WF_senderVars(SenderThread) /\ WF_senderVars(Closing) /\ WF_senderVars(DestroyRest) /\ WF_senderVars(PeerReads)

-----------------------------------------------------------------------------
(* Properties.                                                              *)

\* What the thread has taken up is still in front of the queue: what is yet to
\* be written is the rest of it and the items behind.
Unwritten ==
  IF thread.pc = "peek" THEN FlattenSeq(queue) ELSE thread.rem \o FlattenSeq(Tail(queue))

\* As long as the channel is not being closed, every byte sent is read, on the
\* wire or yet to be written, and in the order it was sent.
NothingLostWhileOpen ==
  owner = "open" => received \o wire \o Unwritten = Bytes(1, nSent)

\* Also while it is closed and after that, what the peer reads is what was sent,
\* from the beginning, with no gap, and without the byte that stops the thread.
Peer == INSTANCE ByteStream WITH Byte <- 1 .. MaxBytes, sent <- Bytes(1, nSent)
PeerReadsStream == Peer!Spec

\* Close returns, whatever the thread was doing, and any number of times.
CloseReturns == (owner = "closing: dead" \/ owner = "closing: wake") ~> (owner = "closed")
=============================================================================
