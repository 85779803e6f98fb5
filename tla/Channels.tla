------------------------------ MODULE Channels ------------------------------
(***************************************************************************)
(* The network as a protocol sees it (scl::Network, scl::Channel): between *)
(* any two parties an ordered, reliable channel each way, and a queue in   *)
(* memory from a party to itself.  A send to another party may have to     *)
(* wait, since a TCP connection holds only so much that nobody has read;   *)
(* Capacity counts that in messages.  Channels in memory have no limit,    *)
(* which a Capacity no run reaches stands for.                             *)
(*                                                                         *)
(* A message is a value.  The tag that goes with it says what it was sent  *)
(* for: it exists for the properties, no step of a protocol looks at it.   *)
(***************************************************************************)
EXTENDS Integers, Sequences

CONSTANTS NParties,  \* n
          Capacity   \* messages a channel between two parties holds

ASSUME NPartiesAssumption == NParties \in Nat \ {0}
ASSUME CapacityAssumption == Capacity \in Nat \ {0}

Parties == 0 .. NParties - 1

VARIABLE chan  \* chan[p][q]: what p has sent to q and q has not received

NoMessages == [p \in Parties |-> [q \in Parties |-> << >>]]

Send(p, q, val, tag) ==
  /\ p = q \/ Len(chan[p][q]) < Capacity
  /\ chan' = [chan EXCEPT ![p][q] = Append(@, [val |-> val, tag |-> tag])]

Arrived(q, p) == chan[q][p] # << >>

Received(q, p) == Head(chan[q][p]).val

\* Receiving waits until there is something to receive.
Receive(q, p) ==
  /\ Arrived(q, p)
  /\ chan' = [chan EXCEPT ![q][p] = Tail(@)]

\* Several messages at once, msgs[q] to every party q, where there is room for
\* all of them; several received at once, when so many have arrived from all.
SendEach(p, msgs) ==
  /\ \A q \in Parties : p = q \/ Len(chan[p][q]) + Len(msgs[q]) <= Capacity
  /\ chan' = [chan EXCEPT ![p] = [q \in Parties |-> chan[p][q] \o msgs[q]]]

ReceiveEach(p, count) ==
  /\ \A q \in Parties : Len(chan[q][p]) >= count
  /\ chan' = [q \in Parties |-> [chan[q] EXCEPT ![p] = SubSeq(@, count + 1, Len(@))]]
=============================================================================
