------------------------------- MODULE FDPrep -------------------------------
(***************************************************************************)
(* Function-dependent preprocessing (src/src/tp/correlator.cc, the loops   *)
(* over batches in src/src/tp/circuits/offline.cc): from shares that know  *)
(* nothing of the circuit, every party runs a straight line of sends and   *)
(* receives that leaves it with the packed shares the online phase uses,   *)
(* and the owners of inputs and outputs with their masks.  The order of    *)
(* the five phases is that of the experiment (src/experiments/ours.cc).    *)
(*                                                                         *)
(* The function-independent material is given: individual shares of the    *)
(* masks, triples, and shares of zero, of the degrees FIPrep makes them.   *)
(***************************************************************************)
EXTENDS BatchedLayer, Channels, FieldSharing, SequencesExt

CONSTANTS
  Circuit,    \* [gates, inputBatches, layers, outputBatches]
  Scenarios,  \* function-independent material to run with
  None        \* a mask its owner does not know yet

ASSUME PartiesAssumption == NParties >= 2 * BatchSize - 1

gates == Circuit.gates
GateIds == 1 .. Len(gates)

\* The layers of every client and of the multiplications are lists of batches.
ASSUME CircuitAssumption ==
  /\ Circuit.inputBatches \in [Parties -> Layer]
  /\ Circuit.outputBatches \in [Parties -> Layer]
  /\ Circuit.layers \in Seq(Layer)

\* The batches in the order of the loops: layer by layer, client by client.
MultBatches ==
  FlattenSeq([l \in 1 .. Len(Circuit.layers) |->
    [b \in 1 .. Len(Circuit.layers[l]) |-> << "mult", l, b >>]])
OwnedBatches(kind, batches) ==
  FlattenSeq([c \in 1 .. NParties |-> [b \in 1 .. Len(batches[c - 1]) |-> << kind, c - 1, b >>]])
IOBatches == OwnedBatches("input", Circuit.inputBatches) \o OwnedBatches("output", Circuit.outputBatches)

Owner(batch) == batch[2]
Slots(batch) ==
  CASE batch[1] = "mult"   -> Circuit.layers[batch[2]][batch[3]]
    [] batch[1] = "input"  -> Circuit.inputBatches[batch[2]][batch[3]]
    [] batch[1] = "output" -> Circuit.outputBatches[batch[2]][batch[3]]

\* The parents of a gate in a batch; a padding gate is its own parent.
Left(slot)  == IF slot = Pad THEN Pad ELSE gates[slot].left
Right(slot) == IF slot = Pad THEN Pad ELSE gates[slot].right

VARIABLES
  room,       \* the messages a connection holds, at most Capacity
  pc,         \* party -> index of its next instruction
  fi,         \* the function-independent material, shares by party
  collected,  \* party -> the shares it has gathered for the current batch, by side
  resent,     \* P1's new polynomials of the current batch, by side
  opened,     \* party -> recv_share_A, recv_share_B of the current batch
  prep,       \* batch -> party -> [A, B, D], or None
  lambda      \* input or output gate -> its mask at its owner, or None

vars == << room, pc, chan, fi, collected, resent, opened, prep, lambda >>
-----------------------------------------------------------------------------
Sides == << "A", "B" >>
BothSides(op, batch, with) == [s \in 1 .. 2 |-> [op |-> op, batch |-> batch, side |-> Sides[s], peer |-> with]]

PartiesSendP1 == FlattenSeq([i \in DOMAIN MultBatches |-> BothSides("SendMasked", MultBatches[i], 0)])

\* Fault: the last party gets nothing back.
P1SkipsLast ==
  FlattenSeq([i \in DOMAIN MultBatches |->
    FlattenSeq([q \in 1 .. NParties |-> BothSides("P1Collects", MultBatches[i], q - 1)])
    \o FlattenSeq([q \in 1 .. NParties - 1 |-> BothSides("P1Reshares", MultBatches[i], q - 1)])])

P1ReceivesAndSends ==
  FlattenSeq([i \in DOMAIN MultBatches |->
    FlattenSeq([q \in 1 .. NParties |-> BothSides("P1Collects", MultBatches[i], q - 1)])
    \o FlattenSeq([q \in 1 .. NParties |-> BothSides("P1Reshares", MultBatches[i], q - 1)])])

\* Fault: the last batches are sent first.
PartiesSendOwnerBackwards ==
  [i \in DOMAIN IOBatches |->
     LET b == IOBatches[Len(IOBatches) + 1 - i] IN [op |-> "SendToOwner", batch |-> b, peer |-> Owner(b)]]

PartiesSendOwner ==
  [i \in DOMAIN IOBatches |-> [op |-> "SendToOwner", batch |-> IOBatches[i], peer |-> Owner(IOBatches[i])]]

PartiesReceive == FlattenSeq([i \in DOMAIN MultBatches |-> BothSides("ReceiveOpened", MultBatches[i], 0)])

\* Of the batches of others a party receives nothing.
OwnerReceives(p) ==
  FlattenSeq([i \in DOMAIN IOBatches |->
    IF Owner(IOBatches[i]) # p THEN << >> ELSE
      [q \in 1 .. NParties |-> [op |-> "OwnerCollects", batch |-> IOBatches[i], peer |-> q - 1]]])

Program ==
  [p \in Parties |->
     PartiesSendP1
     \o (IF p = 0 THEN P1ReceivesAndSends ELSE << >>)
     \o PartiesSendOwner
     \o PartiesReceive
     \o OwnerReceives(p)]

Finished(p) == pc[p] > Len(Program[p])
Instr(p) == Program[p][pc[p]]
At(p, op) == ~Finished(p) /\ Instr(p).op = op
Advance(p) == pc' = [pc EXCEPT ![p] = @ + 1]
HasRoomFor(p, q) == p = q \/ Len(chan[p][q]) < room
-----------------------------------------------------------------------------
Init ==
  /\ room \in 1 .. Capacity
  /\ pc = [p \in Parties |-> 1]
  /\ chan = NoMessages
  /\ fi \in Scenarios
  /\ collected = [p \in Parties |-> [A |-> << >>, B |-> << >>]]
  /\ resent = [A |-> << >>, B |-> << >>]
  /\ opened = [p \in Parties |-> [A |-> 0, B |-> 0]]
  /\ prep = [i \in Range(MultBatches) |-> [p \in Parties |-> None]]
  /\ lambda = [g \in { g \in GateIds : gates[g].kind \in {"input", "output"} } |-> None]

\* mMapIndShrs after MapCorrToCircuit: shares are drawn for inputs and
\* multiplications, added up for additions, passed on to outputs; a padding
\* gate is in no list and reads as the default, 0.
IndShrs(p) ==
  LET shr[g \in GateIds] ==
        CASE gates[g].kind = "add"    -> (shr[gates[g].left] + shr[gates[g].right]) % P
          [] gates[g].kind = "output" -> shr[gates[g].left]
          [] OTHER -> fi.ind[g][p + 1]
  IN  shr
IndShr(p, slot) == IF slot = Pad THEN 0 ELSE IndShrs(p)[slot]

\* Individual shares packed: sum of e_i * [lambda_i].
PackedShr(p, slots) ==
  MapThenSumSet(LAMBDA i : SharesOfEi(BatchSize, p, i) * IndShr(p, slots[i]), 1 .. BatchSize) % P

\* Fault: the parents of one side for both.
LeftParents(batch, side) == [s \in 1 .. BatchSize |-> Left(Slots(batch)[s])]

ParentsOf(batch, side) ==
  [s \in 1 .. BatchSize |-> IF side = "A" THEN Left(Slots(batch)[s]) ELSE Right(Slots(batch)[s])]

ZeroOf(side) == IF side = "A" THEN "O1" ELSE "O2"

SendMasked(p) ==
  /\ At(p, "SendMasked") /\ HasRoomFor(p, 0)
  /\ LET b == Instr(p).batch
         side == Instr(p).side
     IN  Send(p, 0, (PackedShr(p, ParentsOf(b, side)) + fi[side][b][p + 1]
                     + fi[ZeroOf(side)][b][p + 1]) % P,
              << "masked", b, side >>)
  /\ Advance(p)
  /\ UNCHANGED << room, fi, collected, resent, opened, prep, lambda >>

\* P1 gathers both sides of a batch from everybody and, with the last share of
\* a side, reconstructs and shares anew in the lowest degree.
Resharing(shares) ==
  EvPolyFromSecretsAndDegree(SecretsFromSharesAndLength(shares, BatchSize), BatchSize - 1, << >>)

P1Collects(p) ==
  /\ At(p, "P1Collects")
  /\ Receive(Instr(p).peer, p)
  /\ LET side == Instr(p).side
         shares == Append(collected[p][side], Received(Instr(p).peer, p))
     IN  IF Instr(p).peer = NParties - 1
         THEN /\ collected' = [collected EXCEPT ![p][side] = << >>]
              /\ resent' = [resent EXCEPT ![side] = SharesFromEvPoly(Resharing(shares), NParties)]
         ELSE /\ collected' = [collected EXCEPT ![p][side] = shares]
              /\ UNCHANGED resent
  /\ Advance(p)
  /\ UNCHANGED << room, fi, opened, prep, lambda >>

P1Reshares(p) ==
  /\ At(p, "P1Reshares")
  /\ HasRoomFor(p, Instr(p).peer)
  /\ Send(p, Instr(p).peer, resent[Instr(p).side][Instr(p).peer + 1],
          << "opened", Instr(p).batch, Instr(p).side >>)
  /\ Advance(p)
  /\ UNCHANGED << room, fi, collected, resent, opened, prep, lambda >>

\* Fault: the masks of both sides taken off, their product forgotten.
DeltaWithoutTriple(a, b, packed, m) == (a * b - a * m.B - b * m.A + m.O3 - packed) % P

\* The share of lambda_A * lambda_B - lambda_C from the opened lambda_A + r_A
\* and lambda_B + r_B.
Delta(a, b, packed, m) == (a * b - a * m.B - b * m.A + m.C + m.O3 - packed) % P

Material(p, b) == [f \in {"A", "B", "C", "O3"} |-> fi[f][b][p + 1]]

ReceiveOpened(p) ==
  /\ At(p, "ReceiveOpened")
  /\ Receive(0, p)
  /\ LET b == Instr(p).batch
         got == [opened[p] EXCEPT ![Instr(p).side] = Received(0, p)]
         m == Material(p, b)
     IN  /\ opened' = [opened EXCEPT ![p] = got]
         /\ prep' = IF Instr(p).side = "A" THEN prep ELSE
              [prep EXCEPT ![b][p] =
                 [A |-> (got.A - m.A) % P, B |-> (got.B - m.B) % P,
                  D |-> Delta(got.A, got.B, PackedShr(p, Slots(b)), m)]]
  /\ Advance(p)
  /\ UNCHANGED << room, fi, collected, resent, lambda >>

SendToOwner(p) ==
  /\ At(p, "SendToOwner")
  /\ HasRoomFor(p, Instr(p).peer)
  /\ LET b == Instr(p).batch
     IN  Send(p, Owner(b), (PackedShr(p, Slots(b)) + fi.IO[b][p + 1]) % P, << "mask", b >>)
  /\ Advance(p)
  /\ UNCHANGED << room, fi, collected, resent, opened, prep, lambda >>

\* Fault: the owner takes the masks in the opposite order.
AssignedReversed(slots, secrets) ==
  [g \in DOMAIN lambda |->
     IF \E s \in 1 .. BatchSize : slots[s] = g
     THEN secrets[BatchSize + 1 - (CHOOSE s \in 1 .. BatchSize : slots[s] = g)] ELSE lambda[g]]

Assigned(slots, secrets) ==
  [g \in DOMAIN lambda |->
     IF \E s \in 1 .. BatchSize : slots[s] = g
     THEN secrets[CHOOSE s \in 1 .. BatchSize : slots[s] = g] ELSE lambda[g]]

OwnerCollects(p) ==
  /\ At(p, "OwnerCollects")
  /\ Receive(Instr(p).peer, p)
  /\ LET shares == Append(collected[p].A, Received(Instr(p).peer, p))
     IN  IF Instr(p).peer = NParties - 1
         THEN /\ collected' = [collected EXCEPT ![p].A = << >>]
              /\ lambda' = Assigned(Slots(Instr(p).batch), SecretsFromSharesAndLength(shares, BatchSize))
         ELSE /\ collected' = [collected EXCEPT ![p].A = shares]
              /\ UNCHANGED lambda
  /\ Advance(p)
  /\ UNCHANGED << room, fi, resent, opened, prep >>

Step(p) ==
  \/ SendMasked(p) \/ P1Collects(p) \/ P1Reshares(p) \/ SendToOwner(p)
  \/ ReceiveOpened(p) \/ OwnerCollects(p)

AllFinished == \A p \in Parties : Finished(p)
SomeStep == \E p \in Parties : Step(p)
Next == SomeStep \/ (AllFinished /\ UNCHANGED vars)

Spec == Init /\ [][Next]_vars
-----------------------------------------------------------------------------
\* The mask of a wire: what its individual shares determine.
Mask(slot) ==
  SecretsFromSharesAndLength([i \in 1 .. NParties |-> IndShr(i - 1, slot)], 1)[1]

\* Every receive takes the message sent for it: batches, sides and clients come
\* in the same order at sender and receiver, and phases do not mix.  Nothing is
\* left on a channel for the online phase to mistake for its own.
Expected(i) ==
  CASE i.op = "P1Collects"    -> << "masked", i.batch, i.side >>
    [] i.op = "ReceiveOpened" -> << "opened", i.batch, i.side >>
    [] i.op = "OwnerCollects" -> << "mask", i.batch >>
ReceivesItsOwn ==
  /\ AllFinished => chan = NoMessages
  /\ \A p \in Parties :
       ~Finished(p) /\ Instr(p).op \in {"P1Collects", "ReceiveOpened", "OwnerCollects"} =>
         LET q == Instr(p).peer
         IN  Arrived(q, p) => Head(chan[q][p]).tag = Expected(Instr(p))

\* The packed shares of a batch, once every party has its own, are what Online
\* assumes: the masks of the left and of the right parents in degree n - k,
\* and in degree n - 1 the differences of their products and the own masks.
PrepIsSharing ==
  \A b \in Range(MultBatches) :
    (\A p \in Parties : prep[b][p] # None) =>
      LET shares(f) == [i \in 1 .. NParties |-> prep[b][i - 1][f]]
          a == [s \in 1 .. BatchSize |-> Mask(Left(Slots(b)[s]))]
          c == [s \in 1 .. BatchSize |-> Mask(Right(Slots(b)[s]))]
      IN  /\ IsSharing(shares("A"), a, NParties - BatchSize)
          /\ IsSharing(shares("B"), c, NParties - BatchSize)
          /\ IsSharing(shares("D"), [s \in 1 .. BatchSize |-> (a[s] * c[s] - Mask(Slots(b)[s])) % P],
                       NParties - 1)

\* An owner never holds another mask than that of its wire, and holds all of
\* its own at the end.
OwnersLearnMasks ==
  /\ \A g \in DOMAIN lambda : lambda[g] # None => lambda[g] = Mask(g)
  /\ AllFinished => \A g \in DOMAIN lambda : lambda[g] # None

\* Nobody is in anybody's way for good.
CanMove(p) ==
  ~Finished(p) /\ LET q == Instr(p).peer
                  IN  IF Instr(p).op \in {"P1Collects", "ReceiveOpened", "OwnerCollects"}
                      THEN Arrived(q, p)
                      ELSE HasRoomFor(p, q)

\* What the connections have to hold: for every owner a message for each of
\* its batches, since nobody receives those before having sent its own; and
\* either all that P1 sends anew, or else, P1 being held up when a connection
\* is full, all that a party still has to send to P1 before it receives.
EnoughRoom ==
  LET owned(p) == Cardinality({ i \in DOMAIN IOBatches : Owner(IOBatches[i]) = p })
      total == 2 * Len(MultBatches)
      takenByP1 == 2 * ((room \div 2) + 1)
  IN  /\ \A p \in Parties : owned(p) <= room
      /\ total <= room \/ total + owned(0) <= room + takenByP1

\* The parties come to the end if the connections have room, and only then:
\* the phases send to everybody before they receive from anybody, in one
\* thread.  As every step brings a party nearer to its end, none can go on for
\* ever instead.
RoomDecides ==
  /\ EnoughRoom => AllFinished \/ \E p \in Parties : CanMove(p)
  /\ AllFinished => EnoughRoom
=============================================================================
