-------------------------------- MODULE DN07 --------------------------------
(***************************************************************************)
(* The baseline protocol (class DN07, src/src/tp/dn07.cc), run by all      *)
(* parties at once in the order of its experiment (src/experiments/        *)
(* dn07.cc).  Every wire is shared in degree t among all parties.  Only    *)
(* the first t + 1 take part online: what the others contribute to a       *)
(* multiplication they send to P1 beforehand, since P1 and the owners      *)
(* share what they open so that these others' shares are 0.                *)
(*                                                                         *)
(* A party's program is a sequence of phases.  In the preparation, and     *)
(* twice in every layer of multiplications, a thread is started that sends *)
(* while the main one receives, and is joined before the next phase.  A    *)
(* step is one send or receive; of the preparation it is a block, one or   *)
(* two messages to or from everybody.                                      *)
(***************************************************************************)
EXTENDS Channels, FieldSharing, SequencesExt

CONSTANTS
  Threshold,  \* t
  Circuit,    \* [gates, inputs, layers, outputs], lists by owner and by layer
  Scenarios,  \* inputs and random values to run with
  None        \* nothing yet

\* What the constructor lets through.
ASSUME ThresholdAssumption == Threshold \in Nat /\ NParties > 2 * Threshold

gates == Circuit.gates
GateIds == 1 .. Len(gates)
OfKind(kind) == { g \in GateIds : gates[g].kind = kind }

ByOwner(lists) == FlattenSeq([c \in 1 .. NParties |-> lists[c - 1]])
FlatInputs == ByOwner(Circuit.inputs)
FlatMults == FlattenSeq(Circuit.layers)
FlatOutputs == ByOwner(Circuit.outputs)

\* The lists of the circuit, in which a gate is its owner's.
ASSUME CircuitAssumption ==
  /\ Circuit.inputs \in [Parties -> Seq(GateIds)] /\ Circuit.outputs \in [Parties -> Seq(GateIds)]
  /\ Circuit.layers \in Seq(Seq(GateIds))
  /\ \A c \in Parties : \A g \in Range(Circuit.inputs[c]) \cup Range(Circuit.outputs[c]) : gates[g].owner = c

VARIABLES
  phase,         \* party -> index of its phase
  at,            \* party -> for each of its threads, index of the next instruction
  input,         \* input gate -> what its owner provides
  draws,         \* what the parties draw: draws[party][block]
  rShrs,         \* party -> mRShrs
  dShrs,         \* party -> mDShrs
  share,         \* party -> mDn07Share of input and multiplication gates
  collected,     \* party -> shares gathered for the current gate
  fromLast,      \* mMapP1SharesFromLast
  toSend,        \* mP1SharesToSend
  masked,        \* party -> shares of its masked input to send
  value          \* output gate -> mMapResults of its owner

prepVars == << draws, rShrs, dShrs >>
onlineVars == << share, collected, fromLast, toSend, masked, value >>
vars == << phase, at, prepVars, onlineVars, chan, input >>
-----------------------------------------------------------------------------
BlocksOf(amount) == (amount + Threshold) \div (Threshold + 1)

\* The blocks of the preparation: random shares, then double ones.
Blocks ==
  [i \in 1 .. BlocksOf(Len(FlatInputs)) |-> "random"]
  \o [i \in 1 .. BlocksOf(Len(FlatMults)) |-> "double"]

\* Fault: the second sharing is of a secret of its own.
DegreesOfItsOwn(draw) ==
  << EvPolyFromSecretAndDegree(draw.secret, Threshold, draw.low),
     EvPolyFromSecretAndDegree(draw.secret + 1, 2 * Threshold, draw.high) >>

\* A secret in degree t, and the same in degree 2t.
Degrees(draw) ==
  << EvPolyFromSecretAndDegree(draw.secret, Threshold, draw.low),
     EvPolyFromSecretAndDegree(draw.secret, 2 * Threshold, draw.high) >>

Dealt(kind, draw) == IF kind = "random" THEN << Degrees(draw)[1] >> ELSE Degrees(draw)

-----------------------------------------------------------------------------
\* Who takes part online, the first t + 1, and who does not.
First == 0 .. Threshold
IsFirst(p) == p \in First
Each(gateSeq, op(_)) == FlattenSeq([i \in DOMAIN gateSeq |-> op(gateSeq[i])])
Single(op, g, q) == << [op |-> op, gate |-> g, peer |-> q] >>
WithFirst(op, g) == [i \in 1 .. Threshold + 1 |-> [op |-> op, gate |-> g, peer |-> i - 1]]
WithLast(op, g) ==
  [i \in 1 .. NParties - Threshold - 1 |-> [op |-> op, gate |-> g, peer |-> Threshold + i]]

FDMult(p) ==
  IF p = 0 THEN Each(FlatMults, LAMBDA g : WithLast("FDMultP1Receives", g) \o Single("FDMultP1Queues", g, None))
  ELSE IF IsFirst(p) THEN << >>
  ELSE Single("SetInputShares", None, None)
       \o Each(FlatMults, LAMBDA g : Single("FDMultPartiesSendP1", g, 0))

OwnersReceiveAndSend(p) ==
  Each(Circuit.inputs[p], LAMBDA g : WithFirst("InputOwnersReceive", g) \o WithFirst("InputOwnersSend", g))

InputProtocol(p) ==
  (IF IsFirst(p) THEN Each(FlatInputs, LAMBDA g : Single("InputPartiesSendOwners", g, gates[g].owner))
   ELSE << >>)
  \o OwnersReceiveAndSend(p)
  \o (IF IsFirst(p) THEN Each(FlatInputs, LAMBDA g : Single("InputPartiesReceive", g, gates[g].owner))
      ELSE << >>)

P1Receives(layer) == Each(layer, LAMBDA g : WithFirst("MultP1Receives", g))
P1Sends(layer) == Each(layer, LAMBDA g : WithFirst("MultP1SendsParties", g))

\* What the started thread does beside the main one.
Beside(thread, main) == [thread |-> thread, main |-> main]
Alone(main) == Beside(<< >>, main)

\* Who takes no part starts threads that find nothing to do; they are left out.
MultProtocol(p, layer) ==
  IF ~IsFirst(p) THEN << >>
  ELSE << Beside(Each(layer, LAMBDA g : Single("MultPartiesSendP1", g, 0)),
                 IF p = 0 THEN P1Receives(layer) ELSE << >>),
          Beside(IF p = 0 THEN P1Sends(layer) ELSE << >>,
                 Each(layer, LAMBDA g : Single("MultPartiesReceive", g, 0))) >>

\* Fault: the last output first.
OwnersReceiveBackwards(p) == Each(Reverse(Circuit.outputs[p]), LAMBDA g : WithFirst("OutputOwnersReceive", g))

OwnersReceive(p) == Each(Circuit.outputs[p], LAMBDA g : WithFirst("OutputOwnersReceive", g))

OutputProtocol(p) ==
  (IF IsFirst(p) THEN Each(FlatOutputs, LAMBDA g : Single("OutputPartiesSendOwners", g, gates[g].owner))
   ELSE << >>)
  \o OwnersReceive(p)

Prep(op) == [b \in DOMAIN Blocks |-> [op |-> op, block |-> b]]

Program ==
  [p \in Parties |->
     << Beside(Prep("PrepPartiesSend"), Prep("PrepPartiesReceive")), Alone(FDMult(p) \o InputProtocol(p)) >>
     \o FlattenSeq([l \in DOMAIN Circuit.layers |-> MultProtocol(p, Circuit.layers[l])])
     \o << Alone(OutputProtocol(p)) >>]

Threads == {"thread", "main"}
Starting == [th \in Threads |-> 1]

Finished(p) == phase[p] > Len(Program[p])
Code(p, th) == Program[p][phase[p]][th]
Through(p, th) == at[p][th] > Len(Code(p, th))
Instr(p, th) == Code(p, th)[at[p][th]]
At(p, th, op) == ~Finished(p) /\ ~Through(p, th) /\ Instr(p, th).op = op
Proceed(p, th) == at' = [at EXCEPT ![p][th] = @ + 1] /\ UNCHANGED << phase, draws, input >>
Advance(p, th) == Proceed(p, th) /\ UNCHANGED << rShrs, dShrs >>

\* The started thread is joined.
Join(p) ==
  /\ ~Finished(p) /\ \A th \in Threads : Through(p, th)
  /\ phase' = [phase EXCEPT ![p] = @ + 1]
  /\ at' = [at EXCEPT ![p] = Starting]
  /\ UNCHANGED << prepVars, onlineVars, chan, input >>
-----------------------------------------------------------------------------
Init ==
  \E sc \in Scenarios :
    /\ phase = [p \in Parties |-> 1]
    /\ at = [p \in Parties |-> Starting]
    /\ chan = NoMessages
    /\ input = sc.input
    /\ draws = sc.draws
    /\ rShrs = [p \in Parties |-> << >>]
    /\ dShrs = [p \in Parties |-> << >>]
    /\ share = [p \in Parties |-> [g \in OfKind("input") \cup OfKind("mult") |-> None]]
    /\ collected = [p \in Parties |-> << >>]
    /\ fromLast = << >>
    /\ toSend = << >>
    /\ masked = [p \in Parties |-> << >>]
    /\ value = [g \in OfKind("output") |-> None]

PrepPartiesSend(p, th) ==
  /\ At(p, th, "PrepPartiesSend")
  /\ LET b == Instr(p, th).block
         polys == Dealt(Blocks[b], draws[p][b])
         shares == [d \in DOMAIN polys |-> SharesFromEvPoly(polys[d], NParties)]
     IN  SendEach(p, [q \in Parties |-> [d \in DOMAIN polys |->
                        [val |-> shares[d][q + 1], tag |-> << "prep", b, d >>]]])
  /\ Advance(p, th)
  /\ UNCHANGED onlineVars

Vandermonde(q, s) == IF s = 0 THEN 1 ELSE (q ^ s) % P

\* t + 1 shares out of one from each party.
Mixed(p, d) ==
  [s \in 1 .. Threshold + 1 |->
     MapThenSumSet(LAMBDA q : Vandermonde(q, s - 1) * chan[q][p][d].val, Parties) % P]

PrepPartiesReceive(p, th) ==
  /\ At(p, th, "PrepPartiesReceive")
  /\ IF Blocks[Instr(p, th).block] = "random"
     THEN /\ ReceiveEach(p, 1)
          /\ rShrs' = [rShrs EXCEPT ![p] = @ \o Mixed(p, 1)]
          /\ UNCHANGED dShrs
     ELSE /\ ReceiveEach(p, 2)
          /\ dShrs' = [dShrs EXCEPT ![p] = @ \o [s \in 1 .. Threshold + 1 |->
                         [shr |-> Mixed(p, 1)[s], dshr |-> Mixed(p, 2)[s]]]]
          /\ UNCHANGED rShrs
  /\ Proceed(p, th)
  /\ UNCHANGED onlineVars

\* FDMapPrepToGates: what was made is used up in the order of the gates.
NumberIn(list, g) == CHOOSE i \in DOMAIN list : list[i] = g
Random(p, g) == rShrs[p][NumberIn(FlatInputs, g)]
Double(p, g) == dShrs[p][NumberIn(FlatMults, g)]

\* GetDn07Share: set for inputs and multiplications, derived for the others.
\* It throws where it is not set.
IsSet(p) ==
  LET known[g \in GateIds] ==
        CASE gates[g].kind = "add"    -> known[gates[g].left] /\ known[gates[g].right]
          [] gates[g].kind = "output" -> known[gates[g].left]
          [] OTHER -> share[p][g] # None
  IN  known

ShareOf(p) ==
  LET shr[g \in GateIds] ==
        CASE gates[g].kind = "add"    -> (shr[gates[g].left] + shr[gates[g].right]) % P
          [] gates[g].kind = "output" -> shr[gates[g].left]
          [] OTHER -> share[p][g]
  IN  shr

\* A share, in degree 2t, of the product of a multiplication's parents minus
\* a random value.
MaskedProduct(p, g) ==
  (ShareOf(p)[gates[g].left] * ShareOf(p)[gates[g].right] - Double(p, g).dshr) % P
ParentsSet(p, g) == IsSet(p)[gates[g].left] /\ IsSet(p)[gates[g].right]

\* Fault: the shares of the first t parties are 0.
OpenedToFirst(secret) ==
  [x |-> [i \in 1 .. Threshold + 1 |-> i - 1],
   y |-> [i \in 1 .. Threshold + 1 |-> IF i = 1 THEN secret ELSE 0]]

\* The polynomial of degree t for a value that is no secret: 0 at the points of
\* the last t parties.
Opened(secret) ==
  [x |-> [i \in 1 .. Threshold + 1 |-> IF i = 1 THEN 0 ELSE NParties - Threshold + i - 1],
   y |-> [i \in 1 .. Threshold + 1 |-> IF i = 1 THEN secret ELSE 0]]
OpenedShares(secret) == SharesFromEvPoly(Opened(secret), Threshold + 1)

SetInputShares(p, th) ==
  /\ At(p, th, "SetInputShares")
  /\ share' = [share EXCEPT ![p] =
                 [g \in DOMAIN @ |-> IF gates[g].kind = "input" THEN Random(p, g) ELSE @[g]]]
  /\ Advance(p, th)
  /\ UNCHANGED << chan, collected, fromLast, toSend, masked, value >>

FDMultPartiesSendP1(p, th) ==
  /\ At(p, th, "FDMultPartiesSendP1")
  /\ LET g == Instr(p, th).gate
     IN  /\ ParentsSet(p, g)
         /\ Send(p, 0, MaskedProduct(p, g), << "last", g >>)
         /\ share' = [share EXCEPT ![p][g] = Double(p, g).shr]
  /\ Advance(p, th)
  /\ UNCHANGED << collected, fromLast, toSend, masked, value >>

FDMultP1Receives(p, th) ==
  /\ At(p, th, "FDMultP1Receives")
  /\ Receive(Instr(p, th).peer, p)
  /\ collected' = [collected EXCEPT ![p] = Append(@, Received(Instr(p, th).peer, p))]
  /\ Advance(p, th)
  /\ UNCHANGED << share, fromLast, toSend, masked, value >>

\* What the last parties have sent for a gate waits for the others' shares.
FDMultP1Queues(p, th) ==
  /\ At(p, th, "FDMultP1Queues")
  /\ fromLast' = Append(fromLast, collected[p])
  /\ collected' = [collected EXCEPT ![p] = << >>]
  /\ Advance(p, th)
  /\ UNCHANGED << chan, share, toSend, masked, value >>

InputPartiesSendOwners(p, th) ==
  /\ At(p, th, "InputPartiesSendOwners")
  /\ Send(p, Instr(p, th).peer, Random(p, Instr(p, th).gate), << "mask", Instr(p, th).gate >>)
  /\ Advance(p, th)
  /\ UNCHANGED << share, collected, fromLast, toSend, masked, value >>

InputOwnersReceive(p, th) ==
  /\ At(p, th, "InputOwnersReceive")
  /\ Receive(Instr(p, th).peer, p)
  /\ LET shares == Append(collected[p], Received(Instr(p, th).peer, p))
     IN  IF Instr(p, th).peer = Threshold
         THEN /\ masked' = [masked EXCEPT ![p] =
                              OpenedShares((input[Instr(p, th).gate] - SecretFromShares(shares)) % P)]
              /\ collected' = [collected EXCEPT ![p] = << >>]
         ELSE /\ collected' = [collected EXCEPT ![p] = shares]
              /\ UNCHANGED masked
  /\ Advance(p, th)
  /\ UNCHANGED << share, fromLast, toSend, value >>

InputOwnersSend(p, th) ==
  /\ At(p, th, "InputOwnersSend")
  /\ Send(p, Instr(p, th).peer, masked[p][Instr(p, th).peer + 1], << "input", Instr(p, th).gate >>)
  /\ Advance(p, th)
  /\ UNCHANGED << share, collected, fromLast, toSend, masked, value >>

InputPartiesReceive(p, th) ==
  /\ At(p, th, "InputPartiesReceive")
  /\ LET g == Instr(p, th).gate
     IN  /\ Receive(Instr(p, th).peer, p)
         /\ share' = [share EXCEPT ![p][g] = (Received(Instr(p, th).peer, p) + Random(p, g)) % P]
  /\ Advance(p, th)
  /\ UNCHANGED << collected, fromLast, toSend, masked, value >>

MultPartiesSendP1(p, th) ==
  /\ At(p, th, "MultPartiesSendP1")
  /\ ParentsSet(p, Instr(p, th).gate)
  /\ Send(p, 0, MaskedProduct(p, Instr(p, th).gate), << "product", Instr(p, th).gate >>)
  /\ Advance(p, th)
  /\ UNCHANGED << share, collected, fromLast, toSend, masked, value >>

\* With the share of the last of the first t + 1, and those the others have
\* sent for this gate, P1 reconstructs.
MultP1Receives(p, th) ==
  /\ At(p, th, "MultP1Receives")
  /\ Receive(Instr(p, th).peer, p)
  /\ LET shares == Append(collected[p], Received(Instr(p, th).peer, p))
     IN  IF Instr(p, th).peer = Threshold
         THEN /\ toSend' = Append(toSend, OpenedShares(SecretFromShares(shares \o Head(fromLast))))
              /\ fromLast' = Tail(fromLast)
              /\ collected' = [collected EXCEPT ![p] = << >>]
         ELSE /\ collected' = [collected EXCEPT ![p] = shares]
              /\ UNCHANGED << toSend, fromLast >>
  /\ Advance(p, th)
  /\ UNCHANGED << share, masked, value >>

MultP1SendsParties(p, th) ==
  /\ At(p, th, "MultP1SendsParties")
  /\ LET q == Instr(p, th).peer
     IN  /\ Send(p, q, Head(toSend)[q + 1], << "opened", Instr(p, th).gate >>)
         /\ toSend' = IF q = Threshold THEN Tail(toSend) ELSE toSend
  /\ Advance(p, th)
  /\ UNCHANGED << share, collected, fromLast, masked, value >>

MultPartiesReceive(p, th) ==
  /\ At(p, th, "MultPartiesReceive")
  /\ LET g == Instr(p, th).gate
     IN  /\ Receive(0, p)
         /\ share' = [share EXCEPT ![p][g] = (Received(0, p) + Double(p, g).shr) % P]
  /\ Advance(p, th)
  /\ UNCHANGED << collected, fromLast, toSend, masked, value >>

OutputPartiesSendOwners(p, th) ==
  /\ At(p, th, "OutputPartiesSendOwners")
  /\ IsSet(p)[Instr(p, th).gate]
  /\ Send(p, Instr(p, th).peer, ShareOf(p)[Instr(p, th).gate], << "output", Instr(p, th).gate >>)
  /\ Advance(p, th)
  /\ UNCHANGED << share, collected, fromLast, toSend, masked, value >>

OutputOwnersReceive(p, th) ==
  /\ At(p, th, "OutputOwnersReceive")
  /\ Receive(Instr(p, th).peer, p)
  /\ LET shares == Append(collected[p], Received(Instr(p, th).peer, p))
     IN  IF Instr(p, th).peer = Threshold
         THEN /\ value' = [value EXCEPT ![Instr(p, th).gate] = SecretFromShares(shares)]
              /\ collected' = [collected EXCEPT ![p] = << >>]
         ELSE /\ collected' = [collected EXCEPT ![p] = shares]
              /\ UNCHANGED value
  /\ Advance(p, th)
  /\ UNCHANGED << share, fromLast, toSend, masked >>

Step(p, th) ==
  \/ PrepPartiesSend(p, th) \/ PrepPartiesReceive(p, th)
  \/ SetInputShares(p, th) \/ FDMultPartiesSendP1(p, th) \/ FDMultP1Receives(p, th) \/ FDMultP1Queues(p, th)
  \/ InputPartiesSendOwners(p, th) \/ InputOwnersReceive(p, th) \/ InputOwnersSend(p, th)
  \/ InputPartiesReceive(p, th)
  \/ MultPartiesSendP1(p, th) \/ MultP1Receives(p, th) \/ MultP1SendsParties(p, th) \/ MultPartiesReceive(p, th)
  \/ OutputPartiesSendOwners(p, th) \/ OutputOwnersReceive(p, th)

AllFinished == \A p \in Parties : Finished(p)
SomeStep == \E p \in Parties : Join(p) \/ \E th \in Threads : Step(p, th)
Next == SomeStep \/ (AllFinished /\ UNCHANGED vars)

\* A party is a process of its own, which nothing stops but its channels.  As
\* every program is finite it is enough that some thread that can go on does.
Spec == Init /\ [][Next]_vars /\ WF_vars(SomeStep)
-----------------------------------------------------------------------------
Expects(i) ==
  CASE i.op = "FDMultP1Receives"    -> << "last", i.gate >>
    [] i.op = "InputOwnersReceive"  -> << "mask", i.gate >>
    [] i.op = "InputPartiesReceive" -> << "input", i.gate >>
    [] i.op = "MultP1Receives"      -> << "product", i.gate >>
    [] i.op = "MultPartiesReceive"  -> << "opened", i.gate >>
    [] i.op = "OutputOwnersReceive" -> << "output", i.gate >>

\* What a receive is to take from q, message by message.
Expected(i, q) ==
  IF i.op = "PrepPartiesReceive"
  THEN [d \in 1 .. (IF Blocks[i.block] = "random" THEN 1 ELSE 2) |-> << "prep", i.block, d >>]
  ELSE IF i.peer = q THEN << Expects(i) >> ELSE << >>
ReceiveOps ==
  {"PrepPartiesReceive", "FDMultP1Receives", "InputOwnersReceive", "InputPartiesReceive",
   "MultP1Receives", "MultPartiesReceive", "OutputOwnersReceive"}
Receives(p, th) == ~Finished(p) /\ ~Through(p, th) /\ Instr(p, th).op \in ReceiveOps

\* Every receive takes the messages sent for it: blocks and gates come in the
\* same order at sender and receiver, the phases one after the other.  Nothing
\* is left, on a channel or in P1's queues, for another run.
ReceivesItsOwn ==
  /\ AllFinished => chan = NoMessages /\ fromLast = << >> /\ toSend = << >>
  /\ \A p, q \in Parties : \A th \in Threads :
       Receives(p, th) =>
         LET tags == Expected(Instr(p, th), q)
         IN  \A d \in DOMAIN tags : d <= Len(chan[q][p]) => chan[q][p][d].tag = tags[d]

Ideal == INSTANCE IdealEvaluation

\* Once everybody has a share of a wire, the shares are a sharing of degree t
\* of the wire's value in the clear; those of the parties that take no part
\* online, which were fixed before the inputs, included.
WiresAreShared ==
  \A g \in GateIds :
    (\A p \in Parties : IsSet(p)[g]) =>
      IsSharing([i \in 1 .. NParties |-> ShareOf(i - 1)[g]], << Ideal!Clear[g] >>, Threshold)

\* The protocol computes the circuit: outputs only ever appear with the value
\* in the clear, and all of them do.
ComputesTheCircuit == Ideal!Spec

\* An owner never holds another output than the circuit has in the clear.
OutputsRight ==
  \A g \in OfKind("output") : value[g] # None => value[g] = Ideal!Clear[g]
=============================================================================
