------------------------------- MODULE Online -------------------------------
(***************************************************************************)
(* The online phase: every party runs Circuit::RunProtocol                 *)
(* (src/src/tp/circuits/online.cc) on its own copy of the circuit, over    *)
(* one ordered channel to and from every party.  A party is a straight     *)
(* line of sends and receives, read off the loops over clients, layers and *)
(* batches; only a receive from an empty channel, or a send to a full one, *)
(* makes it wait.  Messages are bare field elements: what one is for is    *)
(* known from its position on its channel and nothing else.                *)
(*                                                                         *)
(* P1 (party 0) learns mu = value - lambda of every wire; the lambdas are  *)
(* packed-shared by the preprocessing, of which this module takes any      *)
(* outcome that shares the right values in the right degrees.              *)
(***************************************************************************)
EXTENDS BatchedLayer, Channels, FieldSharing, SequencesExt

CONSTANTS
  Circuit,    \* [gates, inputs, layers, outputs], as CircuitBuilder makes one
  Scenarios,  \* inputs, masks and randomness of the preprocessing to run with
  None        \* a value not known yet

ASSUME PartiesAssumption == NParties >= 2 * BatchSize - 1

gates == Circuit.gates
GateIds == 1 .. Len(gates)

ASSUME CircuitAssumption ==
  /\ Circuit.inputs \in [Parties -> Seq(GateIds)]
  /\ Circuit.outputs \in [Parties -> Seq(GateIds)]
  /\ Circuit.layers \in Seq(Layer)

OfKind(kind) == { g \in GateIds : gates[g].kind = kind }
Batches == UNION { { << l, b >> : b \in 1 .. Len(Circuit.layers[l]) } :
                     l \in 1 .. Len(Circuit.layers) }
Slots(b) == Circuit.layers[b[1]][b[2]]

GatesOf(b) == { Slots(b)[s] : s \in 1 .. BatchSize } \cap GateIds

\* A gate is in one place, as CircuitBuilder has it: given to its owner's list
\* or to a batch of its layer when it is made, and never again.
ASSUME GatesOnceAssumption ==
  /\ \A c \in Parties : IsInjective(Circuit.inputs[c])
  /\ \A c, d \in Parties : c # d => Range(Circuit.inputs[c]) \cap Range(Circuit.inputs[d]) = {}
  /\ \A b, d \in Batches : b # d => GatesOf(b) \cap GatesOf(d) = {}
  /\ \A b \in Batches, c \in Parties : GatesOf(b) \cap Range(Circuit.inputs[c]) = {}

\* The parents of a gate in a batch; a padding gate is its own parent.
Left(slot)  == IF slot = Pad THEN Pad ELSE gates[slot].left
Right(slot) == IF slot = Pad THEN Pad ELSE gates[slot].right

VARIABLES
  pc,         \* party -> index of its next instruction
  input,      \* mValue of the input gates
  lambda,     \* mLambda of every wire, the sums and the outputs included
  prep,       \* batch -> shares of lambda_A, lambda_B and delta_C, by party
  mu,         \* mMu of the input and multiplication gates at P1, or None
  shrMu,      \* party -> batch -> << mPackedShrMuA, mPackedShrMuB >>
  collected,  \* the local `shares' of P1Receives
  value       \* mValue of the output gates at their owners, or None

given == << input, lambda, prep >>
vars  == << pc, chan, given, mu, shrMu, collected, value >>
-----------------------------------------------------------------------------
\* The instructions of party p, in the order of RunInput, RunMult of every
\* layer and RunOutput.
InputProgram(p) ==
  [j \in 1 .. Len(Circuit.inputs[p]) |-> [op |-> "OwnerSendsP1", gate |-> Circuit.inputs[p][j]]]
  \o (IF p # 0 THEN << >> ELSE
      FlattenSeq([c \in 1 .. NParties |->
        [j \in 1 .. Len(Circuit.inputs[c - 1]) |->
           [op |-> "P1Receives", gate |-> Circuit.inputs[c - 1][j], from |-> c - 1]]]))

\* A phase of a layer is run for all its batches before the next phase is.
EachBatch(l, phase(_)) ==
  FlattenSeq([b \in 1 .. Len(Circuit.layers[l]) |-> phase(<< l, b >>)])

P1SendsBatch(b) ==
  [i \in 1 .. 2 * NParties |->
     [op |-> "P1SendsShare", batch |-> b, to |-> (i - 1) \div 2, side |-> ((i - 1) % 2) + 1]]

\* Fault: the left shares of all batches go before the right ones.
P1SendsBySide(l) ==
  LET side(s) == EachBatch(l, LAMBDA b : SelectSeq(P1SendsBatch(b), LAMBDA i : i.side = s))
  IN  side(1) \o side(2)

P1Sends(l) == EachBatch(l, P1SendsBatch)

PartiesReceive(l) ==
  EachBatch(l, LAMBDA b : [s \in 1 .. 2 |-> [op |-> "PartyReceivesShare", batch |-> b, side |-> s]])

PartiesSend(l) == EachBatch(l, LAMBDA b : << [op |-> "PartySends", batch |-> b] >>)

P1ReceivesProducts(l) ==
  EachBatch(l, LAMBDA b :
    [i \in 1 .. NParties |-> [op |-> "P1ReceivesShare", batch |-> b, from |-> i - 1]])

MultProgram(p, l) ==
  IF p = 0 THEN P1Sends(l) \o PartiesReceive(l) \o PartiesSend(l) \o P1ReceivesProducts(l)
           ELSE PartiesReceive(l) \o PartiesSend(l)

OwnerReceives(p) ==
  [j \in 1 .. Len(Circuit.outputs[p]) |->
     [op |-> "OwnerReceivesMu", gate |-> Circuit.outputs[p][j]]]

OutputProgram(p) ==
  (IF p # 0 THEN << >> ELSE
   FlattenSeq([c \in 1 .. NParties |->
     [j \in 1 .. Len(Circuit.outputs[c - 1]) |->
        [op |-> "P1SendsMu", gate |-> Circuit.outputs[c - 1][j], to |-> c - 1]]]))
  \o OwnerReceives(p)

Program ==
  [p \in Parties |->
     InputProgram(p)
     \o FlattenSeq([l \in 1 .. Len(Circuit.layers) |-> MultProgram(p, l)])
     \o OutputProgram(p)]

Finished(p) == pc[p] > Len(Program[p])
Instr(p) == Program[p][pc[p]]
At(p, op) == ~Finished(p) /\ Instr(p).op = op
Advance(p) == pc' = [pc EXCEPT ![p] = @ + 1]

-----------------------------------------------------------------------------
\* What holds of every wire once the lambdas of the inputs and the
\* multiplications are drawn.
LambdaFrom(drawn) ==
  LET l[g \in GateIds] ==
        CASE gates[g].kind = "add"    -> (l[gates[g].left] + l[gates[g].right]) % P
          [] gates[g].kind = "output" -> l[gates[g].left]
          [] OTHER -> drawn[g]
  IN  l

\* Shares of a batch: lambda_A and lambda_B in degree n - k, delta_C in n - 1.
PrepOf(lam, b, tails) ==
  LET of(slot) == IF slot = Pad THEN 0 ELSE lam[slot]
      share(secrets, degree, tail) ==
        SharesFromEvPoly(EvPolyFromSecretsAndDegree(secrets, degree, tail), NParties)
  IN  [A |-> share([s \in 1 .. BatchSize |-> of(Left(Slots(b)[s]))],
                   NParties - BatchSize, tails.A),
       B |-> share([s \in 1 .. BatchSize |-> of(Right(Slots(b)[s]))],
                   NParties - BatchSize, tails.B),
       D |-> share([s \in 1 .. BatchSize |->
                      (of(Left(Slots(b)[s])) * of(Right(Slots(b)[s])) - of(Slots(b)[s])) % P],
                   NParties - 1, tails.D)]

Init ==
  \E sc \in Scenarios :
    /\ pc = [p \in Parties |-> 1]
    /\ chan = NoMessages
    /\ input = sc.input
    /\ lambda = LambdaFrom(sc.lambda)
    /\ prep = [b \in Batches |-> PrepOf(LambdaFrom(sc.lambda), b, sc.tails[b])]
    /\ mu = [g \in OfKind("input") \cup OfKind("mult") |-> None]
    /\ shrMu = [p \in Parties |-> [b \in Batches |-> << 0, 0 >>]]
    /\ collected = << >>
    /\ value = [g \in OfKind("output") |-> None]

\* GetMu: stored for inputs and multiplications, derived for the others, and
\* 0 for a padding gate.  It throws where it is not known yet.
Known ==
  LET known[g \in GateIds] ==
        CASE gates[g].kind = "add"    -> known[gates[g].left] /\ known[gates[g].right]
          [] gates[g].kind = "output" -> known[gates[g].left]
          [] OTHER -> mu[g] # None
  IN  known

Mu ==
  LET m[g \in GateIds] ==
        CASE gates[g].kind = "add"    -> (m[gates[g].left] + m[gates[g].right]) % P
          [] gates[g].kind = "output" -> m[gates[g].left]
          [] OTHER -> mu[g]
  IN  m

GetMu(slot) == IF slot = Pad THEN 0 ELSE Mu[slot]

\* Fault: the value is subtracted from the mask.
MaskedNegated(g) == (lambda[g] - input[g]) % P
Masked(g) == (input[g] - lambda[g]) % P

OwnerSendsP1(p) ==
  /\ At(p, "OwnerSendsP1")
  /\ Send(p, 0, Masked(Instr(p).gate), << "input", Instr(p).gate >>)
  /\ Advance(p)
  /\ UNCHANGED << given, mu, shrMu, collected, value >>

P1Receives(p) ==
  /\ At(p, "P1Receives")
  /\ Receive(Instr(p).from, p)
  /\ mu' = [mu EXCEPT ![Instr(p).gate] = Received(Instr(p).from, p)]
  /\ Advance(p)
  /\ UNCHANGED << given, shrMu, collected, value >>

\* The parents whose mu P1 packs for a batch: the left ones, then the right.
Parents(b, side) ==
  [s \in 1 .. BatchSize |-> IF side = 1 THEN Left(Slots(b)[s]) ELSE Right(Slots(b)[s])]

ParentGates(b, side) == { Parents(b, side)[s] : s \in 1 .. BatchSize } \ {Pad}

MuPoly(b, side) ==
  EvPolyFromSecretsAndDegree([s \in 1 .. BatchSize |-> GetMu(Parents(b, side)[s])],
                             BatchSize - 1, << >>)

P1SendsShare(p) ==
  /\ At(p, "P1SendsShare")
  /\ LET i == Instr(p)
     IN  /\ \A g \in ParentGates(i.batch, i.side) : Known[g]
         /\ Send(p, i.to, SharesFromEvPoly(MuPoly(i.batch, i.side), NParties)[i.to + 1],
                 << "mu", i.batch, i.side >>)
  /\ Advance(p)
  /\ UNCHANGED << given, mu, shrMu, collected, value >>

PartyReceivesShare(p) ==
  /\ At(p, "PartyReceivesShare")
  /\ Receive(0, p)
  /\ shrMu' = [shrMu EXCEPT ![p][Instr(p).batch][Instr(p).side] = Received(0, p)]
  /\ Advance(p)
  /\ UNCHANGED << given, mu, collected, value >>

\* Fault: the masks on the wrong sides.
ProductShareSwapped(muA, muB, lamA, lamB, delta) ==
  (muA * lamA + muB * lamB + muA * muB + delta) % P

\* The share of the product, from the shares of the mus and the lambdas.
ProductShare(muA, muB, lamA, lamB, delta) == (muB * lamA + muA * lamB + muA * muB + delta) % P

PartySends(p) ==
  /\ At(p, "PartySends")
  /\ LET b == Instr(p).batch
     IN  Send(p, 0,
              ProductShare(shrMu[p][b][1], shrMu[p][b][2],
                           prep[b].A[p + 1], prep[b].B[p + 1], prep[b].D[p + 1]),
              << "product", b >>)
  /\ Advance(p)
  /\ UNCHANGED << given, mu, shrMu, collected, value >>

\* Fault: P1 reconstructs with all shares but one, and again with all.
ReconstructsEarly(from) == from >= NParties - 2
Reconstructs(from) == from = NParties - 1

\* The mus of a batch, taken from the reconstructed secrets.
Learned(batch, secrets) ==
  [g \in DOMAIN mu |->
     IF \E s \in 1 .. BatchSize : batch[s] = g
     THEN secrets[CHOOSE s \in 1 .. BatchSize : batch[s] = g]
     ELSE mu[g]]

\* With the share of the last party P1 reconstructs the batch.
P1ReceivesShare(p) ==
  /\ At(p, "P1ReceivesShare")
  /\ Receive(Instr(p).from, p)
  /\ LET from == Instr(p).from
         shares == Append(collected, Received(from, p))
     IN  /\ collected' = IF from = NParties - 1 THEN << >> ELSE shares
         /\ mu' = IF Reconstructs(from)
                  THEN Learned(Slots(Instr(p).batch), SecretsFromSharesAndLength(shares, BatchSize))
                  ELSE mu
  /\ Advance(p)
  /\ UNCHANGED << given, shrMu, value >>

P1SendsMu(p) ==
  /\ At(p, "P1SendsMu")
  /\ Known[Instr(p).gate]
  /\ Send(p, Instr(p).to, GetMu(Instr(p).gate), << "output", Instr(p).gate >>)
  /\ Advance(p)
  /\ UNCHANGED << given, mu, shrMu, collected, value >>

Unmasked(g, m) == (lambda[g] + m) % P

OwnerReceivesMu(p) ==
  /\ At(p, "OwnerReceivesMu")
  /\ Receive(0, p)
  /\ value' = [value EXCEPT ![Instr(p).gate] = Unmasked(Instr(p).gate, Received(0, p))]
  /\ Advance(p)
  /\ UNCHANGED << given, mu, shrMu, collected >>

Step(p) ==
  \/ OwnerSendsP1(p) \/ P1Receives(p)
  \/ P1SendsShare(p) \/ PartyReceivesShare(p) \/ PartySends(p) \/ P1ReceivesShare(p)
  \/ P1SendsMu(p) \/ OwnerReceivesMu(p)

AllFinished == \A p \in Parties : Finished(p)

SomeStep == \E p \in Parties : Step(p)

Next == SomeStep \/ (AllFinished /\ UNCHANGED vars)

\* A party is a process of its own, which nothing stops but its channels.  As
\* every program is finite it is enough that some party that can go on does.
Spec == Init /\ [][Next]_vars /\ WF_vars(SomeStep)
-----------------------------------------------------------------------------
\* What the next receive of a party expects, and from whom.
Expects(p) ==
  LET i == Instr(p)
  IN  CASE i.op = "P1Receives"         -> << i.from, << "input", i.gate >> >>
        [] i.op = "PartyReceivesShare" -> << 0, << "mu", i.batch, i.side >> >>
        [] i.op = "P1ReceivesShare"    -> << i.from, << "product", i.batch >> >>
        [] i.op = "OwnerReceivesMu"    -> << 0, << "output", i.gate >> >>

\* Every receive takes the message that was sent for it, although messages
\* carry no label and parties are up to a layer apart: the loops of sender
\* and receiver agree on the order of gates, batches and sides.  A run leaves no
\* message behind for the next use of the network to mistake for its own.
ReceivesItsOwn ==
  /\ AllFinished => chan = NoMessages
  /\ \A p \in Parties :
       ~Finished(p) /\ Instr(p).op \in {"P1Receives", "PartyReceivesShare", "P1ReceivesShare",
                                       "OwnerReceivesMu"} =>
         LET e == Expects(p)
         IN  Arrived(e[1], p) => Head(chan[e[1]][p]).tag = e[2]

Ideal == INSTANCE IdealEvaluation

\* What P1 has learned of a wire is its value in the clear minus its mask,
\* whatever the masks and the randomness of the sharings: the degrees of the
\* shares of the product add up to what n shares determine.
MuIsMaskedValue ==
  \A g \in DOMAIN mu : mu[g] # None => mu[g] = (Ideal!Clear[g] - lambda[g]) % P

\* P1 learns a wire once.  AddGate and OutputGate store the sum of their
\* parents' mus the first time they are asked, and never again.
LearnsOnce == [][\A g \in DOMAIN mu : mu[g] # None => mu'[g] = mu[g]]_vars

\* The protocol computes the circuit: outputs only ever appear with the value
\* in the clear, and all of them do.
ComputesTheCircuit == Ideal!Spec
=============================================================================
