---------------------------- MODULE OnlineProofs ----------------------------
(***************************************************************************)
(* That every message of the online phase is received for what it was sent *)
(* for, in every circuit.  No label says what a message is; it is enough   *)
(* that what one party's program sends another is what the other's program *)
(* expects of it, message by message, and this is what is proved first: of *)
(* the programs, without a step being taken.  From the programs it follows *)
(* too that P1 learns no wire twice.                                       *)
(***************************************************************************)
EXTENDS Online, StreamLemmas

\* All that a party can be told to do, and all that a message can be for.
Instruction ==
  [op : {"OwnerSendsP1"}, gate : GateIds]
  \cup [op : {"P1Receives"}, gate : GateIds, from : Parties]
  \cup [op : {"P1SendsShare"}, batch : Batches, to : Parties, side : 1 .. 2]
  \cup [op : {"PartyReceivesShare"}, batch : Batches, side : 1 .. 2]
  \cup [op : {"PartySends"}, batch : Batches]
  \cup [op : {"P1ReceivesShare"}, batch : Batches, from : Parties]
  \cup [op : {"P1SendsMu"}, gate : GateIds, to : Parties]
  \cup [op : {"OwnerReceivesMu"}, gate : GateIds]

Tag ==
  { << "input", g >> : g \in GateIds }
  \cup { << "mu", b, s >> : b \in Batches, s \in 1 .. 2 }
  \cup { << "product", b >> : b \in Batches }
  \cup { << "output", g >> : g \in GateIds }

\* What an instruction sends party p, and what it receives from party q.
SentTo(p) ==
  [i \in Instruction |->
     IF i.op = "OwnerSendsP1" /\ p = 0 THEN << << "input", i.gate >> >>
     ELSE IF i.op = "P1SendsShare" /\ i.to = p THEN << << "mu", i.batch, i.side >> >>
     ELSE IF i.op = "PartySends" /\ p = 0 THEN << << "product", i.batch >> >>
     ELSE IF i.op = "P1SendsMu" /\ i.to = p THEN << << "output", i.gate >> >>
     ELSE << >>]

ReceivedFrom(q) ==
  [i \in Instruction |->
     IF i.op = "P1Receives" /\ i.from = q THEN << << "input", i.gate >> >>
     ELSE IF i.op = "PartyReceivesShare" /\ q = 0 THEN << << "mu", i.batch, i.side >> >>
     ELSE IF i.op = "P1ReceivesShare" /\ i.from = q THEN << << "product", i.batch >> >>
     ELSE IF i.op = "OwnerReceivesMu" /\ q = 0 THEN << << "output", i.gate >> >>
     ELSE << >>]

-----------------------------------------------------------------------------
(* Instructions.                                                            *)

\* What there is in each of them.
LEMMA Kinds ==
  ASSUME NEW i \in Instruction
  PROVE  /\ i.op \in {"OwnerSendsP1", "P1Receives", "P1SendsMu", "OwnerReceivesMu"} => i.gate \in GateIds
         /\ i.op \in {"P1SendsShare", "PartyReceivesShare", "PartySends", "P1ReceivesShare"} => i.batch \in Batches
         /\ i.op \in {"P1SendsShare", "PartyReceivesShare"} => i.side \in 1 .. 2
         /\ i.op \in {"P1SendsShare", "P1SendsMu"} => i.to \in Parties
         /\ i.op \in {"P1Receives", "P1ReceivesShare"} => i.from \in Parties
BY DEF Instruction

\* They send tags and receive tags.
LEMMA Trading ==
  ASSUME NEW p
  PROVE  Maps(SentTo(p), Instruction, Tag) /\ Maps(ReceivedFrom(p), Instruction, Tag)
<1>1. ASSUME NEW i \in Instruction
      PROVE  /\ i.op = "OwnerSendsP1" \/ i.op = "P1Receives" => << "input", i.gate >> \in Tag
             /\ i.op = "P1SendsShare" \/ i.op = "PartyReceivesShare" => << "mu", i.batch, i.side >> \in Tag
             /\ i.op = "PartySends" \/ i.op = "P1ReceivesShare" => << "product", i.batch >> \in Tag
             /\ i.op = "P1SendsMu" \/ i.op = "OwnerReceivesMu" => << "output", i.gate >> \in Tag
  BY Kinds DEF Tag
<1>2. PICK T : T = Tag
  OBVIOUS
<1>3. \A t \in T : << t >> \in Seq(T)
  OBVIOUS
<1>4. << >> \in Seq(T)
  OBVIOUS
<1>5. ASSUME NEW i \in Instruction PROVE SentTo(p)[i] \in Seq(T)
  BY <1>1, <1>2, <1>3, <1>4 DEF SentTo
<1>6. ASSUME NEW i \in Instruction PROVE ReceivedFrom(p)[i] \in Seq(T)
  BY <1>1, <1>2, <1>3, <1>4 DEF ReceivedFrom
<1>7. SentTo(p) \in [Instruction -> Seq(T)]
  BY <1>5 DEF SentTo
<1>8. ReceivedFrom(p) \in [Instruction -> Seq(T)]
  BY <1>6 DEF ReceivedFrom
<1>. QED
  BY <1>2, <1>7, <1>8 DEF Maps

\* The instructions of the programs.
OwnerSends(g) == [op |-> "OwnerSendsP1", gate |-> g]
Takes(g, c) == [op |-> "P1Receives", gate |-> g, from |-> c]
Deals(b, c, s) == [op |-> "P1SendsShare", batch |-> b, to |-> c, side |-> s]
TakesDealt(b, s) == [op |-> "PartyReceivesShare", batch |-> b, side |-> s]
Multiplies(b) == [op |-> "PartySends", batch |-> b]
TakesProduct(b, c) == [op |-> "P1ReceivesShare", batch |-> b, from |-> c]
Opens(g, c) == [op |-> "P1SendsMu", gate |-> g, to |-> c]
OwnerTakes(g) == [op |-> "OwnerReceivesMu", gate |-> g]

\* What the owner of a gate sends P1, and takes from it.
LEMMA OwnersGates ==
  ASSUME NEW g \in GateIds, NEW p \in Parties
  PROVE  /\ OwnerSends(g) \in Instruction /\ OwnerTakes(g) \in Instruction
         /\ SentTo(p)[OwnerSends(g)] = (IF p = 0 THEN << << "input", g >> >> ELSE << >>)
         /\ ReceivedFrom(p)[OwnerSends(g)] = << >>
         /\ SentTo(p)[OwnerTakes(g)] = << >>
         /\ ReceivedFrom(p)[OwnerTakes(g)] = (IF p = 0 THEN << << "output", g >> >> ELSE << >>)
<1>1. OwnerSends(g) \in Instruction
  BY DEF Instruction, OwnerSends
<1>2. OwnerTakes(g) \in Instruction
  BY DEF Instruction, OwnerTakes
<1>3. /\ SentTo(p)[OwnerSends(g)] = (IF p = 0 THEN << << "input", g >> >> ELSE << >>)
      /\ ReceivedFrom(p)[OwnerSends(g)] = << >>
  BY <1>1 DEF OwnerSends, SentTo, ReceivedFrom
<1>4. /\ SentTo(p)[OwnerTakes(g)] = << >>
      /\ ReceivedFrom(p)[OwnerTakes(g)] = (IF p = 0 THEN << << "output", g >> >> ELSE << >>)
  BY <1>2 DEF OwnerTakes, SentTo, ReceivedFrom
<1>. QED
  BY <1>1, <1>2, <1>3, <1>4

\* What P1 takes for a gate, and opens to its owner.
LEMMA P1sGates ==
  ASSUME NEW g \in GateIds, NEW c \in Parties
  PROVE  /\ Takes(g, c) \in Instruction /\ Opens(g, c) \in Instruction
         /\ \A p \in Parties :
              /\ SentTo(p)[Takes(g, c)] = << >>
              /\ ReceivedFrom(p)[Takes(g, c)] = (IF p = c THEN << << "input", g >> >> ELSE << >>)
              /\ SentTo(p)[Opens(g, c)] = (IF p = c THEN << << "output", g >> >> ELSE << >>)
              /\ ReceivedFrom(p)[Opens(g, c)] = << >>
<1>1. Takes(g, c) \in Instruction
  BY DEF Instruction, Takes
<1>2. Opens(g, c) \in Instruction
  BY DEF Instruction, Opens
<1>3. ASSUME NEW p \in Parties
      PROVE  /\ SentTo(p)[Takes(g, c)] = << >>
             /\ ReceivedFrom(p)[Takes(g, c)] = (IF p = c THEN << << "input", g >> >> ELSE << >>)
  BY <1>1 DEF Takes, SentTo, ReceivedFrom
<1>4. ASSUME NEW p \in Parties
      PROVE  /\ SentTo(p)[Opens(g, c)] = (IF p = c THEN << << "output", g >> >> ELSE << >>)
             /\ ReceivedFrom(p)[Opens(g, c)] = << >>
  BY <1>2 DEF Opens, SentTo, ReceivedFrom
<1>. QED
  BY <1>1, <1>2, <1>3, <1>4

\* What P1 deals of a batch, and a party takes of it.
LEMMA DealtBatches ==
  ASSUME NEW b \in Batches, NEW s \in 1 .. 2
  PROVE  /\ TakesDealt(b, s) \in Instruction
         /\ \A p \in Parties :
              /\ SentTo(p)[TakesDealt(b, s)] = << >>
              /\ ReceivedFrom(p)[TakesDealt(b, s)] = (IF p = 0 THEN << << "mu", b, s >> >> ELSE << >>)
         /\ \A c \in Parties :
              /\ Deals(b, c, s) \in Instruction
              /\ \A p \in Parties :
                   /\ SentTo(p)[Deals(b, c, s)] = (IF p = c THEN << << "mu", b, s >> >> ELSE << >>)
                   /\ ReceivedFrom(p)[Deals(b, c, s)] = << >>
<1>1. TakesDealt(b, s) \in Instruction
  BY DEF Instruction, TakesDealt
<1>2. ASSUME NEW p \in Parties
      PROVE  /\ SentTo(p)[TakesDealt(b, s)] = << >>
             /\ ReceivedFrom(p)[TakesDealt(b, s)] = (IF p = 0 THEN << << "mu", b, s >> >> ELSE << >>)
  BY <1>1 DEF TakesDealt, SentTo, ReceivedFrom
<1>3. ASSUME NEW c \in Parties PROVE Deals(b, c, s) \in Instruction
  BY DEF Instruction, Deals
<1>4. ASSUME NEW c \in Parties, NEW p \in Parties
      PROVE  /\ SentTo(p)[Deals(b, c, s)] = (IF p = c THEN << << "mu", b, s >> >> ELSE << >>)
             /\ ReceivedFrom(p)[Deals(b, c, s)] = << >>
  BY <1>3 DEF Deals, SentTo, ReceivedFrom
<1>. QED
  BY <1>1, <1>2, <1>3, <1>4

\* What a party sends of a batch it has multiplied, and P1 takes.
LEMMA ProductBatches ==
  ASSUME NEW b \in Batches
  PROVE  /\ Multiplies(b) \in Instruction
         /\ \A p \in Parties :
              /\ SentTo(p)[Multiplies(b)] = (IF p = 0 THEN << << "product", b >> >> ELSE << >>)
              /\ ReceivedFrom(p)[Multiplies(b)] = << >>
         /\ \A c \in Parties :
              /\ TakesProduct(b, c) \in Instruction
              /\ \A p \in Parties :
                   /\ SentTo(p)[TakesProduct(b, c)] = << >>
                   /\ ReceivedFrom(p)[TakesProduct(b, c)] = (IF p = c THEN << << "product", b >> >> ELSE << >>)
<1>1. Multiplies(b) \in Instruction
  BY DEF Instruction, Multiplies
<1>2. ASSUME NEW p \in Parties
      PROVE  /\ SentTo(p)[Multiplies(b)] = (IF p = 0 THEN << << "product", b >> >> ELSE << >>)
             /\ ReceivedFrom(p)[Multiplies(b)] = << >>
  BY <1>1 DEF Multiplies, SentTo, ReceivedFrom
<1>3. ASSUME NEW c \in Parties PROVE TakesProduct(b, c) \in Instruction
  BY DEF Instruction, TakesProduct
<1>4. ASSUME NEW c \in Parties, NEW p \in Parties
      PROVE  /\ SentTo(p)[TakesProduct(b, c)] = << >>
             /\ ReceivedFrom(p)[TakesProduct(b, c)] = (IF p = c THEN << << "product", b >> >> ELSE << >>)
  BY <1>3 DEF TakesProduct, SentTo, ReceivedFrom
<1>. QED
  BY <1>1, <1>2, <1>3, <1>4

\* The programs are made of these, gate by gate or batch by batch.
OwnInputs(c)  == [j \in 1 .. Len(Circuit.inputs[c]) |-> OwnerSends(Circuit.inputs[c][j])]
InputsOf(c)   == [j \in 1 .. Len(Circuit.inputs[c]) |-> Takes(Circuit.inputs[c][j], c)]
OutputsOf(c)  == [j \in 1 .. Len(Circuit.outputs[c]) |-> Opens(Circuit.outputs[c][j], c)]
OwnOutputs(c) == [j \in 1 .. Len(Circuit.outputs[c]) |-> OwnerTakes(Circuit.outputs[c][j])]

DealsBatch(b)    == [i \in 1 .. 2 * NParties |-> Deals(b, (i - 1) \div 2, ((i - 1) % 2) + 1)]
TakesBatch(b)    == [s \in 1 .. 2 |-> TakesDealt(b, s)]
TakesProducts(b) == [i \in 1 .. NParties |-> TakesProduct(b, i - 1)]

\* So the programs read, with the instructions by their names.
LEMMA Spelled ==
  ASSUME NEW p, NEW l
  PROVE  /\ InputProgram(p) =
              OwnInputs(p) \o (IF p # 0 THEN << >> ELSE FlattenSeq([c \in 1 .. NParties |-> InputsOf(c - 1)]))
         /\ P1Sends(l) = FlattenSeq([b \in 1 .. Len(Circuit.layers[l]) |-> DealsBatch(<< l, b >>)])
         /\ PartiesReceive(l) = FlattenSeq([b \in 1 .. Len(Circuit.layers[l]) |-> TakesBatch(<< l, b >>)])
         /\ PartiesSend(l) = FlattenSeq([b \in 1 .. Len(Circuit.layers[l]) |-> << Multiplies(<< l, b >>) >>])
         /\ P1ReceivesProducts(l) =
              FlattenSeq([b \in 1 .. Len(Circuit.layers[l]) |-> TakesProducts(<< l, b >>)])
         /\ OutputProgram(p) =
              (IF p # 0 THEN << >> ELSE FlattenSeq([c \in 1 .. NParties |-> OutputsOf(c - 1)]))
              \o OwnOutputs(p)
BY DEF InputProgram, OwnInputs, InputsOf, OwnerSends, Takes,
       P1Sends, EachBatch, P1SendsBatch, DealsBatch, Deals,
       PartiesReceive, TakesBatch, TakesDealt, PartiesSend, Multiplies,
       P1ReceivesProducts, TakesProducts, TakesProduct,
       OutputProgram, OwnerReceives, OutputsOf, OwnOutputs, Opens, OwnerTakes

-----------------------------------------------------------------------------
(* What passes from party q to party p, in order, for the whole circuit.    *)

InputTags(q) == [j \in 1 .. Len(Circuit.inputs[q]) |-> << "input", Circuit.inputs[q][j] >>]

MuOf(b) == [s \in 1 .. 2 |-> << "mu", b, s >>]

MuTags(l) == FlattenSeq([b \in 1 .. Len(Circuit.layers[l]) |-> MuOf(<< l, b >>)])

ProductTags(l) == [b \in 1 .. Len(Circuit.layers[l]) |-> << "product", << l, b >> >>]

OutputTags(p) == [j \in 1 .. Len(Circuit.outputs[p]) |-> << "output", Circuit.outputs[p][j] >>]

InputTraffic(q, p) == IF p = 0 THEN InputTags(q) ELSE << >>

LayerTraffic(q, p, l) ==
  (IF q = 0 THEN MuTags(l) ELSE << >>) \o (IF p = 0 THEN ProductTags(l) ELSE << >>)

OutputTraffic(q, p) == IF q = 0 THEN OutputTags(p) ELSE << >>

Layers == 1 .. Len(Circuit.layers)

\* The circuit is made of sequences.
LEMMA Shapes ==
  /\ 0 \in Parties /\ NParties \in Nat /\ Len(Circuit.layers) \in Nat
  /\ \A q \in Parties : Circuit.inputs[q] \in Seq(GateIds) /\ Circuit.outputs[q] \in Seq(GateIds)
  /\ \A l \in Layers : /\ Len(Circuit.layers[l]) \in Nat
                       /\ \A b \in 1 .. Len(Circuit.layers[l]) : << l, b >> \in Batches
<1>1. 0 \in Parties /\ NParties \in Nat
  BY NPartiesAssumption DEF Parties
<1>2. PICK L : L = Layer
  OBVIOUS
<1>3. Circuit.layers \in Seq(L) /\ Len(Circuit.layers) \in Nat
  BY <1>2, CircuitAssumption
<1>4. ASSUME NEW l \in Layers PROVE Len(Circuit.layers[l]) \in Nat
  <2>1. Circuit.layers[l] \in L
    BY <1>3, ElementOfSeq DEF Layers
  <2>2. PICK B : B = Batch
    OBVIOUS
  <2>3. Circuit.layers[l] \in Seq(B)
    BY <1>2, <2>1, <2>2 DEF Layer
  <2>. QED
    BY <2>3
<1>5. ASSUME NEW l \in Layers, NEW b \in 1 .. Len(Circuit.layers[l]) PROVE << l, b >> \in Batches
  BY <1>5 DEF Batches, Layers
<1>6. ASSUME NEW q \in Parties
      PROVE  Circuit.inputs[q] \in Seq(GateIds) /\ Circuit.outputs[q] \in Seq(GateIds)
  BY CircuitAssumption
<1>. QED
  BY <1>1, <1>3, <1>4, <1>5, <1>6

\* What is projected for one gate after the other.
LEMMA GateByGate ==
  ASSUME NEW f, Maps(f, Instruction, Tag), NEW x \in Seq(GateIds), NEW s,
         DOMAIN s = 1 .. Len(x), s = [j \in 1 .. Len(x) |-> s[j]],
         \A j \in 1 .. Len(x) : s[j] \in Instruction
  PROVE  /\ s \in Seq(Instruction)
         /\ (\A j \in 1 .. Len(x) : f[s[j]] = << >>) => Projected(f, s) = << >>
         /\ \A t \in Seq(Tag) : Len(t) = Len(x) /\ (\A j \in 1 .. Len(x) : f[s[j]] = << t[j] >>)
                                => Projected(f, s) = t
<1>1. PICK I, T : I = Instruction /\ T = Tag
  OBVIOUS
<1>2. s \in Seq(I) /\ Len(s) = Len(x)
  BY <1>1
<1>3. ASSUME \A j \in 1 .. Len(x) : f[s[j]] = << >> PROVE Projected(f, s) = << >>
  BY <1>1, <1>2, <1>3, ProjectedNothing
<1>4. ASSUME NEW t \in Seq(Tag), Len(t) = Len(x), \A j \in 1 .. Len(x) : f[s[j]] = << t[j] >>
      PROVE  Projected(f, s) = t
  <2>1. \A a \in Seq(Instruction), u \in Seq(Tag) : Spells(f, a, u) => Projected(f, a) = u
    BY ProjectedEach
  <2>2. Spells(f, s, t)
    BY <1>2, <1>4 DEF Spells
  <2>. QED
    BY <1>1, <1>2, <2>1, <2>2
<1>. QED
  BY <1>1, <1>2, <1>3, <1>4

\* The tags of the inputs and outputs of a party, gate by gate.
LEMMA GateTags ==
  ASSUME NEW c \in Parties
  PROVE  /\ InputTags(c) \in Seq(Tag) /\ Len(InputTags(c)) = Len(Circuit.inputs[c])
         /\ \A j \in 1 .. Len(Circuit.inputs[c]) : InputTags(c)[j] = << "input", Circuit.inputs[c][j] >>
         /\ OutputTags(c) \in Seq(Tag) /\ Len(OutputTags(c)) = Len(Circuit.outputs[c])
         /\ \A j \in 1 .. Len(Circuit.outputs[c]) : OutputTags(c)[j] = << "output", Circuit.outputs[c][j] >>
<1>1. PICK x \in Seq(GateIds) : x = Circuit.inputs[c]
  BY Shapes
<1>2. PICK y \in Seq(GateIds) : y = Circuit.outputs[c]
  BY Shapes
<1>3. PICK T : T = Tag
  OBVIOUS
<1>4. \A j \in 1 .. Len(x) : << "input", x[j] >> \in T
  BY <1>3 DEF Tag
<1>5. \A j \in 1 .. Len(y) : << "output", y[j] >> \in T
  BY <1>3 DEF Tag
<1>6. /\ InputTags(c) \in Seq(T) /\ Len(InputTags(c)) = Len(x)
      /\ \A j \in 1 .. Len(x) : InputTags(c)[j] = << "input", x[j] >>
  BY <1>1, <1>4 DEF InputTags
<1>7. /\ OutputTags(c) \in Seq(T) /\ Len(OutputTags(c)) = Len(y)
      /\ \A j \in 1 .. Len(y) : OutputTags(c)[j] = << "output", y[j] >>
  BY <1>2, <1>5 DEF OutputTags
<1>. QED
  BY <1>1, <1>2, <1>3, <1>6, <1>7

\* The inputs of a party on their way to P1.
LEMMA InputsPass ==
  ASSUME NEW c \in Parties, NEW p \in Parties
  PROVE  /\ OwnInputs(c) \in Seq(Instruction) /\ InputsOf(c) \in Seq(Instruction)
         /\ Projected(SentTo(p), OwnInputs(c)) = (IF p = 0 THEN InputTags(c) ELSE << >>)
         /\ Projected(ReceivedFrom(p), OwnInputs(c)) = << >>
         /\ Projected(SentTo(p), InputsOf(c)) = << >>
         /\ Projected(ReceivedFrom(p), InputsOf(c)) = (IF p = c THEN InputTags(c) ELSE << >>)
<1>0. Maps(SentTo(p), Instruction, Tag) /\ Maps(ReceivedFrom(p), Instruction, Tag)
  BY Trading
<1>1. PICK x \in Seq(GateIds) : x = Circuit.inputs[c]
  BY Shapes
<1>2. PICK s : s = OwnInputs(c)
  OBVIOUS
<1>3. PICK r : r = InputsOf(c)
  OBVIOUS
<1>4. PICK t \in Seq(Tag) : t = InputTags(c) /\ Len(t) = Len(x) /\ \A j \in 1 .. Len(x) : t[j] = << "input", x[j] >>
  BY <1>1, GateTags
<1>5. DOMAIN s = 1 .. Len(x) /\ \A j \in 1 .. Len(x) : s[j] = OwnerSends(x[j])
  BY <1>1, <1>2 DEF OwnInputs
<1>6. DOMAIN r = 1 .. Len(x) /\ \A j \in 1 .. Len(x) : r[j] = Takes(x[j], c)
  BY <1>1, <1>3 DEF InputsOf
<1>7. s = [j \in 1 .. Len(x) |-> s[j]] /\ r = [j \in 1 .. Len(x) |-> r[j]]
  BY <1>1, <1>2, <1>3 DEF OwnInputs, InputsOf
<1>8. \A j \in 1 .. Len(x) :
        /\ s[j] \in Instruction
        /\ SentTo(p)[s[j]] = (IF p = 0 THEN << t[j] >> ELSE << >>)
        /\ ReceivedFrom(p)[s[j]] = << >>
  <2>1. TAKE j \in 1 .. Len(x)
  <2>2. PICK g \in GateIds : g = x[j]
    OBVIOUS
  <2>. QED
    <3>1. /\ OwnerSends(g) \in Instruction
          /\ SentTo(p)[OwnerSends(g)] = (IF p = 0 THEN << << "input", g >> >> ELSE << >>)
          /\ ReceivedFrom(p)[OwnerSends(g)] = << >>
      BY OwnersGates
    <3>2. s[j] = OwnerSends(g) /\ t[j] = << "input", g >>
      BY <1>4, <1>5, <2>2
    <3>. QED
      BY <3>1, <3>2
<1>9. \A j \in 1 .. Len(x) :
        /\ r[j] \in Instruction
        /\ SentTo(p)[r[j]] = << >>
        /\ ReceivedFrom(p)[r[j]] = (IF p = c THEN << t[j] >> ELSE << >>)
  <2>1. TAKE j \in 1 .. Len(x)
  <2>2. PICK g \in GateIds : g = x[j]
    OBVIOUS
  <2>. QED
    <3>0. Takes(g, c) \in Instruction /\ SentTo(p)[Takes(g, c)] = << >>
      BY P1sGates
    <3>1. ReceivedFrom(p)[Takes(g, c)] = (IF p = c THEN << << "input", g >> >> ELSE << >>)
      BY P1sGates
    <3>2. r[j] = Takes(g, c) /\ t[j] = << "input", g >>
      BY <1>4, <1>6, <2>2
    <3>. QED
      BY <3>0, <3>1, <3>2
<1>10. s \in Seq(Instruction) /\ Projected(ReceivedFrom(p), s) = << >>
  BY <1>0, <1>5, <1>7, <1>8, GateByGate
<1>11. Projected(SentTo(p), s) = IF p = 0 THEN t ELSE << >>
  <2>1. CASE p = 0
    <3>1. \A j \in 1 .. Len(x) : SentTo(p)[s[j]] = << t[j] >>
      BY <1>8, <2>1
    <3>2. \A a \in Seq(Instruction), u \in Seq(Tag) : Spells(SentTo(p), a, u) => Projected(SentTo(p), a) = u
      BY <1>0, ProjectedEach
    <3>3. s \in Seq(Instruction) /\ Len(s) = Len(x)
      BY <1>10, <1>5
    <3>4. Spells(SentTo(p), s, t)
      BY <1>4, <3>1, <3>3 DEF Spells
    <3>5. Projected(SentTo(p), s) = t
      BY <3>2, <3>3, <3>4
    <3>. QED
      BY <2>1, <3>5
  <2>2. CASE p # 0
    BY <1>0, <1>5, <1>7, <1>8, <2>2, GateByGate
  <2>. QED
    BY <2>1, <2>2
<1>12. r \in Seq(Instruction) /\ Projected(SentTo(p), r) = << >>
  BY <1>0, <1>6, <1>7, <1>9, GateByGate
<1>13. Projected(ReceivedFrom(p), r) = IF p = c THEN t ELSE << >>
  <2>1. CASE p = c
    <3>1. \A j \in 1 .. Len(x) : ReceivedFrom(p)[r[j]] = << t[j] >>
      BY <1>9, <2>1
    <3>2. \A a \in Seq(Instruction), u \in Seq(Tag) : Spells(ReceivedFrom(p), a, u) => Projected(ReceivedFrom(p), a) = u
      BY <1>0, ProjectedEach
    <3>3. r \in Seq(Instruction) /\ Len(r) = Len(x)
      BY <1>12, <1>6
    <3>4. Spells(ReceivedFrom(p), r, t)
      BY <1>4, <3>1, <3>3 DEF Spells
    <3>5. Projected(ReceivedFrom(p), r) = t
      BY <3>2, <3>3, <3>4
    <3>. QED
      BY <2>1, <3>5
  <2>2. CASE p # c
    BY <1>0, <1>6, <1>7, <1>9, <2>2, GateByGate
  <2>. QED
    BY <2>1, <2>2
<1>. QED
  BY <1>2, <1>3, <1>4, <1>10, <1>11, <1>12, <1>13

\* The outputs of a party on their way from P1.
LEMMA OutputsPass ==
  ASSUME NEW c \in Parties, NEW p \in Parties
  PROVE  /\ OwnOutputs(c) \in Seq(Instruction) /\ OutputsOf(c) \in Seq(Instruction)
         /\ Projected(ReceivedFrom(p), OwnOutputs(c)) = (IF p = 0 THEN OutputTags(c) ELSE << >>)
         /\ Projected(SentTo(p), OwnOutputs(c)) = << >>
         /\ Projected(ReceivedFrom(p), OutputsOf(c)) = << >>
         /\ Projected(SentTo(p), OutputsOf(c)) = (IF p = c THEN OutputTags(c) ELSE << >>)
<1>0. Maps(ReceivedFrom(p), Instruction, Tag) /\ Maps(SentTo(p), Instruction, Tag)
  BY Trading
<1>1. PICK x \in Seq(GateIds) : x = Circuit.outputs[c]
  BY Shapes
<1>2. PICK s : s = OwnOutputs(c)
  OBVIOUS
<1>3. PICK r : r = OutputsOf(c)
  OBVIOUS
<1>4. PICK t \in Seq(Tag) : t = OutputTags(c) /\ Len(t) = Len(x) /\ \A j \in 1 .. Len(x) : t[j] = << "output", x[j] >>
  BY <1>1, GateTags
<1>5. DOMAIN s = 1 .. Len(x) /\ \A j \in 1 .. Len(x) : s[j] = OwnerTakes(x[j])
  BY <1>1, <1>2 DEF OwnOutputs
<1>6. DOMAIN r = 1 .. Len(x) /\ \A j \in 1 .. Len(x) : r[j] = Opens(x[j], c)
  BY <1>1, <1>3 DEF OutputsOf
<1>7. s = [j \in 1 .. Len(x) |-> s[j]] /\ r = [j \in 1 .. Len(x) |-> r[j]]
  BY <1>1, <1>2, <1>3 DEF OwnOutputs, OutputsOf
<1>8. \A j \in 1 .. Len(x) :
        /\ s[j] \in Instruction
        /\ ReceivedFrom(p)[s[j]] = (IF p = 0 THEN << t[j] >> ELSE << >>)
        /\ SentTo(p)[s[j]] = << >>
  <2>1. TAKE j \in 1 .. Len(x)
  <2>2. PICK g \in GateIds : g = x[j]
    OBVIOUS
  <2>. QED
    <3>1. /\ OwnerTakes(g) \in Instruction
          /\ ReceivedFrom(p)[OwnerTakes(g)] = (IF p = 0 THEN << << "output", g >> >> ELSE << >>)
          /\ SentTo(p)[OwnerTakes(g)] = << >>
      BY OwnersGates
    <3>2. s[j] = OwnerTakes(g) /\ t[j] = << "output", g >>
      BY <1>4, <1>5, <2>2
    <3>. QED
      BY <3>1, <3>2
<1>9. \A j \in 1 .. Len(x) :
        /\ r[j] \in Instruction
        /\ ReceivedFrom(p)[r[j]] = << >>
        /\ SentTo(p)[r[j]] = (IF p = c THEN << t[j] >> ELSE << >>)
  <2>1. TAKE j \in 1 .. Len(x)
  <2>2. PICK g \in GateIds : g = x[j]
    OBVIOUS
  <2>. QED
    <3>0. Opens(g, c) \in Instruction /\ ReceivedFrom(p)[Opens(g, c)] = << >>
      BY P1sGates
    <3>1. SentTo(p)[Opens(g, c)] = (IF p = c THEN << << "output", g >> >> ELSE << >>)
      BY P1sGates
    <3>2. r[j] = Opens(g, c) /\ t[j] = << "output", g >>
      BY <1>4, <1>6, <2>2
    <3>. QED
      BY <3>0, <3>1, <3>2
<1>10. s \in Seq(Instruction) /\ Projected(SentTo(p), s) = << >>
  BY <1>0, <1>5, <1>7, <1>8, GateByGate
<1>11. Projected(ReceivedFrom(p), s) = IF p = 0 THEN t ELSE << >>
  <2>1. CASE p = 0
    <3>1. \A j \in 1 .. Len(x) : ReceivedFrom(p)[s[j]] = << t[j] >>
      BY <1>8, <2>1
    <3>2. \A a \in Seq(Instruction), u \in Seq(Tag) : Spells(ReceivedFrom(p), a, u) => Projected(ReceivedFrom(p), a) = u
      BY <1>0, ProjectedEach
    <3>3. s \in Seq(Instruction) /\ Len(s) = Len(x)
      BY <1>10, <1>5
    <3>4. Spells(ReceivedFrom(p), s, t)
      BY <1>4, <3>1, <3>3 DEF Spells
    <3>5. Projected(ReceivedFrom(p), s) = t
      BY <3>2, <3>3, <3>4
    <3>. QED
      BY <2>1, <3>5
  <2>2. CASE p # 0
    BY <1>0, <1>5, <1>7, <1>8, <2>2, GateByGate
  <2>. QED
    BY <2>1, <2>2
<1>12. r \in Seq(Instruction) /\ Projected(ReceivedFrom(p), r) = << >>
  BY <1>0, <1>6, <1>7, <1>9, GateByGate
<1>13. Projected(SentTo(p), r) = IF p = c THEN t ELSE << >>
  <2>1. CASE p = c
    <3>1. \A j \in 1 .. Len(x) : SentTo(p)[r[j]] = << t[j] >>
      BY <1>9, <2>1
    <3>2. \A a \in Seq(Instruction), u \in Seq(Tag) : Spells(SentTo(p), a, u) => Projected(SentTo(p), a) = u
      BY <1>0, ProjectedEach
    <3>3. r \in Seq(Instruction) /\ Len(r) = Len(x)
      BY <1>12, <1>6
    <3>4. Spells(SentTo(p), r, t)
      BY <1>4, <3>1, <3>3 DEF Spells
    <3>5. Projected(SentTo(p), r) = t
      BY <3>2, <3>3, <3>4
    <3>. QED
      BY <2>1, <3>5
  <2>2. CASE p # c
    BY <1>0, <1>6, <1>7, <1>9, <2>2, GateByGate
  <2>. QED
    BY <2>1, <2>2
<1>. QED
  BY <1>2, <1>3, <1>4, <1>10, <1>11, <1>12, <1>13

\* The shares of the mus of a batch on their way from P1.
LEMMA DealtPass ==
  ASSUME NEW b \in Batches, NEW p \in Parties
  PROVE  /\ DealsBatch(b) \in Seq(Instruction) /\ TakesBatch(b) \in Seq(Instruction)
         /\ MuOf(b) \in Seq(Tag)
         /\ Projected(SentTo(p), DealsBatch(b)) = MuOf(b)
         /\ Projected(ReceivedFrom(p), DealsBatch(b)) = << >>
         /\ Projected(SentTo(p), TakesBatch(b)) = << >>
         /\ Projected(ReceivedFrom(p), TakesBatch(b)) = (IF p = 0 THEN MuOf(b) ELSE << >>)
<1>0. Maps(SentTo(p), Instruction, Tag) /\ Maps(ReceivedFrom(p), Instruction, Tag)
  BY Trading
<1>1. PICK n \in Nat : n = NParties
  BY Shapes
<1>2. PICK I, T : I = Instruction /\ T = Tag
  OBVIOUS
<1>3. PICK d : d = DealsBatch(b)
  OBVIOUS
<1>4. PICK r : r = TakesBatch(b)
  OBVIOUS
<1>5. PICK m, m1, m2 : m = MuOf(b) /\ m1 = << "mu", b, 1 >> /\ m2 = << "mu", b, 2 >>
  OBVIOUS
<1>6. m1 \in T /\ m2 \in T
  BY <1>2, <1>5 DEF Tag
<1>7. m = << m1, m2 >> /\ m \in Seq(T) /\ Len(m) = 2 /\ m[1] = m1 /\ m[2] = m2
  BY <1>5, <1>6 DEF MuOf
<1>8. /\ r \in Seq(I) /\ Len(r) = 2
      /\ r[1] = TakesDealt(b, 1) /\ r[2] = TakesDealt(b, 2)
  <2>1. \A s \in 1 .. 2 : TakesDealt(b, s) \in I
    BY <1>2, DealtBatches
  <2>. QED
    BY <1>4, <2>1 DEF TakesBatch
<1>9. /\ SentTo(p)[r[1]] = << >> /\ SentTo(p)[r[2]] = << >>
      /\ ReceivedFrom(p)[r[1]] = (IF p = 0 THEN << m1 >> ELSE << >>)
      /\ ReceivedFrom(p)[r[2]] = (IF p = 0 THEN << m2 >> ELSE << >>)
  <2>1. 1 \in 1 .. 2 /\ 2 \in 1 .. 2
    OBVIOUS
  <2>2. SentTo(p)[TakesDealt(b, 1)] = << >> /\ SentTo(p)[TakesDealt(b, 2)] = << >>
    BY <2>1, DealtBatches
  <2>3. ReceivedFrom(p)[TakesDealt(b, 1)] = (IF p = 0 THEN << m1 >> ELSE << >>)
    BY <1>5, <2>1, DealtBatches
  <2>4. ReceivedFrom(p)[TakesDealt(b, 2)] = (IF p = 0 THEN << m2 >> ELSE << >>)
    BY <1>5, <2>1, DealtBatches
  <2>. QED
    BY <1>8, <2>2, <2>3, <2>4
<1>10. Projected(SentTo(p), r) = << >>
  <2>1. \A i \in 1 .. Len(r) : SentTo(p)[r[i]] = << >>
    BY <1>8, <1>9
  <2>. QED
    BY <1>0, <1>2, <1>8, <2>1, ProjectedNothing
<1>11. Projected(ReceivedFrom(p), r) = IF p = 0 THEN m ELSE << >>
  <2>1. CASE p = 0
    <3>1. Spells(ReceivedFrom(p), r, m)
      BY <1>7, <1>8, <1>9, <2>1 DEF Spells
    <3>2. \A a \in Seq(Instruction), u \in Seq(Tag) : Spells(ReceivedFrom(p), a, u) => Projected(ReceivedFrom(p), a) = u
      BY <1>0, ProjectedEach
    <3>3. Projected(ReceivedFrom(p), r) = m
      BY <1>2, <1>7, <1>8, <3>1, <3>2
    <3>. QED
      BY <2>1, <3>3
  <2>2. CASE p # 0
    <3>1. \A i \in 1 .. Len(r) : ReceivedFrom(p)[r[i]] = << >>
      BY <1>8, <1>9, <2>2
    <3>. QED
      BY <1>0, <1>2, <1>8, <2>2, <3>1, ProjectedNothing
  <2>. QED
    BY <2>1, <2>2
<1>12. \A i \in 1 .. 2 * n : (i - 1) \div 2 \in Parties /\ ((i - 1) % 2) + 1 \in 1 .. 2
  BY <1>1 DEF Parties
<1>13. ASSUME NEW i \in 1 .. 2 * n
       PROVE  /\ Deals(b, (i - 1) \div 2, ((i - 1) % 2) + 1) \in I
              /\ ReceivedFrom(p)[Deals(b, (i - 1) \div 2, ((i - 1) % 2) + 1)] = << >>
              /\ SentTo(p)[Deals(b, (i - 1) \div 2, ((i - 1) % 2) + 1)] =
                   IF p = (i - 1) \div 2 THEN << << "mu", b, ((i - 1) % 2) + 1 >> >> ELSE << >>
  <2>1. PICK c \in Parties, s \in 1 .. 2 : c = (i - 1) \div 2 /\ s = ((i - 1) % 2) + 1
    BY <1>12
  <2>2. Deals(b, c, s) \in I /\ ReceivedFrom(p)[Deals(b, c, s)] = << >>
    BY <1>2, DealtBatches
  <2>3. SentTo(p)[Deals(b, c, s)] = IF p = c THEN << << "mu", b, s >> >> ELSE << >>
    BY DealtBatches
  <2>. QED
    BY <2>1, <2>2, <2>3
<1> DEFINE G(i) == Deals(b, (i - 1) \div 2, ((i - 1) % 2) + 1)
<1>g. \A i \in 1 .. 2 * n :
        /\ G(i) \in I /\ ReceivedFrom(p)[G(i)] = << >>
        /\ (i - 1) \div 2 # p => SentTo(p)[G(i)] = << >>
  BY <1>13
<1>h. d = [i \in 1 .. 2 * n |-> G(i)]
  BY <1>1, <1>3 DEF DealsBatch
<1> HIDE DEF G
<1>14. d \in Seq(I) /\ Len(d) = 2 * n /\ \A i \in 1 .. 2 * n : d[i] = G(i)
  <2>1. PICK z \in Nat : z = 2 * n
    OBVIOUS
  <2>2. d = [i \in 1 .. z |-> G(i)] /\ \A i \in 1 .. z : G(i) \in I
    BY <1>g, <1>h, <2>1
  <2>. QED
    BY <2>1, <2>2
<1>15. Projected(ReceivedFrom(p), d) = << >>
  <2>1. \A i \in 1 .. Len(d) : ReceivedFrom(p)[d[i]] = << >>
    BY <1>g, <1>14
  <2>. QED
    BY <1>0, <1>2, <1>14, <2>1, ProjectedNothing
<1>16. PICK k \in Nat : k = 2 * p + 1
  BY DEF Parties
<1>17. 1 <= k /\ k + 1 <= 2 * n /\ k \in 1 .. 2 * n /\ k + 1 \in 1 .. 2 * n
       /\ (k - 1) \div 2 = p /\ (k - 1) % 2 = 0 /\ (k + 1 - 1) \div 2 = p /\ (k + 1 - 1) % 2 = 1
  BY <1>1, <1>16 DEF Parties
<1>18. \A i \in 1 .. 2 * n : i # k /\ i # k + 1 => (i - 1) \div 2 # p
  BY <1>1, <1>16 DEF Parties
<1>19. \A i \in 1 .. Len(d) : i # k /\ i # k + 1 => SentTo(p)[d[i]] = << >>
  BY <1>g, <1>14, <1>18
<1>20. SentTo(p)[d[k]] = << m1 >>
  <2>1. d[k] = Deals(b, p, 1)
    BY <1>14, <1>17 DEF G
  <2>2. 1 \in 1 .. 2
    OBVIOUS
  <2>. QED
    BY <1>5, <2>1, <2>2, DealtBatches, ZenonT(60)
<1>21. SentTo(p)[d[k + 1]] = << m2 >>
  <2>1. d[k + 1] = Deals(b, p, 2)
    BY <1>14, <1>17 DEF G
  <2>2. 2 \in 1 .. 2
    OBVIOUS
  <2>. QED
    BY <1>5, <2>1, <2>2, DealtBatches, ZenonT(60)
<1>22. PICK x, y \in Seq(T) : x = << m1 >> /\ y = << m2 >> /\ Len(x) = 1 /\ Len(y) = 1 /\ x[1] = m1 /\ y[1] = m2
  <2>1. \A e \in T : << e >> \in Seq(T) /\ Len(<< e >>) = 1 /\ << e >>[1] = e
    OBVIOUS
  <2>. QED
    BY <1>6, <2>1
<1>23. x \o y = m
  <2>1. PICK z : z = x \o y
    OBVIOUS
  <2>2. z \in Seq(T) /\ Len(z) = 1 + 1 /\ \A i \in 1 .. 1 + 1 : z[i] = IF i <= 1 THEN x[i] ELSE y[i - 1]
    BY <1>22, <2>1, ConcatProperties
  <2>3. z[1] = m1 /\ z[2] = m2 /\ Len(z) = 2
    BY <1>22, <2>2
  <2>4. \A i \in 1 .. 2 : z[i] = m[i]
    BY <1>7, <2>3
  <2>. QED
    BY <1>7, <2>1, <2>2, <2>3, <2>4, SeqEqual, ZenonT(60)
<1>24. Projected(SentTo(p), d) = m
  <2>1. OnlyAtTwo(SentTo(p), d, k, x, y)
    BY <1>14, <1>17, <1>19, <1>20, <1>21, <1>22 DEF OnlyAtTwo
  <2>2. \A e \in Seq(Instruction), h \in Nat, t, u \in Seq(Tag) :
          OnlyAtTwo(SentTo(p), e, h, t, u) => Projected(SentTo(p), e) = t \o u
    BY <1>0, ProjectedFew
  <2>3. d \in Seq(Instruction) /\ x \in Seq(Tag) /\ y \in Seq(Tag)
    BY <1>2, <1>14, <1>22
  <2>4. Projected(SentTo(p), d) = x \o y
    BY <2>1, <2>2, <2>3
  <2>. QED
    BY <1>23, <2>4
<1>. QED
  BY <1>2, <1>3, <1>4, <1>5, <1>7, <1>8, <1>10, <1>11, <1>14, <1>15, <1>24

\* The share of a product on its way to P1.
LEMMA ProductPass ==
  ASSUME NEW b \in Batches, NEW p \in Parties
  PROVE  /\ << Multiplies(b) >> \in Seq(Instruction) /\ TakesProducts(b) \in Seq(Instruction)
         /\ Projected(SentTo(p), << Multiplies(b) >>) = (IF p = 0 THEN << << "product", b >> >> ELSE << >>)
         /\ Projected(ReceivedFrom(p), << Multiplies(b) >>) = << >>
         /\ Projected(SentTo(p), TakesProducts(b)) = << >>
         /\ Projected(ReceivedFrom(p), TakesProducts(b)) = << << "product", b >> >>
<1>0. Maps(SentTo(p), Instruction, Tag) /\ Maps(ReceivedFrom(p), Instruction, Tag)
  BY Trading
<1>1. PICK n \in Nat : n = NParties
  BY Shapes
<1>2. PICK I : I = Instruction
  OBVIOUS
<1>3. PICK e : e = Multiplies(b)
  OBVIOUS
<1>4. PICK r : r = TakesProducts(b)
  OBVIOUS
<1>5. e \in I /\ ReceivedFrom(p)[e] = << >> /\ SentTo(p)[e] = IF p = 0 THEN << << "product", b >> >> ELSE << >>
  BY <1>2, <1>3, ProductBatches
<1>6. << e >> \in Seq(I) /\ Len(<< e >>) = 1 /\ << e >>[1] = e
  BY <1>5
<1>a. \A a \in Seq(Instruction), h \in Nat, t \in Seq(Tag) :
        /\ OnlyAt(SentTo(p), a, h, t) => Projected(SentTo(p), a) = t
        /\ OnlyAt(ReceivedFrom(p), a, h, t) => Projected(ReceivedFrom(p), a) = t
  BY <1>0, ProjectedFew
<1>b. << >> \in Seq(Tag) /\ << << "product", b >> >> \in Seq(Tag)
  <2>1. PICK T, t : T = Tag /\ t = << "product", b >>
    OBVIOUS
  <2>2. t \in T
    BY <2>1 DEF Tag
  <2>3. << >> \in Seq(T) /\ << t >> \in Seq(T)
    BY <2>2
  <2>. QED
    BY <2>1, <2>3
<1>7. Projected(SentTo(p), << e >>) = SentTo(p)[e] /\ Projected(ReceivedFrom(p), << e >>) = ReceivedFrom(p)[e]
  <2>1. PICK s : s = << e >>
    OBVIOUS
  <2>2. s \in Seq(I) /\ Len(s) = 1 /\ s[1] = e
    BY <1>6, <2>1
  <2>3. PICK t, u \in Seq(Tag) : t = SentTo(p)[e] /\ u = ReceivedFrom(p)[e]
    BY <1>5, <1>b
  <2>4. OnlyAt(SentTo(p), s, 1, t) /\ OnlyAt(ReceivedFrom(p), s, 1, u)
    BY <2>2, <2>3 DEF OnlyAt
  <2>5. 1 \in Nat /\ s \in Seq(Instruction)
    BY <1>2, <2>2
  <2>6. Projected(SentTo(p), s) = t /\ Projected(ReceivedFrom(p), s) = u
    BY <1>a, <2>3, <2>4, <2>5
  <2>. QED
    BY <2>1, <2>3, <2>6
<1>8. \A i \in 1 .. n : i - 1 \in Parties
  BY <1>1 DEF Parties
<1>9. ASSUME NEW i \in 1 .. n
      PROVE  /\ TakesProduct(b, i - 1) \in I
             /\ SentTo(p)[TakesProduct(b, i - 1)] = << >>
             /\ ReceivedFrom(p)[TakesProduct(b, i - 1)] = IF p = i - 1 THEN << << "product", b >> >> ELSE << >>
  <2>1. PICK c \in Parties : c = i - 1
    BY <1>8
  <2>2. TakesProduct(b, c) \in I /\ SentTo(p)[TakesProduct(b, c)] = << >>
    BY <1>2, ProductBatches
  <2>3. ReceivedFrom(p)[TakesProduct(b, c)] = IF p = c THEN << << "product", b >> >> ELSE << >>
    BY ProductBatches
  <2>. QED
    BY <2>1, <2>2, <2>3
<1>10. r \in Seq(I) /\ Len(r) = n /\ \A i \in 1 .. n : r[i] = TakesProduct(b, i - 1)
  BY <1>1, <1>4, <1>9 DEF TakesProducts
<1>11. Projected(SentTo(p), r) = << >>
  <2>1. \A i \in 1 .. Len(r) : SentTo(p)[r[i]] = << >>
    BY <1>9, <1>10
  <2>. QED
    BY <1>0, <1>2, <1>10, <2>1, ProjectedNothing
<1>12. PICK k \in 1 .. n : k - 1 = p
  BY <1>1 DEF Parties
<1>13. \A i \in 1 .. n : i # k => i - 1 # p
  BY <1>12 DEF Parties
<1>14. Projected(ReceivedFrom(p), r) = << << "product", b >> >>
  <2>1. PICK t \in Seq(Tag) : t = << << "product", b >> >>
    BY <1>b
  <2>2. ReceivedFrom(p)[r[k]] = t
    BY <1>9, <1>10, <1>12, <2>1
  <2>3. OnlyAt(ReceivedFrom(p), r, k, t)
    BY <1>9, <1>10, <1>13, <2>2 DEF OnlyAt
  <2>4. k \in Nat /\ r \in Seq(Instruction)
    BY <1>2, <1>10
  <2>. QED
    BY <1>a, <2>1, <2>3, <2>4
<1>. QED
  BY <1>2, <1>3, <1>4, <1>5, <1>6, <1>7, <1>10, <1>11, <1>14

\* What is done for batch after batch, and what is projected of it.
LEMMA BatchByBatch ==
  ASSUME NEW f, Maps(f, Instruction, Tag), NEW n \in Nat, NEW s, s = [b \in 1 .. n |-> s[b]],
         \A b \in 1 .. n : s[b] \in Seq(Instruction)
  PROVE  /\ s \in Seq(Seq(Instruction)) /\ Len(s) = n /\ FlattenSeq(s) \in Seq(Instruction)
         /\ (\A b \in 1 .. n : Projected(f, s[b]) = << >>) => Projected(f, FlattenSeq(s)) = << >>
<1>1. PICK U : U = Seq(Instruction)
  OBVIOUS
<1>2. s \in Seq(U) /\ Len(s) = n
  BY <1>1
<1>3. s \in Seq(Seq(Instruction))
  BY <1>1, <1>2
<1>4. FlattenSeq(s) \in Seq(Instruction)
  BY <1>3, FlattenType
<1>5. ASSUME \A b \in 1 .. n : Projected(f, s[b]) = << >> PROVE Projected(f, FlattenSeq(s)) = << >>
  BY <1>2, <1>3, <1>5, ProjectedRows
<1>. QED
  BY <1>2, <1>3, <1>4, <1>5

\* The first phase of a layer: the shares of the mus.
LEMMA MusPass ==
  ASSUME NEW l \in Layers, NEW p \in Parties
  PROVE  /\ P1Sends(l) \in Seq(Instruction) /\ PartiesReceive(l) \in Seq(Instruction)
         /\ MuTags(l) \in Seq(Tag)
         /\ Projected(SentTo(p), P1Sends(l)) = MuTags(l)
         /\ Projected(ReceivedFrom(p), P1Sends(l)) = << >>
         /\ Projected(SentTo(p), PartiesReceive(l)) = << >>
         /\ Projected(ReceivedFrom(p), PartiesReceive(l)) = (IF p = 0 THEN MuTags(l) ELSE << >>)
<1>0. Maps(SentTo(p), Instruction, Tag) /\ Maps(ReceivedFrom(p), Instruction, Tag)
  BY Trading
<1>1. PICK n \in Nat : n = Len(Circuit.layers[l])
  BY Shapes
<1>2. \A b \in 1 .. n : << l, b >> \in Batches
  BY <1>1, Shapes
<1>3. PICK d : d = [b \in 1 .. n |-> DealsBatch(<< l, b >>)]
  OBVIOUS
<1>4. PICK r : r = [b \in 1 .. n |-> TakesBatch(<< l, b >>)]
  OBVIOUS
<1>5. PICK m : m = [b \in 1 .. n |-> MuOf(<< l, b >>)]
  OBVIOUS
<1>6. P1Sends(l) = FlattenSeq(d) /\ PartiesReceive(l) = FlattenSeq(r) /\ MuTags(l) = FlattenSeq(m)
  BY <1>1, <1>3, <1>4, <1>5, Spelled DEF MuTags
<1>7. ASSUME NEW b \in 1 .. n
      PROVE  /\ d[b] \in Seq(Instruction) /\ r[b] \in Seq(Instruction) /\ m[b] \in Seq(Tag)
             /\ Projected(SentTo(p), d[b]) = m[b] /\ Projected(ReceivedFrom(p), d[b]) = << >>
             /\ Projected(SentTo(p), r[b]) = << >>
             /\ Projected(ReceivedFrom(p), r[b]) = IF p = 0 THEN m[b] ELSE << >>
  <2>1. PICK x \in Batches : x = << l, b >>
    BY <1>2
  <2>2. d[b] = DealsBatch(x) /\ r[b] = TakesBatch(x) /\ m[b] = MuOf(x)
    BY <1>3, <1>4, <1>5, <2>1
  <2>. QED
    BY <2>2, DealtPass
<1>8. d = [b \in 1 .. n |-> d[b]] /\ r = [b \in 1 .. n |-> r[b]] /\ m = [b \in 1 .. n |-> m[b]]
  BY <1>3, <1>4, <1>5
<1>9. /\ d \in Seq(Seq(Instruction)) /\ Len(d) = n /\ FlattenSeq(d) \in Seq(Instruction)
      /\ Projected(ReceivedFrom(p), FlattenSeq(d)) = << >>
  BY <1>0, <1>7, <1>8, BatchByBatch
<1>10. /\ r \in Seq(Seq(Instruction)) /\ Len(r) = n /\ FlattenSeq(r) \in Seq(Instruction)
       /\ Projected(SentTo(p), FlattenSeq(r)) = << >>
  BY <1>0, <1>7, <1>8, BatchByBatch
<1>11. m \in Seq(Seq(Tag)) /\ Len(m) = n
  <2>1. PICK U : U = Seq(Tag)
    OBVIOUS
  <2>2. m \in Seq(U) /\ Len(m) = n
    BY <1>7, <1>8, <2>1, SMTT(30)
  <2>. QED
    BY <2>1, <2>2
<1>12. FlattenSeq(m) \in Seq(Tag)
  BY <1>11, FlattenType
<1>13. Projected(SentTo(p), FlattenSeq(d)) = FlattenSeq(m)
  <2>1. SpellsRows(SentTo(p), d, m)
    BY <1>7, <1>9, <1>11 DEF SpellsRows
  <2>. QED
    BY <1>0, <1>9, <1>11, <2>1, ProjectedRows
<1>14. Projected(ReceivedFrom(p), FlattenSeq(r)) = IF p = 0 THEN FlattenSeq(m) ELSE << >>
  <2>1. CASE p = 0
    <3>1. SpellsRows(ReceivedFrom(p), r, m)
      BY <1>7, <1>10, <1>11, <2>1 DEF SpellsRows
    <3>2. Projected(ReceivedFrom(p), FlattenSeq(r)) = FlattenSeq(m)
      BY <1>0, <1>10, <1>11, <3>1, ProjectedRows
    <3>. QED
      BY <2>1, <3>2
  <2>2. CASE p # 0
    <3>1. \A b \in 1 .. n : Projected(ReceivedFrom(p), r[b]) = << >>
      BY <1>7, <2>2
    <3>2. Projected(ReceivedFrom(p), FlattenSeq(r)) = << >>
      BY <1>0, <1>7, <1>8, <3>1, BatchByBatch
    <3>. QED
      BY <2>2, <3>2
  <2>. QED
    BY <2>1, <2>2
<1>. QED
  BY <1>6, <1>9, <1>10, <1>12, <1>13, <1>14

\* The second: the shares of the products.
LEMMA ProductsPass ==
  ASSUME NEW l \in Layers, NEW p \in Parties
  PROVE  /\ PartiesSend(l) \in Seq(Instruction) /\ P1ReceivesProducts(l) \in Seq(Instruction)
         /\ ProductTags(l) \in Seq(Tag)
         /\ Projected(SentTo(p), PartiesSend(l)) = (IF p = 0 THEN ProductTags(l) ELSE << >>)
         /\ Projected(ReceivedFrom(p), PartiesSend(l)) = << >>
         /\ Projected(SentTo(p), P1ReceivesProducts(l)) = << >>
         /\ Projected(ReceivedFrom(p), P1ReceivesProducts(l)) = ProductTags(l)
<1>0. Maps(SentTo(p), Instruction, Tag) /\ Maps(ReceivedFrom(p), Instruction, Tag)
  BY Trading
<1>1. PICK n \in Nat : n = Len(Circuit.layers[l])
  BY Shapes
<1>2. \A b \in 1 .. n : << l, b >> \in Batches
  BY <1>1, Shapes
<1>3. PICK d : d = [b \in 1 .. n |-> << Multiplies(<< l, b >>) >>]
  OBVIOUS
<1>4. PICK r : r = [b \in 1 .. n |-> TakesProducts(<< l, b >>)]
  OBVIOUS
<1>5. PICK t : t = ProductTags(l)
  OBVIOUS
<1>6. PartiesSend(l) = FlattenSeq(d) /\ P1ReceivesProducts(l) = FlattenSeq(r)
  BY <1>1, <1>3, <1>4, Spelled
<1>7. t \in Seq(Tag) /\ Len(t) = n /\ \A b \in 1 .. n : t[b] = << "product", << l, b >> >>
  <2>1. PICK T : T = Tag
    OBVIOUS
  <2>2. \A b \in 1 .. n : << "product", << l, b >> >> \in T
    <3>1. \A x \in Batches : << "product", x >> \in T
      BY <2>1 DEF Tag
    <3>. QED
      BY <1>2, <3>1
  <2>3. t = [b \in 1 .. n |-> << "product", << l, b >> >>]
    BY <1>1, <1>5 DEF ProductTags
  <2>. QED
    BY <2>1, <2>2, <2>3
<1>8. PICK m : m = [b \in 1 .. n |-> << t[b] >>]
  OBVIOUS
<1>9. m \in Seq(Seq(Tag)) /\ Len(m) = n /\ \A b \in 1 .. n : m[b] = << t[b] >>
  <2>1. PICK U : U = Seq(Tag)
    OBVIOUS
  <2>2. \A b \in 1 .. n : << t[b] >> \in U
    BY <1>7, <2>1
  <2>3. m \in Seq(U) /\ Len(m) = n /\ \A b \in 1 .. n : m[b] = << t[b] >>
    BY <1>8, <2>2
  <2>. QED
    BY <2>1, <2>3
<1>10. FlattenSeq(m) = t
  BY <1>7, <1>9, FlattenSingles
<1>11. ASSUME NEW b \in 1 .. n
       PROVE  /\ d[b] \in Seq(Instruction) /\ r[b] \in Seq(Instruction)
              /\ Projected(SentTo(p), d[b]) = (IF p = 0 THEN m[b] ELSE << >>)
              /\ Projected(ReceivedFrom(p), d[b]) = << >>
              /\ Projected(SentTo(p), r[b]) = << >> /\ Projected(ReceivedFrom(p), r[b]) = m[b]
  <2>1. PICK x \in Batches : x = << l, b >>
    BY <1>2
  <2>2. d[b] = << Multiplies(x) >> /\ r[b] = TakesProducts(x)
    BY <1>3, <1>4, <2>1
  <2>3. m[b] = << << "product", x >> >>
    BY <1>7, <1>9, <2>1
  <2>. QED
    BY <2>2, <2>3, ProductPass
<1>12. d = [b \in 1 .. n |-> d[b]] /\ r = [b \in 1 .. n |-> r[b]]
  BY <1>3, <1>4
<1>13. /\ d \in Seq(Seq(Instruction)) /\ Len(d) = n /\ FlattenSeq(d) \in Seq(Instruction)
       /\ Projected(ReceivedFrom(p), FlattenSeq(d)) = << >>
  BY <1>0, <1>11, <1>12, BatchByBatch
<1>14. /\ r \in Seq(Seq(Instruction)) /\ Len(r) = n /\ FlattenSeq(r) \in Seq(Instruction)
       /\ Projected(SentTo(p), FlattenSeq(r)) = << >>
  BY <1>0, <1>11, <1>12, BatchByBatch
<1>15. Projected(ReceivedFrom(p), FlattenSeq(r)) = FlattenSeq(m)
  <2>1. SpellsRows(ReceivedFrom(p), r, m)
    BY <1>9, <1>11, <1>14 DEF SpellsRows
  <2>. QED
    BY <1>0, <1>9, <1>14, <2>1, ProjectedRows
<1>16. Projected(SentTo(p), FlattenSeq(d)) = IF p = 0 THEN FlattenSeq(m) ELSE << >>
  <2>1. CASE p = 0
    <3>1. SpellsRows(SentTo(p), d, m)
      BY <1>9, <1>11, <1>13, <2>1 DEF SpellsRows
    <3>2. Projected(SentTo(p), FlattenSeq(d)) = FlattenSeq(m)
      BY <1>0, <1>9, <1>13, <3>1, ProjectedRows
    <3>. QED
      BY <2>1, <3>2
  <2>2. CASE p # 0
    <3>1. \A b \in 1 .. n : Projected(SentTo(p), d[b]) = << >>
      BY <1>11, <2>2
    <3>2. Projected(SentTo(p), FlattenSeq(d)) = << >>
      BY <1>0, <1>11, <1>12, <3>1, BatchByBatch
    <3>. QED
      BY <2>2, <3>2
  <2>. QED
    BY <2>1, <2>2
<1>. QED
  BY <1>5, <1>6, <1>7, <1>10, <1>13, <1>14, <1>15, <1>16

\* A layer, as both ends see it.
LEMMA LayerPass ==
  ASSUME NEW l \in Layers, NEW p \in Parties, NEW q \in Parties
  PROVE  /\ MultProgram(q, l) \in Seq(Instruction) /\ LayerTraffic(q, p, l) \in Seq(Tag)
         /\ Projected(SentTo(p), MultProgram(q, l)) = LayerTraffic(q, p, l)
         /\ Projected(ReceivedFrom(q), MultProgram(p, l)) = LayerTraffic(q, p, l)
<1>0. /\ \A a, b \in Seq(Instruction) : Projected(SentTo(p), a \o b) = Projected(SentTo(p), a) \o Projected(SentTo(p), b)
      /\ \A a, b \in Seq(Instruction) :
           Projected(ReceivedFrom(q), a \o b) = Projected(ReceivedFrom(q), a) \o Projected(ReceivedFrom(q), b)
  <2>1. Maps(SentTo(p), Instruction, Tag) /\ Maps(ReceivedFrom(q), Instruction, Tag)
    BY Trading
  <2>2. \A a, b \in Seq(Instruction) : Projected(SentTo(p), a \o b) = Projected(SentTo(p), a) \o Projected(SentTo(p), b)
    BY <2>1, ProjectedConcat
  <2>3. \A a, b \in Seq(Instruction) :
          Projected(ReceivedFrom(q), a \o b) = Projected(ReceivedFrom(q), a) \o Projected(ReceivedFrom(q), b)
    BY <2>1, ProjectedConcat
  <2>. QED
    BY <2>2, <2>3
<1>1. PICK a, b, c, d \in Seq(Instruction) :
        a = P1Sends(l) /\ b = PartiesReceive(l) /\ c = PartiesSend(l) /\ d = P1ReceivesProducts(l)
  BY MusPass, ProductsPass
<1>2. PICK m, t \in Seq(Tag) : m = MuTags(l) /\ t = ProductTags(l)
  BY MusPass, ProductsPass
<1>3. /\ Projected(SentTo(p), a) = m /\ Projected(SentTo(p), b) = << >>
      /\ Projected(ReceivedFrom(q), a) = << >>
      /\ Projected(ReceivedFrom(q), b) = IF q = 0 THEN m ELSE << >>
  BY <1>1, <1>2, MusPass
<1>4. /\ Projected(SentTo(p), c) = (IF p = 0 THEN t ELSE << >>) /\ Projected(SentTo(p), d) = << >>
      /\ Projected(ReceivedFrom(q), c) = << >> /\ Projected(ReceivedFrom(q), d) = t
  BY <1>1, <1>2, ProductsPass
<1>5. \A x, y \in Seq(Instruction) : x \o y \in Seq(Instruction)
  BY ConcatProperties
<1>6. << >> \in Seq(Tag) /\ \A x \in Seq(Tag) : << >> \o x = x /\ x \o << >> = x
  BY ConcatEmptySeq
<1>7. PICK ab, abc, abcd \in Seq(Instruction) : ab = a \o b /\ abc = ab \o c /\ abcd = abc \o d
  BY <1>5
<1>8. PICK x \in Seq(Tag) : x = IF p = 0 THEN t ELSE << >>
  BY <1>6
<1>9. PICK y \in Seq(Tag) : y = IF q = 0 THEN m ELSE << >>
  BY <1>6
<1>10. LayerTraffic(q, p, l) = y \o x /\ y \o x \in Seq(Tag)
  <2>1. LayerTraffic(q, p, l) = y \o x
    BY <1>2, <1>8, <1>9 DEF LayerTraffic
  <2>. QED
    BY <2>1, ConcatProperties
<1>11. \A r \in Parties : MultProgram(r, l) = IF r = 0 THEN abcd ELSE b \o c
  BY <1>1, <1>7 DEF MultProgram
<1>s. /\ Projected(SentTo(p), b \o c) = Projected(SentTo(p), b) \o Projected(SentTo(p), c)
      /\ Projected(SentTo(p), ab) = Projected(SentTo(p), a) \o Projected(SentTo(p), b)
      /\ Projected(SentTo(p), abc) = Projected(SentTo(p), ab) \o Projected(SentTo(p), c)
      /\ Projected(SentTo(p), abcd) = Projected(SentTo(p), abc) \o Projected(SentTo(p), d)
  BY <1>0, <1>7, Zenon
<1>r. /\ Projected(ReceivedFrom(q), b \o c) = Projected(ReceivedFrom(q), b) \o Projected(ReceivedFrom(q), c)
      /\ Projected(ReceivedFrom(q), ab) = Projected(ReceivedFrom(q), a) \o Projected(ReceivedFrom(q), b)
      /\ Projected(ReceivedFrom(q), abc) = Projected(ReceivedFrom(q), ab) \o Projected(ReceivedFrom(q), c)
      /\ Projected(ReceivedFrom(q), abcd) = Projected(ReceivedFrom(q), abc) \o Projected(ReceivedFrom(q), d)
  BY <1>0, <1>7, Zenon
<1>12. Projected(SentTo(p), b \o c) = x /\ Projected(ReceivedFrom(q), b \o c) = y
  <2>1. Projected(SentTo(p), b \o c) = << >> \o x
    BY <1>s, <1>3, <1>4, <1>8
  <2>2. Projected(ReceivedFrom(q), b \o c) = y \o << >>
    BY <1>r, <1>3, <1>4, <1>9
  <2>. QED
    BY <1>6, <2>1, <2>2
<1>13. Projected(SentTo(p), abcd) = m \o x
  <2>1. Projected(SentTo(p), ab) = m \o << >>
    BY <1>s, <1>3
  <2>2. Projected(SentTo(p), ab) = m
    BY <1>6, <2>1
  <2>3. Projected(SentTo(p), abc) = m \o x
    BY <1>s, <1>4, <1>8, <2>2
  <2>4. Projected(SentTo(p), abcd) = (m \o x) \o << >>
    BY <1>s, <1>4, <2>3
  <2>5. m \o x \in Seq(Tag)
    BY ConcatProperties
  <2>. QED
    BY <1>6, <2>4, <2>5
<1>14. Projected(ReceivedFrom(q), abcd) = y \o t
  <2>1. Projected(ReceivedFrom(q), ab) = << >> \o y
    BY <1>r, <1>3, <1>9
  <2>2. Projected(ReceivedFrom(q), ab) = y
    BY <1>6, <2>1
  <2>3. Projected(ReceivedFrom(q), abc) = y \o << >>
    BY <1>r, <1>4, <2>2
  <2>4. Projected(ReceivedFrom(q), abc) = y
    BY <1>6, <2>3
  <2>. QED
    BY <1>r, <1>4, <2>4
<1>15. MultProgram(q, l) \in Seq(Instruction)
  BY <1>5, <1>11
<1>16. Projected(SentTo(p), MultProgram(q, l)) = y \o x
  <2>1. CASE q = 0
    <3>1. MultProgram(q, l) = abcd /\ y = m
      BY <1>9, <1>11, <2>1
    <3>. QED
      BY <1>13, <3>1
  <2>2. CASE q # 0
    <3>1. MultProgram(q, l) = b \o c /\ y = << >>
      BY <1>9, <1>11, <2>2
    <3>2. << >> \o x = x
      BY <1>6
    <3>. QED
      BY <1>12, <3>1, <3>2
  <2>. QED
    BY <2>1, <2>2
<1>17. Projected(ReceivedFrom(q), MultProgram(p, l)) = y \o x
  <2>1. CASE p = 0
    <3>1. MultProgram(p, l) = abcd /\ x = t
      BY <1>8, <1>11, <2>1
    <3>. QED
      BY <1>14, <3>1
  <2>2. CASE p # 0
    <3>1. MultProgram(p, l) = b \o c /\ x = << >>
      BY <1>8, <1>11, <2>2
    <3>2. y \o << >> = y
      BY <1>6
    <3>. QED
      BY <1>12, <3>1, <3>2
  <2>. QED
    BY <2>1, <2>2
<1>. QED
  BY <1>10, <1>15, <1>16, <1>17

\* What P1 does for the inputs, or the outputs, of all parties in turn.
LEMMA PartyByParty ==
  ASSUME NEW f, Maps(f, Instruction, Tag), NEW k \in Parties, NEW s,
         s = [c \in 1 .. NParties |-> s[c]], \A c \in 1 .. NParties : s[c] \in Seq(Instruction),
         \A c \in 1 .. NParties : c # k + 1 => Projected(f, s[c]) = << >>
  PROVE  FlattenSeq(s) \in Seq(Instruction) /\ Projected(f, FlattenSeq(s)) = Projected(f, s[k + 1])
<1>1. PICK n \in Nat : n = NParties
  BY Shapes
<1>2. PICK h \in 1 .. n : h = k + 1
  BY <1>1 DEF Parties
<1>3. s \in Seq(Seq(Instruction)) /\ Len(s) = n /\ FlattenSeq(s) \in Seq(Instruction)
  BY <1>1, BatchByBatch
<1>4. OnlyRow(f, s, h)
  BY <1>1, <1>2, <1>3 DEF OnlyRow
<1>5. h \in Nat
  OBVIOUS
<1>6. Projected(f, FlattenSeq(s)) = Projected(f, s[h])
  <2>1. \A a \in Seq(Seq(Instruction)), i \in Nat :
          OnlyRow(f, a, i) => Projected(f, FlattenSeq(a)) = Projected(f, a[i])
    BY ProjectedRows
  <2>. QED
    BY <1>3, <1>4, <1>5, <2>1
<1>. QED
  BY <1>2, <1>3, <1>6

\* The inputs, as both ends see them.
LEMMA InputPass ==
  ASSUME NEW p \in Parties, NEW q \in Parties
  PROVE  /\ InputProgram(q) \in Seq(Instruction) /\ InputTraffic(q, p) \in Seq(Tag)
         /\ Projected(SentTo(p), InputProgram(q)) = InputTraffic(q, p)
         /\ Projected(ReceivedFrom(q), InputProgram(p)) = InputTraffic(q, p)
<1>0. Maps(SentTo(p), Instruction, Tag) /\ Maps(ReceivedFrom(q), Instruction, Tag)
  BY Trading
<1>1. PICK s : s = [c \in 1 .. NParties |-> InputsOf(c - 1)]
  OBVIOUS
<1>2. PICK own : own = [r \in Parties |-> OwnInputs(r)]
  OBVIOUS
<1>3. \A r \in Parties : own[r] \in Seq(Instruction) /\ InputsOf(r) \in Seq(Instruction) /\ InputTags(r) \in Seq(Tag)
  BY <1>2, InputsPass, GateTags
<1>4. /\ Projected(SentTo(p), own[q]) = (IF p = 0 THEN InputTags(q) ELSE << >>)
      /\ Projected(ReceivedFrom(q), own[p]) = << >>
  BY <1>2, InputsPass
<1>5. \A r \in Parties : /\ Projected(SentTo(p), InputsOf(r)) = << >>
                         /\ Projected(ReceivedFrom(q), InputsOf(r)) = IF q = r THEN InputTags(r) ELSE << >>
  BY InputsPass
<1>6. \A c \in 1 .. NParties : c - 1 \in Parties
  BY Shapes DEF Parties
<1>7. \A c \in 1 .. NParties :
        /\ s[c] \in Seq(Instruction) /\ Projected(SentTo(p), s[c]) = << >>
        /\ Projected(ReceivedFrom(q), s[c]) = IF q = c - 1 THEN InputTags(q) ELSE << >>
  BY <1>1, <1>3, <1>5, <1>6
<1>8. s = [c \in 1 .. NParties |-> s[c]]
  BY <1>1
<1>9. PICK all : all = FlattenSeq(s)
  OBVIOUS
<1>10. all \in Seq(Instruction) /\ Projected(SentTo(p), all) = << >>
  BY <1>0, <1>7, <1>8, <1>9, Shapes, BatchByBatch
<1>11. Projected(ReceivedFrom(q), all) = InputTags(q)
  <2>1. \A c \in 1 .. NParties : c # q + 1 => Projected(ReceivedFrom(q), s[c]) = << >>
    <3>1. \A c \in 1 .. NParties : c # q + 1 => q # c - 1
      BY Shapes DEF Parties
    <3>. QED
      BY <1>7, <3>1
  <2>2. Projected(ReceivedFrom(q), FlattenSeq(s)) = Projected(ReceivedFrom(q), s[q + 1])
    BY <1>0, <1>7, <1>8, <2>1, PartyByParty
  <2>3. PICK h \in 1 .. NParties : h = q + 1 /\ q = h - 1
    BY Shapes DEF Parties
  <2>4. Projected(ReceivedFrom(q), s[h]) = InputTags(q)
    BY <1>7, <2>3
  <2>. QED
    BY <1>9, <2>2, <2>3, <2>4
<1>12. PICK rest : rest = [r \in Parties |-> IF r # 0 THEN << >> ELSE all]
  OBVIOUS
<1>13. \A r \in Parties : InputProgram(r) = own[r] \o rest[r]
  BY <1>1, <1>2, <1>9, <1>12, Spelled
<1>14. << >> \in Seq(Instruction) /\ << >> \in Seq(Tag) /\ \A x \in Seq(Tag) : << >> \o x = x /\ x \o << >> = x
  BY ConcatEmptySeq
<1>15. \A r \in Parties : rest[r] \in Seq(Instruction)
  BY <1>10, <1>12, <1>14
<1>16. Projected(SentTo(p), << >>) = << >> /\ Projected(ReceivedFrom(q), << >>) = << >>
  <2>1. PICK e \in Seq(Instruction) : e = << >>
    BY <1>14
  <2>2. Len(e) = 0
    BY <2>1
  <2>3. (\A i \in 1 .. Len(e) : SentTo(p)[e[i]] = << >>) /\ (\A i \in 1 .. Len(e) : ReceivedFrom(q)[e[i]] = << >>)
    BY <2>2
  <2>4. Projected(SentTo(p), e) = << >> /\ Projected(ReceivedFrom(q), e) = << >>
    BY <1>0, <2>3, ProjectedNothing
  <2>. QED
    BY <2>1, <2>4
<1>17. Projected(SentTo(p), rest[q]) = << >> /\ Projected(ReceivedFrom(q), rest[p]) = IF p = 0 THEN InputTags(q) ELSE << >>
  BY <1>10, <1>11, <1>12, <1>16
<1>18. PICK t \in Seq(Tag) : t = InputTraffic(q, p)
  BY <1>3, <1>14 DEF InputTraffic
<1>19. Projected(SentTo(p), own[q]) = t /\ Projected(ReceivedFrom(q), rest[p]) = t
  BY <1>4, <1>17, <1>18 DEF InputTraffic
<1>20. Projected(SentTo(p), own[q] \o rest[q]) = Projected(SentTo(p), own[q]) \o Projected(SentTo(p), rest[q])
  <2>1. \A x, y \in Seq(Instruction) : Projected(SentTo(p), x \o y) = Projected(SentTo(p), x) \o Projected(SentTo(p), y)
    BY <1>0, ProjectedConcat
  <2>2. own[q] \in Seq(Instruction) /\ rest[q] \in Seq(Instruction)
    BY <1>3, <1>15
  <2>. QED
    BY <2>1, <2>2, Zenon
<1>21. Projected(ReceivedFrom(q), own[p] \o rest[p]) = Projected(ReceivedFrom(q), own[p]) \o Projected(ReceivedFrom(q), rest[p])
  <2>1. \A x, y \in Seq(Instruction) : Projected(ReceivedFrom(q), x \o y) = Projected(ReceivedFrom(q), x) \o Projected(ReceivedFrom(q), y)
    BY <1>0, ProjectedConcat
  <2>2. own[p] \in Seq(Instruction) /\ rest[p] \in Seq(Instruction)
    BY <1>3, <1>15
  <2>. QED
    BY <2>1, <2>2, Zenon
<1>22. own[q] \o rest[q] \in Seq(Instruction)
  BY <1>3, <1>15, ConcatProperties
<1>23. Projected(SentTo(p), InputProgram(q)) = t
  <2>1. Projected(SentTo(p), InputProgram(q)) = t \o << >>
    BY <1>13, <1>17, <1>19, <1>20
  <2>. QED
    BY <1>14, <2>1
<1>24. Projected(ReceivedFrom(q), InputProgram(p)) = t
  <2>1. Projected(ReceivedFrom(q), InputProgram(p)) = << >> \o t
    BY <1>4, <1>13, <1>19, <1>21
  <2>. QED
    BY <1>14, <2>1
<1>. QED
  BY <1>13, <1>18, <1>22, <1>23, <1>24

\* The outputs, as both ends see them.
LEMMA OutputPass ==
  ASSUME NEW p \in Parties, NEW q \in Parties
  PROVE  /\ OutputProgram(p) \in Seq(Instruction) /\ OutputTraffic(q, p) \in Seq(Tag)
         /\ Projected(ReceivedFrom(q), OutputProgram(p)) = OutputTraffic(q, p)
         /\ Projected(SentTo(p), OutputProgram(q)) = OutputTraffic(q, p)
<1>0. Maps(ReceivedFrom(q), Instruction, Tag) /\ Maps(SentTo(p), Instruction, Tag)
  BY Trading
<1>1. PICK s : s = [c \in 1 .. NParties |-> OutputsOf(c - 1)]
  OBVIOUS
<1>2. PICK own : own = [r \in Parties |-> OwnOutputs(r)]
  OBVIOUS
<1>3. \A r \in Parties : own[r] \in Seq(Instruction) /\ OutputsOf(r) \in Seq(Instruction) /\ OutputTags(r) \in Seq(Tag)
  BY <1>2, OutputsPass, GateTags
<1>4. /\ Projected(ReceivedFrom(q), own[p]) = (IF q = 0 THEN OutputTags(p) ELSE << >>)
      /\ Projected(SentTo(p), own[q]) = << >>
  BY <1>2, OutputsPass
<1>5. \A r \in Parties : /\ Projected(ReceivedFrom(q), OutputsOf(r)) = << >>
                         /\ Projected(SentTo(p), OutputsOf(r)) = IF p = r THEN OutputTags(r) ELSE << >>
  BY OutputsPass
<1>6. \A c \in 1 .. NParties : c - 1 \in Parties
  BY Shapes DEF Parties
<1>7. \A c \in 1 .. NParties :
        /\ s[c] \in Seq(Instruction) /\ Projected(ReceivedFrom(q), s[c]) = << >>
        /\ Projected(SentTo(p), s[c]) = IF p = c - 1 THEN OutputTags(p) ELSE << >>
  BY <1>1, <1>3, <1>5, <1>6
<1>8. s = [c \in 1 .. NParties |-> s[c]]
  BY <1>1
<1>9. PICK all : all = FlattenSeq(s)
  OBVIOUS
<1>10. all \in Seq(Instruction) /\ Projected(ReceivedFrom(q), all) = << >>
  BY <1>0, <1>7, <1>8, <1>9, Shapes, BatchByBatch
<1>11. Projected(SentTo(p), all) = OutputTags(p)
  <2>1. \A c \in 1 .. NParties : c # p + 1 => Projected(SentTo(p), s[c]) = << >>
    <3>1. \A c \in 1 .. NParties : c # p + 1 => p # c - 1
      BY Shapes DEF Parties
    <3>. QED
      BY <1>7, <3>1
  <2>2. Projected(SentTo(p), FlattenSeq(s)) = Projected(SentTo(p), s[p + 1])
    BY <1>0, <1>7, <1>8, <2>1, PartyByParty
  <2>3. PICK h \in 1 .. NParties : h = p + 1 /\ p = h - 1
    BY Shapes DEF Parties
  <2>4. Projected(SentTo(p), s[h]) = OutputTags(p)
    BY <1>7, <2>3
  <2>. QED
    BY <1>9, <2>2, <2>3, <2>4
<1>12. PICK rest : rest = [r \in Parties |-> IF r # 0 THEN << >> ELSE all]
  OBVIOUS
<1>13. \A r \in Parties : OutputProgram(r) = rest[r] \o own[r]
  BY <1>1, <1>2, <1>9, <1>12, Spelled
<1>14. << >> \in Seq(Instruction) /\ << >> \in Seq(Tag) /\ \A x \in Seq(Tag) : << >> \o x = x /\ x \o << >> = x
  BY ConcatEmptySeq
<1>15. \A r \in Parties : rest[r] \in Seq(Instruction)
  BY <1>10, <1>12, <1>14
<1>16. Projected(ReceivedFrom(q), << >>) = << >> /\ Projected(SentTo(p), << >>) = << >>
  <2>1. PICK e \in Seq(Instruction) : e = << >>
    BY <1>14
  <2>2. Len(e) = 0
    BY <2>1
  <2>3. (\A i \in 1 .. Len(e) : ReceivedFrom(q)[e[i]] = << >>) /\ (\A i \in 1 .. Len(e) : SentTo(p)[e[i]] = << >>)
    BY <2>2
  <2>4. Projected(ReceivedFrom(q), e) = << >> /\ Projected(SentTo(p), e) = << >>
    BY <1>0, <2>3, ProjectedNothing
  <2>. QED
    BY <2>1, <2>4
<1>17. Projected(ReceivedFrom(q), rest[p]) = << >> /\ Projected(SentTo(p), rest[q]) = IF q = 0 THEN OutputTags(p) ELSE << >>
  BY <1>10, <1>11, <1>12, <1>16
<1>18. PICK t \in Seq(Tag) : t = OutputTraffic(q, p)
  BY <1>3, <1>14 DEF OutputTraffic
<1>19. Projected(ReceivedFrom(q), own[p]) = t /\ Projected(SentTo(p), rest[q]) = t
  BY <1>4, <1>17, <1>18 DEF OutputTraffic
<1>20. Projected(ReceivedFrom(q), rest[p] \o own[p]) = Projected(ReceivedFrom(q), rest[p]) \o Projected(ReceivedFrom(q), own[p])
  <2>1. \A x, y \in Seq(Instruction) : Projected(ReceivedFrom(q), x \o y) = Projected(ReceivedFrom(q), x) \o Projected(ReceivedFrom(q), y)
    BY <1>0, ProjectedConcat
  <2>2. rest[p] \in Seq(Instruction) /\ own[p] \in Seq(Instruction)
    BY <1>3, <1>15
  <2>. QED
    BY <2>1, <2>2, Zenon
<1>21. Projected(SentTo(p), rest[q] \o own[q]) = Projected(SentTo(p), rest[q]) \o Projected(SentTo(p), own[q])
  <2>1. \A x, y \in Seq(Instruction) : Projected(SentTo(p), x \o y) = Projected(SentTo(p), x) \o Projected(SentTo(p), y)
    BY <1>0, ProjectedConcat
  <2>2. rest[q] \in Seq(Instruction) /\ own[q] \in Seq(Instruction)
    BY <1>3, <1>15
  <2>. QED
    BY <2>1, <2>2, Zenon
<1>22. rest[p] \o own[p] \in Seq(Instruction)
  BY <1>3, <1>15, ConcatProperties
<1>23. Projected(ReceivedFrom(q), OutputProgram(p)) = t
  <2>1. Projected(ReceivedFrom(q), OutputProgram(p)) = << >> \o t
    BY <1>13, <1>17, <1>19, <1>20
  <2>. QED
    BY <1>14, <2>1
<1>24. Projected(SentTo(p), OutputProgram(q)) = t
  <2>1. Projected(SentTo(p), OutputProgram(q)) = t \o << >>
    BY <1>4, <1>13, <1>19, <1>21
  <2>. QED
    BY <1>14, <2>1
<1>. QED
  BY <1>13, <1>18, <1>22, <1>23, <1>24

Traffic(q, p) ==
  (InputTraffic(q, p) \o FlattenSeq([l \in Layers |-> LayerTraffic(q, p, l)])) \o OutputTraffic(q, p)

\* What is done for layer after layer.
LEMMA LayersPass ==
  ASSUME NEW p \in Parties, NEW q \in Parties
  PROVE  /\ FlattenSeq([l \in Layers |-> MultProgram(q, l)]) \in Seq(Instruction)
         /\ FlattenSeq([l \in Layers |-> LayerTraffic(q, p, l)]) \in Seq(Tag)
         /\ Projected(SentTo(p), FlattenSeq([l \in Layers |-> MultProgram(q, l)]))
              = FlattenSeq([l \in Layers |-> LayerTraffic(q, p, l)])
         /\ Projected(ReceivedFrom(q), FlattenSeq([l \in Layers |-> MultProgram(p, l)]))
              = FlattenSeq([l \in Layers |-> LayerTraffic(q, p, l)])
<1>0. Maps(SentTo(p), Instruction, Tag) /\ Maps(ReceivedFrom(q), Instruction, Tag)
  BY Trading
<1>1. PICK n \in Nat : n = Len(Circuit.layers) /\ Layers = 1 .. n
  BY Shapes DEF Layers
<1>2. PICK x, y : x = [l \in 1 .. n |-> MultProgram(q, l)] /\ y = [l \in 1 .. n |-> MultProgram(p, l)]
  OBVIOUS
<1>3. PICK t : t = [l \in 1 .. n |-> LayerTraffic(q, p, l)]
  OBVIOUS
<1>4. \A l \in 1 .. n : /\ MultProgram(q, l) \in Seq(Instruction) /\ LayerTraffic(q, p, l) \in Seq(Tag)
                        /\ Projected(SentTo(p), MultProgram(q, l)) = LayerTraffic(q, p, l)
                        /\ Projected(ReceivedFrom(q), MultProgram(p, l)) = LayerTraffic(q, p, l)
  BY <1>1, LayerPass
<1>5. \A l \in 1 .. n : MultProgram(p, l) \in Seq(Instruction)
  BY <1>1, LayerPass
<1>6. PICK U, V : U = Seq(Instruction) /\ V = Seq(Tag)
  OBVIOUS
<1>7. /\ x \in Seq(U) /\ Len(x) = n /\ \A l \in 1 .. n : x[l] = MultProgram(q, l)
      /\ t \in Seq(V) /\ Len(t) = n /\ \A l \in 1 .. n : t[l] = LayerTraffic(q, p, l)
  BY <1>2, <1>3, <1>4, <1>6
<1>8. y \in Seq(U) /\ Len(y) = n /\ \A l \in 1 .. n : y[l] = MultProgram(p, l)
  BY <1>2, <1>5, <1>6
<1>9. x \in Seq(Seq(Instruction)) /\ y \in Seq(Seq(Instruction)) /\ t \in Seq(Seq(Tag))
  BY <1>6, <1>7, <1>8
<1>10. FlattenSeq(x) \in Seq(Instruction)
  BY <1>9, FlattenType
<1>11. FlattenSeq(t) \in Seq(Tag)
  BY <1>9, FlattenType
<1>12. SpellsRows(SentTo(p), x, t) /\ SpellsRows(ReceivedFrom(q), y, t)
  BY <1>4, <1>7, <1>8 DEF SpellsRows
<1>13. Projected(SentTo(p), FlattenSeq(x)) = FlattenSeq(t)
  <2>1. \A a \in Seq(Seq(Instruction)), r \in Seq(Seq(Tag)) :
          SpellsRows(SentTo(p), a, r) => Projected(SentTo(p), FlattenSeq(a)) = FlattenSeq(r)
    BY <1>0, ProjectedRows
  <2>. QED
    BY <1>9, <1>12, <2>1
<1>14. Projected(ReceivedFrom(q), FlattenSeq(y)) = FlattenSeq(t)
  <2>1. \A a \in Seq(Seq(Instruction)), r \in Seq(Seq(Tag)) :
          SpellsRows(ReceivedFrom(q), a, r) => Projected(ReceivedFrom(q), FlattenSeq(a)) = FlattenSeq(r)
    BY <1>0, ProjectedRows
  <2>. QED
    BY <1>9, <1>12, <2>1
<1>. QED
  BY <1>1, <1>2, <1>3, <1>10, <1>11, <1>13, <1>14

\* What the program of q sends p is what the program of p expects of q.
LEMMA ProgramsMatch ==
  ASSUME NEW p \in Parties, NEW q \in Parties
  PROVE  /\ Program[q] \in Seq(Instruction) /\ Program[p] \in Seq(Instruction)
         /\ Projected(SentTo(p), Program[q]) = Projected(ReceivedFrom(q), Program[p])
<1>0. /\ \A a, b \in Seq(Instruction) : Projected(SentTo(p), a \o b) = Projected(SentTo(p), a) \o Projected(SentTo(p), b)
      /\ \A a, b \in Seq(Instruction) :
           Projected(ReceivedFrom(q), a \o b) = Projected(ReceivedFrom(q), a) \o Projected(ReceivedFrom(q), b)
  <2>1. Maps(SentTo(p), Instruction, Tag) /\ Maps(ReceivedFrom(q), Instruction, Tag)
    BY Trading
  <2>2. \A a, b \in Seq(Instruction) : Projected(SentTo(p), a \o b) = Projected(SentTo(p), a) \o Projected(SentTo(p), b)
    BY <2>1, ProjectedConcat
  <2>3. \A a, b \in Seq(Instruction) :
          Projected(ReceivedFrom(q), a \o b) = Projected(ReceivedFrom(q), a) \o Projected(ReceivedFrom(q), b)
    BY <2>1, ProjectedConcat
  <2>. QED
    BY <2>2, <2>3
<1>1. \A r \in Parties : InputProgram(r) \in Seq(Instruction) /\ OutputProgram(r) \in Seq(Instruction)
  BY InputPass, OutputPass
<1>2. PICK mid : mid = [r \in Parties |-> FlattenSeq([l \in Layers |-> MultProgram(r, l)])]
  OBVIOUS
<1>3. \A r \in Parties : mid[r] \in Seq(Instruction)
  BY <1>2, LayersPass
<1>4. \A r \in Parties : Program[r] = (InputProgram(r) \o mid[r]) \o OutputProgram(r)
  BY <1>2 DEF Program, Layers
<1>5. PICK t : t = FlattenSeq([l \in Layers |-> LayerTraffic(q, p, l)])
  OBVIOUS
<1>6. Projected(SentTo(p), mid[q]) = t /\ Projected(ReceivedFrom(q), mid[p]) = t
  BY <1>2, <1>5, LayersPass
<1>7. PICK a, b, c, ab \in Seq(Instruction) :
        a = InputProgram(q) /\ b = mid[q] /\ c = OutputProgram(q) /\ ab = a \o b
  <2>1. \A x, y \in Seq(Instruction) : x \o y \in Seq(Instruction)
    BY ConcatProperties
  <2>. QED
    BY <1>1, <1>3, <2>1
<1>8. PICK d, e, f, de \in Seq(Instruction) :
        d = InputProgram(p) /\ e = mid[p] /\ f = OutputProgram(p) /\ de = d \o e
  <2>1. \A x, y \in Seq(Instruction) : x \o y \in Seq(Instruction)
    BY ConcatProperties
  <2>. QED
    BY <1>1, <1>3, <2>1
<1>9. /\ Projected(SentTo(p), ab) = Projected(SentTo(p), a) \o Projected(SentTo(p), b)
      /\ Projected(SentTo(p), ab \o c) = Projected(SentTo(p), ab) \o Projected(SentTo(p), c)
  BY <1>0, <1>7, ZenonT(60)
<1>10. /\ Projected(ReceivedFrom(q), de) = Projected(ReceivedFrom(q), d) \o Projected(ReceivedFrom(q), e)
       /\ Projected(ReceivedFrom(q), de \o f) = Projected(ReceivedFrom(q), de) \o Projected(ReceivedFrom(q), f)
  BY <1>0, <1>8, Zenon
<1>11. Projected(SentTo(p), ab \o c) = Traffic(q, p)
  <2>1. Projected(SentTo(p), a) = InputTraffic(q, p)
    BY <1>7, InputPass
  <2>2. Projected(SentTo(p), c) = OutputTraffic(q, p)
    BY <1>7, OutputPass
  <2>. QED
    BY <1>5, <1>6, <1>7, <1>9, <2>1, <2>2 DEF Traffic
<1>12. Projected(ReceivedFrom(q), de \o f) = Traffic(q, p)
  <2>1. Projected(ReceivedFrom(q), d) = InputTraffic(q, p)
    BY <1>8, InputPass
  <2>2. Projected(ReceivedFrom(q), f) = OutputTraffic(q, p)
    BY <1>8, OutputPass
  <2>. QED
    BY <1>5, <1>6, <1>8, <1>10, <2>1, <2>2 DEF Traffic
<1>13. Program[q] = ab \o c /\ Program[p] = de \o f
  BY <1>4, <1>7, <1>8
<1>14. ab \o c \in Seq(Instruction) /\ de \o f \in Seq(Instruction)
  BY ConcatProperties
<1>. QED
  BY <1>11, <1>12, <1>13, <1>14

-----------------------------------------------------------------------------
(* The invariant: whatever the parties have done, what is on its way from    *)
(* one to another and what it is still to send there are what the other is   *)
(* still to receive from it.                                                 *)

Sends    == [p \in Parties |-> SentTo(p)]
Receives == [q \in Parties |-> ReceivedFrom(q)]

Ordered == Agreeing(Parties, Instruction, Tag, Sends, Receives, Program, pc, chan)

\* At the beginning nothing is on its way, and the programs match.
LEMMA InitOrdered == Init => Ordered
<1> SUFFICES ASSUME Init PROVE Ordered
  OBVIOUS
<1>1. pc = [p \in Parties |-> 1] /\ chan = [p \in Parties |-> [q \in Parties |-> << >>]]
  BY DEF Init, NoMessages
<1>2. Traders(Parties, Instruction, Tag, Sends, Receives, Program)
  <2>1. ASSUME NEW p \in Parties
        PROVE  /\ Program[p] \in Seq(Instruction)
               /\ Maps(SentTo(p), Instruction, Tag) /\ Maps(ReceivedFrom(p), Instruction, Tag)
    BY ProgramsMatch, Trading
  <2>2. \A p \in Parties : Sends[p] = SentTo(p) /\ Receives[p] = ReceivedFrom(p)
    BY DEF Sends, Receives
  <2>. QED
    BY <2>1, <2>2 DEF Traders
<1>3. \A p, q \in Parties : Projected(Sends[p], Program[q]) = Projected(Receives[q], Program[p])
  <2>1. TAKE p, q \in Parties
  <2>2. Sends[p] = SentTo(p) /\ Receives[q] = ReceivedFrom(q)
    BY DEF Sends, Receives
  <2>3. Projected(SentTo(p), Program[q]) = Projected(ReceivedFrom(q), Program[p])
    BY ProgramsMatch
  <2>. QED
    BY <2>2, <2>3
<1>4. Agreeing(Parties, Instruction, Tag, Sends, Receives, Program,
               [p \in Parties |-> 1], [p \in Parties |-> [q \in Parties |-> << >>]])
  BY <1>2, <1>3, AgreeingAtFirst
<1>. QED
  BY <1>1, <1>4 DEF Ordered

-----------------------------------------------------------------------------
(* Steps.                                                                   *)

\* What the next instruction of a party is, and what it sends or receives.
LEMMA Told ==
  ASSUME Ordered, NEW p \in Parties, ~Finished(p)
  PROVE  /\ Instr(p) \in Instruction
         /\ Instr(p).op = "OwnerSendsP1" =>
              << "input", Instr(p).gate >> \in Tag /\ SendsOnly(Parties, Sends, Receives, Instr(p), 0, << "input", Instr(p).gate >>)
         /\ Instr(p).op = "P1Receives" =>
              /\ Instr(p).from \in Parties /\ << "input", Instr(p).gate >> \in Tag
              /\ ReceivesOnly(Parties, Sends, Receives, Instr(p), Instr(p).from, << "input", Instr(p).gate >>)
         /\ Instr(p).op = "P1SendsShare" =>
              /\ Instr(p).to \in Parties /\ << "mu", Instr(p).batch, Instr(p).side >> \in Tag
              /\ SendsOnly(Parties, Sends, Receives, Instr(p), Instr(p).to, << "mu", Instr(p).batch, Instr(p).side >>)
         /\ Instr(p).op = "PartyReceivesShare" =>
              /\ << "mu", Instr(p).batch, Instr(p).side >> \in Tag
              /\ ReceivesOnly(Parties, Sends, Receives, Instr(p), 0, << "mu", Instr(p).batch, Instr(p).side >>)
         /\ Instr(p).op = "PartySends" =>
              /\ << "product", Instr(p).batch >> \in Tag
              /\ SendsOnly(Parties, Sends, Receives, Instr(p), 0, << "product", Instr(p).batch >>)
         /\ Instr(p).op = "P1ReceivesShare" =>
              /\ Instr(p).from \in Parties /\ << "product", Instr(p).batch >> \in Tag
              /\ ReceivesOnly(Parties, Sends, Receives, Instr(p), Instr(p).from, << "product", Instr(p).batch >>)
         /\ Instr(p).op = "P1SendsMu" =>
              /\ Instr(p).to \in Parties /\ << "output", Instr(p).gate >> \in Tag
              /\ SendsOnly(Parties, Sends, Receives, Instr(p), Instr(p).to, << "output", Instr(p).gate >>)
         /\ Instr(p).op = "OwnerReceivesMu" =>
              << "output", Instr(p).gate >> \in Tag /\ ReceivesOnly(Parties, Sends, Receives, Instr(p), 0, << "output", Instr(p).gate >>)
<1>1. Instr(p) \in Instruction
  <2>1. Program[p][pc[p]] \in Instruction
    BY NextIsOne DEF Ordered, Finished
  <2>. QED
    BY <2>1 DEF Instr
<1>2. PICK i \in Instruction : i = Instr(p)
  BY <1>1
<1>3. 0 \in Parties
  BY Shapes
<1>4. /\ i.op = "OwnerSendsP1" => << "input", i.gate >> \in Tag
      /\ i.op = "P1Receives" => i.from \in Parties /\ << "input", i.gate >> \in Tag
      /\ i.op = "P1SendsShare" => i.to \in Parties /\ << "mu", i.batch, i.side >> \in Tag
      /\ i.op = "PartyReceivesShare" => << "mu", i.batch, i.side >> \in Tag
      /\ i.op = "PartySends" => << "product", i.batch >> \in Tag
      /\ i.op = "P1ReceivesShare" => i.from \in Parties /\ << "product", i.batch >> \in Tag
      /\ i.op = "P1SendsMu" => i.to \in Parties /\ << "output", i.gate >> \in Tag
      /\ i.op = "OwnerReceivesMu" => << "output", i.gate >> \in Tag
  BY Kinds DEF Tag
<1>5. i.op = "OwnerSendsP1" => SendsOnly(Parties, Sends, Receives, i, 0, << "input", i.gate >>)
  BY <1>3 DEF SendsOnly, Sends, Receives, SentTo, ReceivedFrom
<1>6. i.op = "P1Receives" => ReceivesOnly(Parties, Sends, Receives, i, i.from, << "input", i.gate >>)
  BY <1>4 DEF ReceivesOnly, Sends, Receives, SentTo, ReceivedFrom
<1>7. i.op = "P1SendsShare" => SendsOnly(Parties, Sends, Receives, i, i.to, << "mu", i.batch, i.side >>)
  BY <1>4 DEF SendsOnly, Sends, Receives, SentTo, ReceivedFrom
<1>8. i.op = "PartyReceivesShare" => ReceivesOnly(Parties, Sends, Receives, i, 0, << "mu", i.batch, i.side >>)
  BY <1>3 DEF ReceivesOnly, Sends, Receives, SentTo, ReceivedFrom
<1>9. i.op = "PartySends" => SendsOnly(Parties, Sends, Receives, i, 0, << "product", i.batch >>)
  BY <1>3 DEF SendsOnly, Sends, Receives, SentTo, ReceivedFrom
<1>10. i.op = "P1ReceivesShare" => ReceivesOnly(Parties, Sends, Receives, i, i.from, << "product", i.batch >>)
  BY <1>4 DEF ReceivesOnly, Sends, Receives, SentTo, ReceivedFrom
<1>11. i.op = "P1SendsMu" => SendsOnly(Parties, Sends, Receives, i, i.to, << "output", i.gate >>)
  BY <1>4 DEF SendsOnly, Sends, Receives, SentTo, ReceivedFrom
<1>12. i.op = "OwnerReceivesMu" => ReceivesOnly(Parties, Sends, Receives, i, 0, << "output", i.gate >>)
  BY <1>3 DEF ReceivesOnly, Sends, Receives, SentTo, ReceivedFrom
<1>. QED
  BY <1>2, <1>4, <1>5, <1>6, <1>7, <1>8, <1>9, <1>10, <1>11, <1>12

\* A party sends what its instruction tells it to, to whom it tells it to.
LEMMA SendKeepsOrder ==
  ASSUME Ordered, NEW p \in Parties, ~Finished(p), Advance(p), NEW r \in Parties, NEW v,
         NEW t \in Tag, SendsOnly(Parties, Sends, Receives, Instr(p), r, t), Send(p, r, v, t)
  PROVE  Ordered'
<1>1. PICK m : m = [val |-> v, tag |-> t]
  OBVIOUS
<1>2. m.tag = t
  BY <1>1
<1>3. PICK i : i = Instr(p)
  OBVIOUS
<1>4. i = Program[p][pc[p]] /\ ~(pc[p] > Len(Program[p])) /\ SendsOnly(Parties, Sends, Receives, i, r, m.tag)
  BY <1>2, <1>3 DEF Instr, Finished
<1>5. PICK pos, ch : pos = pc' /\ ch = chan'
  OBVIOUS
<1>6. pos = [pc EXCEPT ![p] = @ + 1] /\ ch = [chan EXCEPT ![p][r] = Append(@, m)]
  BY <1>1, <1>5 DEF Advance, Send
<1>7. Agreeing(Parties, Instruction, Tag, Sends, Receives, Program, pos, ch)
  BY <1>2, <1>4, <1>6, SendingAgrees DEF Ordered
<1>. QED
  BY <1>5, <1>7 DEF Ordered

\* A party takes the first message of whom its instruction tells it to.
LEMMA ReceiveKeepsOrder ==
  ASSUME Ordered, NEW p \in Parties, ~Finished(p), Advance(p), NEW r \in Parties,
         NEW t \in Tag, ReceivesOnly(Parties, Sends, Receives, Instr(p), r, t), Receive(r, p)
  PROVE  Ordered'
<1>1. PICK i : i = Instr(p)
  OBVIOUS
<1>2. i = Program[p][pc[p]] /\ ~(pc[p] > Len(Program[p])) /\ ReceivesOnly(Parties, Sends, Receives, i, r, t)
  BY <1>1 DEF Instr, Finished
<1>3. PICK pos, ch : pos = pc' /\ ch = chan'
  OBVIOUS
<1>4. pos = [pc EXCEPT ![p] = @ + 1] /\ ch = [chan EXCEPT ![r][p] = Tail(@)] /\ chan[r][p] # << >>
  BY <1>3 DEF Advance, Receive, Arrived
<1>5. Agreeing(Parties, Instruction, Tag, Sends, Receives, Program, pos, ch)
  BY <1>2, <1>4, ReceivingAgrees DEF Ordered
<1>. QED
  BY <1>3, <1>5 DEF Ordered

\* No step disturbs the order.
LEMMA NextOrdered ==
  ASSUME Ordered, [Next]_vars
  PROVE  Ordered'
<1>0. 0 \in Parties
  BY Shapes
<1>1. ASSUME NEW p \in Parties, OwnerSendsP1(p) PROVE Ordered'
  <2>1. /\ ~Finished(p) /\ Instr(p).op = "OwnerSendsP1" /\ Advance(p)
        /\ Send(p, 0, Masked(Instr(p).gate), << "input", Instr(p).gate >>)
    BY <1>1 DEF OwnerSendsP1, At
  <2>2. << "input", Instr(p).gate >> \in Tag /\ SendsOnly(Parties, Sends, Receives, Instr(p), 0, << "input", Instr(p).gate >>)
    BY <2>1, Told
  <2>. QED
    BY <1>0, <2>1, <2>2, SendKeepsOrder
<1>2. ASSUME NEW p \in Parties, P1Receives(p) PROVE Ordered'
  <2>1. ~Finished(p) /\ Instr(p).op = "P1Receives" /\ Advance(p) /\ Receive(Instr(p).from, p)
    BY <1>2 DEF P1Receives, At
  <2>2. /\ Instr(p).from \in Parties /\ << "input", Instr(p).gate >> \in Tag
        /\ ReceivesOnly(Parties, Sends, Receives, Instr(p), Instr(p).from, << "input", Instr(p).gate >>)
    BY <2>1, Told
  <2>. QED
    BY <2>1, <2>2, ReceiveKeepsOrder
<1>3. ASSUME NEW p \in Parties, P1SendsShare(p) PROVE Ordered'
  <2>1. ~Finished(p) /\ Instr(p).op = "P1SendsShare" /\ Advance(p)
    BY <1>3 DEF P1SendsShare, At
  <2>2. PICK v : Send(p, Instr(p).to, v, << "mu", Instr(p).batch, Instr(p).side >>)
    BY <1>3 DEF P1SendsShare
  <2>3. /\ Instr(p).to \in Parties /\ << "mu", Instr(p).batch, Instr(p).side >> \in Tag
        /\ SendsOnly(Parties, Sends, Receives, Instr(p), Instr(p).to, << "mu", Instr(p).batch, Instr(p).side >>)
    BY <2>1, Told
  <2>. QED
    BY <2>1, <2>2, <2>3, SendKeepsOrder
<1>4. ASSUME NEW p \in Parties, PartyReceivesShare(p) PROVE Ordered'
  <2>1. ~Finished(p) /\ Instr(p).op = "PartyReceivesShare" /\ Advance(p) /\ Receive(0, p)
    BY <1>4 DEF PartyReceivesShare, At
  <2>2. /\ << "mu", Instr(p).batch, Instr(p).side >> \in Tag
        /\ ReceivesOnly(Parties, Sends, Receives, Instr(p), 0, << "mu", Instr(p).batch, Instr(p).side >>)
    BY <2>1, Told
  <2>. QED
    BY <1>0, <2>1, <2>2, ReceiveKeepsOrder
<1>5. ASSUME NEW p \in Parties, PartySends(p) PROVE Ordered'
  <2>1. ~Finished(p) /\ Instr(p).op = "PartySends" /\ Advance(p)
    BY <1>5 DEF PartySends, At
  <2>2. PICK v : Send(p, 0, v, << "product", Instr(p).batch >>)
    BY <1>5 DEF PartySends
  <2>3. << "product", Instr(p).batch >> \in Tag /\ SendsOnly(Parties, Sends, Receives, Instr(p), 0, << "product", Instr(p).batch >>)
    BY <2>1, Told
  <2>. QED
    BY <1>0, <2>1, <2>2, <2>3, SendKeepsOrder
<1>6. ASSUME NEW p \in Parties, P1ReceivesShare(p) PROVE Ordered'
  <2>1. ~Finished(p) /\ Instr(p).op = "P1ReceivesShare" /\ Advance(p) /\ Receive(Instr(p).from, p)
    BY <1>6 DEF P1ReceivesShare, At
  <2>2. /\ Instr(p).from \in Parties /\ << "product", Instr(p).batch >> \in Tag
        /\ ReceivesOnly(Parties, Sends, Receives, Instr(p), Instr(p).from, << "product", Instr(p).batch >>)
    BY <2>1, Told
  <2>. QED
    BY <2>1, <2>2, ReceiveKeepsOrder
<1>7. ASSUME NEW p \in Parties, P1SendsMu(p) PROVE Ordered'
  <2>1. /\ ~Finished(p) /\ Instr(p).op = "P1SendsMu" /\ Advance(p)
        /\ Send(p, Instr(p).to, GetMu(Instr(p).gate), << "output", Instr(p).gate >>)
    BY <1>7 DEF P1SendsMu, At
  <2>2. /\ Instr(p).to \in Parties /\ << "output", Instr(p).gate >> \in Tag
        /\ SendsOnly(Parties, Sends, Receives, Instr(p), Instr(p).to, << "output", Instr(p).gate >>)
    BY <2>1, Told
  <2>. QED
    BY <2>1, <2>2, SendKeepsOrder
<1>8. ASSUME NEW p \in Parties, OwnerReceivesMu(p) PROVE Ordered'
  <2>1. ~Finished(p) /\ Instr(p).op = "OwnerReceivesMu" /\ Advance(p) /\ Receive(0, p)
    BY <1>8 DEF OwnerReceivesMu, At
  <2>2. << "output", Instr(p).gate >> \in Tag /\ ReceivesOnly(Parties, Sends, Receives, Instr(p), 0, << "output", Instr(p).gate >>)
    BY <2>1, Told
  <2>. QED
    BY <1>0, <2>1, <2>2, ReceiveKeepsOrder
<1>9. CASE UNCHANGED vars
  BY <1>9 DEF vars, Ordered
<1>. QED
  BY <1>1, <1>2, <1>3, <1>4, <1>5, <1>6, <1>7, <1>8, <1>9 DEF Next, SomeStep, Step

\* The first message on its way is for what its receiver expects next, and
\* nothing is on its way to parties that expect nothing any more.
LEMMA OrderedReceives == Ordered => ReceivesItsOwn
<1> SUFFICES ASSUME Ordered PROVE ReceivesItsOwn
  OBVIOUS
<1>1. ASSUME AllFinished PROVE chan = NoMessages
  <2>1. \A p \in Parties : pc[p] > Len(Program[p])
    BY <1>1 DEF AllFinished, Finished
  <2>2. chan = [p \in Parties |-> [q \in Parties |-> << >>]]
    BY <2>1, AllAtTheEnd DEF Ordered
  <2>. QED
    BY <2>2 DEF NoMessages
<1>2. ASSUME NEW p \in Parties, ~Finished(p), NEW q \in Parties, NEW t \in Tag,
             ReceivesOnly(Parties, Sends, Receives, Instr(p), q, t), Arrived(q, p)
      PROVE  Head(chan[q][p]).tag = t
  <2>1. PICK i : i = Instr(p)
    OBVIOUS
  <2>2. /\ i = Program[p][pc[p]] /\ ~(pc[p] > Len(Program[p])) /\ chan[q][p] # << >>
        /\ ReceivesOnly(Parties, Sends, Receives, i, q, t)
    BY <1>2, <2>1 DEF Instr, Finished, Arrived
  <2>. QED
    BY <2>2, FirstIsExpected DEF Ordered
<1>3. ASSUME NEW p \in Parties, ~Finished(p),
             Instr(p).op \in {"P1Receives", "PartyReceivesShare", "P1ReceivesShare", "OwnerReceivesMu"},
             Arrived(Expects(p)[1], p)
      PROVE  Head(chan[Expects(p)[1]][p]).tag = Expects(p)[2]
  <2>0. 0 \in Parties
    BY Shapes
  <2>1. CASE Instr(p).op = "P1Receives"
    <3>1. Expects(p) = << Instr(p).from, << "input", Instr(p).gate >> >>
      BY <2>1 DEF Expects
    <3>2. /\ Instr(p).from \in Parties /\ << "input", Instr(p).gate >> \in Tag
          /\ ReceivesOnly(Parties, Sends, Receives, Instr(p), Instr(p).from, << "input", Instr(p).gate >>)
      BY <1>3, <2>1, Told
    <3>. QED
      BY <1>2, <1>3, <3>1, <3>2
  <2>2. CASE Instr(p).op = "PartyReceivesShare"
    <3>1. Expects(p) = << 0, << "mu", Instr(p).batch, Instr(p).side >> >>
      BY <2>2 DEF Expects
    <3>2. /\ << "mu", Instr(p).batch, Instr(p).side >> \in Tag
          /\ ReceivesOnly(Parties, Sends, Receives, Instr(p), 0, << "mu", Instr(p).batch, Instr(p).side >>)
      BY <1>3, <2>2, Told
    <3>. QED
      BY <1>2, <1>3, <2>0, <3>1, <3>2
  <2>3. CASE Instr(p).op = "P1ReceivesShare"
    <3>1. Expects(p) = << Instr(p).from, << "product", Instr(p).batch >> >>
      BY <2>3 DEF Expects
    <3>2. /\ Instr(p).from \in Parties /\ << "product", Instr(p).batch >> \in Tag
          /\ ReceivesOnly(Parties, Sends, Receives, Instr(p), Instr(p).from, << "product", Instr(p).batch >>)
      BY <1>3, <2>3, Told
    <3>. QED
      BY <1>2, <1>3, <3>1, <3>2
  <2>4. CASE Instr(p).op = "OwnerReceivesMu"
    <3>1. Expects(p) = << 0, << "output", Instr(p).gate >> >>
      BY <2>4 DEF Expects
    <3>2. /\ << "output", Instr(p).gate >> \in Tag
          /\ ReceivesOnly(Parties, Sends, Receives, Instr(p), 0, << "output", Instr(p).gate >>)
      BY <1>3, <2>4, Told
    <3>. QED
      BY <1>2, <1>3, <2>0, <3>1, <3>2
  <2>. QED
    BY <1>3, <2>1, <2>2, <2>3, <2>4
<1>. QED
  BY <1>1, <1>3 DEF ReceivesItsOwn

\* Every receive of the online phase takes the message that was sent for it,
\* however many parties, layers and batches there are and however far apart
\* the parties run, and when all are done no message is left: the loops of
\* Circuit::RunInput, RunMult and RunOutput over clients, layers, batches and
\* sides agree at both ends of every channel (online.cc).
THEOREM MessagesFindTheirReceives == Spec => []ReceivesItsOwn
<1>1. Init => Ordered
  BY InitOrdered
<1>2. Ordered /\ [Next]_vars => Ordered'
  BY NextOrdered
<1>3. Ordered => ReceivesItsOwn
  BY OrderedReceives
<1>. QED
  BY <1>1, <1>2, <1>3, PTL DEF Spec

-----------------------------------------------------------------------------
(* What P1 learns, instruction by instruction: no wire in two places of its  *)
(* program.                                                                  *)

Learns ==
  [i \in Instruction |->
     IF i.op = "P1Receives" THEN {i.gate}
     ELSE IF i.op = "P1ReceivesShare" /\ Reconstructs(i.from) THEN GatesOf(i.batch)
     ELSE {}]

\* The wires of G are learned in s, each in one place.
LearnsFrom(s, G) == Together(Learns, s) = G /\ Apart(Learns, s)

\* One program and then another.
LEMMA LearnsConcat ==
  ASSUME NEW a \in Seq(Instruction), NEW b \in Seq(Instruction), NEW G, NEW H,
         LearnsFrom(a, G), LearnsFrom(b, H), G \cap H = {}
  PROVE  LearnsFrom(a \o b, G \cup H)
BY ApartConcat DEF LearnsFrom

AllOf(G, n) == UNION { G[i] : i \in 1 .. n }

\* Programs one after the other.
LEMMA LearnsRows ==
  ASSUME NEW n \in Nat, NEW s, NEW G, s = [i \in 1 .. n |-> s[i]],
         \A i \in 1 .. n : s[i] \in Seq(Instruction) /\ LearnsFrom(s[i], G[i]),
         \A i, j \in 1 .. n : i # j => G[i] \cap G[j] = {}
  PROVE  LearnsFrom(FlattenSeq(s), AllOf(G, n))
<1>1. PICK U : U = Seq(Instruction)
  OBVIOUS
<1>2. s \in Seq(U) /\ Len(s) = n
  BY <1>1
<1>3. \A i \in 1 .. n : Together(Learns, s[i]) = G[i] /\ Apart(Learns, s[i])
  BY DEF LearnsFrom
<1>4. RowsApart(Learns, s)
  BY <1>2, <1>3, SMTT(30) DEF RowsApart
<1>5. UNION { Together(Learns, s[i]) : i \in 1 .. Len(s) } = AllOf(G, n)
  BY <1>2, <1>3 DEF AllOf
<1>6. s \in Seq(Seq(Instruction))
  BY <1>1, <1>2
<1>7. \A x \in Seq(Seq(Instruction)) :
        /\ Together(Learns, FlattenSeq(x)) = UNION { Together(Learns, x[i]) : i \in 1 .. Len(x) }
        /\ RowsApart(Learns, x) => Apart(Learns, FlattenSeq(x))
  BY ApartFlatten
<1>8. Together(Learns, FlattenSeq(s)) = UNION { Together(Learns, s[i]) : i \in 1 .. Len(s) }
  BY <1>6, <1>7
<1>9. Apart(Learns, FlattenSeq(s))
  BY <1>4, <1>6, <1>7
<1>. QED
  BY <1>5, <1>8, <1>9 DEF LearnsFrom

\* Nothing.
LEMMA LearnsNothing ==
  ASSUME NEW s, \A n \in 1 .. Len(s) : Learns[s[n]] = {}
  PROVE  LearnsFrom(s, {})
BY DEF LearnsFrom, Together, Apart

\* Only two kinds of instructions teach P1 anything.
LEMMA Unlearning ==
  ASSUME NEW i \in Instruction, i.op \notin {"P1Receives", "P1ReceivesShare"}
  PROVE  Learns[i] = {}
BY DEF Learns

\* A party's own inputs and outputs, and opening the outputs.
LEMMA GatesTeachNothing ==
  ASSUME NEW c \in Parties
  PROVE  LearnsFrom(OwnInputs(c), {}) /\ LearnsFrom(OutputsOf(c), {}) /\ LearnsFrom(OwnOutputs(c), {})
<1>1. PICK x, y \in Seq(GateIds) : x = Circuit.inputs[c] /\ y = Circuit.outputs[c]
  BY Shapes
<1>2. PICK m, n \in Nat : m = Len(x) /\ n = Len(y)
  OBVIOUS
<1>3. \A g \in GateIds : /\ OwnerSends(g) \in Instruction /\ OwnerSends(g).op = "OwnerSendsP1"
                         /\ Opens(g, c) \in Instruction /\ Opens(g, c).op = "P1SendsMu"
                         /\ OwnerTakes(g) \in Instruction /\ OwnerTakes(g).op = "OwnerReceivesMu"
  BY OwnersGates, P1sGates, Shapes DEF OwnerSends, Opens, OwnerTakes
<1>4. \A g \in GateIds : Learns[OwnerSends(g)] = {} /\ Learns[Opens(g, c)] = {} /\ Learns[OwnerTakes(g)] = {}
  BY <1>3, Unlearning
<1>5. (\A j \in 1 .. m : x[j] \in GateIds) /\ (\A j \in 1 .. n : y[j] \in GateIds)
  BY <1>2
<1>6. /\ OwnInputs(c) = [j \in 1 .. m |-> OwnerSends(x[j])]
      /\ OutputsOf(c) = [j \in 1 .. n |-> Opens(y[j], c)]
      /\ OwnOutputs(c) = [j \in 1 .. n |-> OwnerTakes(y[j])]
  BY <1>1, <1>2 DEF OwnInputs, OutputsOf, OwnOutputs
<1>7. LearnsFrom(OwnInputs(c), {})
  BY <1>2, <1>4, <1>5, <1>6, LearnsNothing
<1>8. LearnsFrom(OutputsOf(c), {})
  BY <1>2, <1>4, <1>5, <1>6, LearnsNothing
<1>9. LearnsFrom(OwnOutputs(c), {})
  BY <1>2, <1>4, <1>5, <1>6, LearnsNothing
<1>. QED
  BY <1>7, <1>8, <1>9

\* The inputs of a party teach P1 what they are, each once.
LEMMA InputsTeach ==
  ASSUME NEW c \in Parties
  PROVE  LearnsFrom(InputsOf(c), Range(Circuit.inputs[c]))
<1>1. PICK x \in Seq(GateIds) : x = Circuit.inputs[c]
  BY Shapes
<1>2. PICK m \in Nat : m = Len(x) /\ DOMAIN x = 1 .. m
  OBVIOUS
<1>3. PICK s : s = InputsOf(c)
  OBVIOUS
<1>4. ASSUME NEW g \in GateIds PROVE Learns[Takes(g, c)] = {g}
  <2>1. Takes(g, c) \in Instruction
    BY P1sGates
  <2>. QED
    BY <2>1 DEF Takes, Learns
<1>5. Len(s) = m /\ \A j \in 1 .. m : s[j] = Takes(x[j], c)
  BY <1>1, <1>2, <1>3 DEF InputsOf
<1>6. \A j \in 1 .. m : Learns[s[j]] = {x[j]}
  BY <1>2, <1>4, <1>5
<1>7. \A i, j \in 1 .. m : i # j => x[i] # x[j]
  BY <1>1, <1>2, GatesOnceAssumption DEF IsInjective
<1>8. Apart(Learns, s)
  BY <1>5, <1>6, <1>7 DEF Apart
<1>9. Together(Learns, s) = Range(x)
  <2>1. \A e : e \in Together(Learns, s) <=> \E j \in 1 .. m : e = x[j]
    BY <1>5, <1>6 DEF Together
  <2>2. \A e : e \in Range(x) <=> \E j \in 1 .. m : e = x[j]
    BY <1>2 DEF Range
  <2>. QED
    BY <2>1, <2>2
<1>. QED
  BY <1>1, <1>3, <1>8, <1>9 DEF LearnsFrom

\* Dealing a batch, taking what is dealt of it, and multiplying it.
LEMMA BatchesTeachNothing ==
  ASSUME NEW b \in Batches
  PROVE  /\ LearnsFrom(DealsBatch(b), {}) /\ LearnsFrom(TakesBatch(b), {})
         /\ LearnsFrom(<< Multiplies(b) >>, {})
<1>1. PICK n \in Nat : n = NParties
  BY Shapes
<1>2. \A c \in Parties, s \in 1 .. 2 : Learns[Deals(b, c, s)] = {} /\ Learns[TakesDealt(b, s)] = {}
  <2>1. \A c \in Parties, s \in 1 .. 2 :
          /\ Deals(b, c, s) \in Instruction /\ Deals(b, c, s).op = "P1SendsShare"
          /\ TakesDealt(b, s) \in Instruction /\ TakesDealt(b, s).op = "PartyReceivesShare"
    BY DealtBatches DEF Deals, TakesDealt
  <2>. QED
    BY <2>1, Unlearning
<1>3. Learns[Multiplies(b)] = {}
  <2>1. Multiplies(b) \in Instruction /\ Multiplies(b).op = "PartySends"
    BY ProductBatches DEF Multiplies
  <2>. QED
    BY <2>1, Unlearning
<1>4. LearnsFrom(<< Multiplies(b) >>, {})
  <2>1. Len(<< Multiplies(b) >>) = 1 /\ << Multiplies(b) >>[1] = Multiplies(b)
    OBVIOUS
  <2>. QED
    BY <1>3, <2>1, LearnsNothing
<1>5. LearnsFrom(TakesBatch(b), {})
  <2>1. Len(TakesBatch(b)) = 2 /\ \A s \in 1 .. 2 : TakesBatch(b)[s] = TakesDealt(b, s)
    BY DEF TakesBatch
  <2>. QED
    BY <1>2, <2>1, Shapes, LearnsNothing
<1>6. LearnsFrom(DealsBatch(b), {})
  <2>1. \A i \in 1 .. 2 * n : (i - 1) \div 2 \in Parties /\ ((i - 1) % 2) + 1 \in 1 .. 2
    BY <1>1 DEF Parties
  <2>2. PICK z \in Nat : z = 2 * n
    OBVIOUS
  <2> DEFINE G(i) == Deals(b, (i - 1) \div 2, ((i - 1) % 2) + 1)
  <2>3. \A i \in 1 .. z : Learns[G(i)] = {}
    BY <1>2, <2>1, <2>2
  <2>4. DealsBatch(b) = [i \in 1 .. z |-> G(i)]
    BY <1>1, <2>2 DEF DealsBatch
  <2> HIDE DEF G
  <2>. QED
    BY <2>3, <2>4, LearnsNothing
<1>. QED
  BY <1>4, <1>5, <1>6

\* The shares of a product teach P1 its batch, with the last of them.
LEMMA ProductsTeach ==
  ASSUME NEW b \in Batches
  PROVE  LearnsFrom(TakesProducts(b), GatesOf(b))
<1>1. PICK n \in Nat : n = NParties /\ n \in 1 .. n
  BY Shapes, NPartiesAssumption
<1>2. PICK s : s = TakesProducts(b)
  OBVIOUS
<1>3. ASSUME NEW c \in Parties
      PROVE  Learns[TakesProduct(b, c)] = IF c = NParties - 1 THEN GatesOf(b) ELSE {}
  <2>1. TakesProduct(b, c) \in Instruction
    BY ProductBatches
  <2>. QED
    BY <2>1 DEF TakesProduct, Learns, Reconstructs
<1>4. \A i \in 1 .. n : i - 1 \in Parties /\ (i - 1 = NParties - 1 <=> i = n)
  BY <1>1 DEF Parties
<1>5. Len(s) = n /\ \A i \in 1 .. n : s[i] = TakesProduct(b, i - 1)
  BY <1>1, <1>2 DEF TakesProducts
<1>6. \A i \in 1 .. n : Learns[s[i]] = IF i = n THEN GatesOf(b) ELSE {}
  BY <1>3, <1>4, <1>5
<1>7. Apart(Learns, s)
  BY <1>5, <1>6 DEF Apart
<1>8. Together(Learns, s) = GatesOf(b)
  BY <1>1, <1>5, <1>6 DEF Together
<1>. QED
  BY <1>2, <1>7, <1>8 DEF LearnsFrom

LayerGates(l) == UNION { GatesOf(<< l, b >>) : b \in 1 .. Len(Circuit.layers[l]) }

\* The phases of a layer.
LEMMA LayerTeaches ==
  ASSUME NEW l \in Layers
  PROVE  /\ LearnsFrom(MultProgram(0, l), LayerGates(l))
         /\ \A p \in Parties : p # 0 => LearnsFrom(MultProgram(p, l), {})
<1>1. PICK n \in Nat : n = Len(Circuit.layers[l])
  BY Shapes
<1>2. \A b \in 1 .. n : << l, b >> \in Batches
  BY <1>1, Shapes
<1>3. \A b \in 1 .. n :
        /\ DealsBatch(<< l, b >>) \in Seq(Instruction) /\ LearnsFrom(DealsBatch(<< l, b >>), {})
        /\ TakesBatch(<< l, b >>) \in Seq(Instruction) /\ LearnsFrom(TakesBatch(<< l, b >>), {})
        /\ << Multiplies(<< l, b >>) >> \in Seq(Instruction) /\ LearnsFrom(<< Multiplies(<< l, b >>) >>, {})
        /\ TakesProducts(<< l, b >>) \in Seq(Instruction)
        /\ LearnsFrom(TakesProducts(<< l, b >>), GatesOf(<< l, b >>))
  BY <1>2, Shapes, DealtPass, ProductPass, BatchesTeachNothing, ProductsTeach
<1>4. PICK none, own : none = [b \in 1 .. n |-> {}] /\ own = [b \in 1 .. n |-> GatesOf(<< l, b >>)]
  OBVIOUS
<1>5. AllOf(none, n) = {} /\ AllOf(own, n) = LayerGates(l)
  BY <1>1, <1>4 DEF LayerGates, AllOf
<1>6. ASSUME NEW s, s = [b \in 1 .. n |-> s[b]],
             \A b \in 1 .. n : s[b] \in Seq(Instruction) /\ LearnsFrom(s[b], {})
      PROVE  LearnsFrom(FlattenSeq(s), {})
  <2>1. /\ \A b \in 1 .. n : s[b] \in Seq(Instruction) /\ LearnsFrom(s[b], none[b])
        /\ \A i, j \in 1 .. n : i # j => none[i] \cap none[j] = {}
    BY <1>4, <1>6
  <2>2. LearnsFrom(FlattenSeq(s), AllOf(none, n))
    BY <1>6, <2>1, LearnsRows
  <2>. QED
    BY <1>5, <2>2
<1>7. LearnsFrom(P1Sends(l), {})
  <2>1. PICK s : s = [b \in 1 .. n |-> DealsBatch(<< l, b >>)]
    OBVIOUS
  <2>2. s = [b \in 1 .. n |-> s[b]] /\ \A b \in 1 .. n : s[b] \in Seq(Instruction) /\ LearnsFrom(s[b], {})
    BY <1>3, <2>1
  <2>. QED
    BY <1>1, <1>6, <2>1, <2>2, Spelled
<1>8. LearnsFrom(PartiesReceive(l), {})
  <2>1. PICK s : s = [b \in 1 .. n |-> TakesBatch(<< l, b >>)]
    OBVIOUS
  <2>2. s = [b \in 1 .. n |-> s[b]] /\ \A b \in 1 .. n : s[b] \in Seq(Instruction) /\ LearnsFrom(s[b], {})
    BY <1>3, <2>1
  <2>. QED
    BY <1>1, <1>6, <2>1, <2>2, Spelled
<1>9. LearnsFrom(PartiesSend(l), {})
  <2>1. PICK s : s = [b \in 1 .. n |-> << Multiplies(<< l, b >>) >>]
    OBVIOUS
  <2>2. s = [b \in 1 .. n |-> s[b]] /\ \A b \in 1 .. n : s[b] \in Seq(Instruction) /\ LearnsFrom(s[b], {})
    BY <1>3, <2>1
  <2>. QED
    BY <1>1, <1>6, <2>1, <2>2, Spelled
<1>10. LearnsFrom(P1ReceivesProducts(l), LayerGates(l))
  <2>1. PICK s : s = [b \in 1 .. n |-> TakesProducts(<< l, b >>)]
    OBVIOUS
  <2>2. s = [b \in 1 .. n |-> s[b]] /\ \A b \in 1 .. n : s[b] \in Seq(Instruction) /\ LearnsFrom(s[b], own[b])
    BY <1>3, <1>4, <2>1
  <2>3. \A i, j \in 1 .. n : i # j => own[i] \cap own[j] = {}
    <3>1. \A i, j \in 1 .. n : i # j => << l, i >> # << l, j >>
      OBVIOUS
    <3>. QED
      BY <1>2, <1>4, <3>1, GatesOnceAssumption
  <2>4. LearnsFrom(FlattenSeq(s), AllOf(own, n))
    BY <2>2, <2>3, LearnsRows
  <2>. QED
    BY <1>1, <1>5, <2>1, <2>4, Spelled
<1>11. PICK a, b, c, d \in Seq(Instruction) :
         a = P1Sends(l) /\ b = PartiesReceive(l) /\ c = PartiesSend(l) /\ d = P1ReceivesProducts(l)
  BY Shapes, MusPass, ProductsPass
<1>12. PICK ab, bc, abc \in Seq(Instruction) : ab = a \o b /\ bc = b \o c /\ abc = ab \o c
  <2>1. \A x, y \in Seq(Instruction) : x \o y \in Seq(Instruction)
    BY ConcatProperties
  <2>. QED
    BY <2>1
<1>13. LearnsFrom(a, {}) /\ LearnsFrom(b, {}) /\ LearnsFrom(c, {}) /\ LearnsFrom(d, LayerGates(l))
  BY <1>7, <1>8, <1>9, <1>10, <1>11
<1>14. ASSUME NEW x \in Seq(Instruction), NEW y \in Seq(Instruction), NEW G, LearnsFrom(x, {}), LearnsFrom(y, G)
       PROVE  LearnsFrom(x \o y, G)
  <2>1. {} \cap G = {} /\ {} \cup G = G
    OBVIOUS
  <2>2. LearnsFrom(x \o y, {} \cup G)
    BY <1>14, <2>1, LearnsConcat
  <2>. QED
    BY <2>1, <2>2
<1>15. LearnsFrom(ab, {}) /\ LearnsFrom(bc, {})
  BY <1>12, <1>13, <1>14
<1>16. LearnsFrom(abc, {})
  BY <1>12, <1>13, <1>14, <1>15
<1>17. LearnsFrom(abc \o d, LayerGates(l))
  BY <1>13, <1>14, <1>16
<1>18. \A p \in Parties : MultProgram(p, l) = IF p = 0 THEN abc \o d ELSE bc
  BY <1>11, <1>12 DEF MultProgram
<1>. QED
  BY <1>15, <1>17, <1>18, Shapes

AllInputs == UNION { Range(Circuit.inputs[c - 1]) : c \in 1 .. NParties }
AllBatched == UNION { LayerGates(l) : l \in Layers }

\* No party but P1 has an instruction that teaches P1 anything, and P1 none
\* for what another taught it.
LEMMA ProgramsTeach ==
  /\ Apart(Learns, Program[0])
  /\ \A p \in Parties : p # 0 => Together(Learns, Program[p]) = {}
<1>1. PICK n \in Nat : n = NParties /\ \A c \in 1 .. n : c - 1 \in Parties
  BY Shapes DEF Parties
<1>2. PICK m \in Nat : m = Len(Circuit.layers) /\ Layers = 1 .. m
  BY Shapes DEF Layers
<1>3. 0 \in Parties
  BY Shapes
<1>4. LearnsFrom(<< >>, {}) /\ << >> \in Seq(Instruction)
  <2>1. Len(<< >>) = 0
    OBVIOUS
  <2>. QED
    BY <2>1, LearnsNothing
<1>5. ASSUME NEW x \in Seq(Instruction), NEW y \in Seq(Instruction), NEW G, NEW H,
             LearnsFrom(x, G), LearnsFrom(y, H), G \cap H = {}
      PROVE  LearnsFrom(x \o y, G \cup H) /\ x \o y \in Seq(Instruction)
  BY <1>5, LearnsConcat, ConcatProperties
<1>6. PICK ins, outs : /\ ins = FlattenSeq([c \in 1 .. n |-> InputsOf(c - 1)])
                       /\ outs = FlattenSeq([c \in 1 .. n |-> OutputsOf(c - 1)])
  OBVIOUS
<1>7. LearnsFrom(ins, AllInputs) /\ ins \in Seq(Instruction)
  <2>1. PICK s, G : /\ s = [c \in 1 .. n |-> InputsOf(c - 1)]
                    /\ G = [c \in 1 .. n |-> Range(Circuit.inputs[c - 1])]
    OBVIOUS
  <2>2. \A c \in 1 .. n : s[c] \in Seq(Instruction) /\ LearnsFrom(s[c], G[c])
    BY <1>1, <1>3, <2>1, InputsPass, InputsTeach
  <2>3. \A i, j \in 1 .. n : i # j => G[i] \cap G[j] = {}
    <3> SUFFICES ASSUME NEW i \in 1 .. n, NEW j \in 1 .. n, i # j PROVE G[i] \cap G[j] = {}
      OBVIOUS
    <3>1. PICK c, d \in Parties : c = i - 1 /\ d = j - 1 /\ c # d
      BY <1>1
    <3>2. Range(Circuit.inputs[c]) \cap Range(Circuit.inputs[d]) = {}
      BY <3>1, GatesOnceAssumption
    <3>. QED
      BY <2>1, <3>1, <3>2
  <2>4. s = [c \in 1 .. n |-> s[c]]
    BY <2>1
  <2>5. LearnsFrom(FlattenSeq(s), AllOf(G, n))
    BY <2>2, <2>3, <2>4, LearnsRows
  <2>6. AllOf(G, n) = AllInputs
    BY <1>1, <2>1 DEF AllInputs, AllOf
  <2>7. FlattenSeq(s) \in Seq(Instruction)
    <3>1. PICK U : U = Seq(Instruction)
      OBVIOUS
    <3>2. s \in Seq(U)
      BY <2>2, <2>4, <3>1
    <3>. QED
      BY <3>1, <3>2, FlattenType
  <2>. QED
    BY <1>6, <2>1, <2>5, <2>6, <2>7
<1>8. LearnsFrom(outs, {}) /\ outs \in Seq(Instruction)
  <2>1. PICK s, G : s = [c \in 1 .. n |-> OutputsOf(c - 1)] /\ G = [c \in 1 .. n |-> {}]
    OBVIOUS
  <2>2. \A c \in 1 .. n : s[c] \in Seq(Instruction) /\ LearnsFrom(s[c], G[c])
    BY <1>1, <1>3, <2>1, OutputsPass, GatesTeachNothing
  <2>3. (\A i, j \in 1 .. n : i # j => G[i] \cap G[j] = {}) /\ AllOf(G, n) = {}
    BY <2>1 DEF AllOf
  <2>4. s = [c \in 1 .. n |-> s[c]]
    BY <2>1
  <2>5. LearnsFrom(FlattenSeq(s), AllOf(G, n))
    BY <2>2, <2>3, <2>4, LearnsRows
  <2>7. FlattenSeq(s) \in Seq(Instruction)
    <3>1. PICK U : U = Seq(Instruction)
      OBVIOUS
    <3>2. s \in Seq(U)
      BY <2>2, <2>4, <3>1
    <3>. QED
      BY <3>1, <3>2, FlattenType
  <2>. QED
    BY <1>6, <2>1, <2>3, <2>5, <2>7
<1>9. PICK mid : mid = [p \in Parties |-> FlattenSeq([l \in Layers |-> MultProgram(p, l)])]
  OBVIOUS
<1>10. \A p \in Parties : mid[p] \in Seq(Instruction)
  BY <1>9, LayersPass
<1>11. \A l \in 1 .. m, p \in Parties : MultProgram(p, l) \in Seq(Instruction)
  BY <1>2, LayerPass
<1>12. LearnsFrom(mid[0], AllBatched)
  <2>1. PICK s, G : s = [l \in 1 .. m |-> MultProgram(0, l)] /\ G = [l \in 1 .. m |-> LayerGates(l)]
    OBVIOUS
  <2>2. \A l \in 1 .. m : s[l] \in Seq(Instruction) /\ LearnsFrom(s[l], G[l])
    BY <1>2, <1>3, <1>11, <2>1, LayerTeaches
  <2>3. ASSUME NEW i \in 1 .. m, NEW j \in 1 .. m, i # j PROVE G[i] \cap G[j] = {}
    <3>1. \A a \in 1 .. Len(Circuit.layers[i]), b \in 1 .. Len(Circuit.layers[j]) :
            << i, a >> \in Batches /\ << j, b >> \in Batches /\ << i, a >> # << j, b >>
      BY <1>2, <2>3, Shapes
    <3>2. \A a \in 1 .. Len(Circuit.layers[i]), b \in 1 .. Len(Circuit.layers[j]) :
            GatesOf(<< i, a >>) \cap GatesOf(<< j, b >>) = {}
      BY <3>1, GatesOnceAssumption
    <3>3. LayerGates(i) \cap LayerGates(j) = {}
      <4> SUFFICES ASSUME NEW e, e \in LayerGates(i), e \in LayerGates(j) PROVE FALSE
        OBVIOUS
      <4>1. PICK a \in 1 .. Len(Circuit.layers[i]) : e \in GatesOf(<< i, a >>)
        BY DEF LayerGates
      <4>2. PICK b \in 1 .. Len(Circuit.layers[j]) : e \in GatesOf(<< j, b >>)
        BY DEF LayerGates
      <4>. QED
        BY <3>2, <4>1, <4>2
    <3>. QED
      BY <2>1, <3>3
  <2>4. s = [l \in 1 .. m |-> s[l]]
    BY <2>1
  <2>5. LearnsFrom(FlattenSeq(s), AllOf(G, m))
    BY <2>2, <2>3, <2>4, LearnsRows
  <2>6. AllOf(G, m) = AllBatched
    BY <1>2, <2>1 DEF AllBatched, AllOf
  <2>7. mid[0] = FlattenSeq(s)
    BY <1>2, <1>3, <1>9, <2>1
  <2>. QED
    BY <2>5, <2>6, <2>7
<1>13. ASSUME NEW p \in Parties, p # 0 PROVE LearnsFrom(mid[p], {})
  <2>1. PICK s, G : s = [l \in 1 .. m |-> MultProgram(p, l)] /\ G = [l \in 1 .. m |-> {}]
    OBVIOUS
  <2>2. \A l \in 1 .. m : s[l] \in Seq(Instruction) /\ LearnsFrom(s[l], G[l])
    BY <1>2, <1>11, <1>13, <2>1, LayerTeaches
  <2>3. (\A i, j \in 1 .. m : i # j => G[i] \cap G[j] = {}) /\ AllOf(G, m) = {}
    BY <2>1 DEF AllOf
  <2>4. s = [l \in 1 .. m |-> s[l]]
    BY <2>1
  <2>5. LearnsFrom(FlattenSeq(s), AllOf(G, m))
    BY <2>2, <2>3, <2>4, LearnsRows
  <2>6. mid[p] = FlattenSeq(s)
    BY <1>2, <1>9, <2>1
  <2>. QED
    BY <2>3, <2>5, <2>6
<1>14. AllInputs \cap AllBatched = {}
  <2>1. ASSUME NEW c \in 1 .. n, NEW l \in Layers, NEW b \in 1 .. Len(Circuit.layers[l])
        PROVE  Range(Circuit.inputs[c - 1]) \cap GatesOf(<< l, b >>) = {}
    BY <1>1, Shapes, GatesOnceAssumption
  <2> SUFFICES ASSUME NEW e, e \in AllInputs, e \in AllBatched PROVE FALSE
    OBVIOUS
  <2>2. PICK c \in 1 .. n : e \in Range(Circuit.inputs[c - 1])
    BY <1>1 DEF AllInputs
  <2>3. PICK l \in Layers : e \in LayerGates(l)
    BY DEF AllBatched
  <2>4. PICK b \in 1 .. Len(Circuit.layers[l]) : e \in GatesOf(<< l, b >>)
    BY <2>3 DEF LayerGates
  <2>. QED
    BY <2>1, <2>2, <2>4
<1>15. \A p \in Parties : /\ OwnInputs(p) \in Seq(Instruction) /\ LearnsFrom(OwnInputs(p), {})
                          /\ OwnOutputs(p) \in Seq(Instruction) /\ LearnsFrom(OwnOutputs(p), {})
  BY <1>3, InputsPass, OutputsPass, GatesTeachNothing
<1>16. \A p \in Parties : /\ InputProgram(p) = OwnInputs(p) \o (IF p # 0 THEN << >> ELSE ins)
                          /\ OutputProgram(p) = (IF p # 0 THEN << >> ELSE outs) \o OwnOutputs(p)
  BY <1>1, <1>6, Spelled
<1>17. \A p \in Parties : Program[p] = (InputProgram(p) \o mid[p]) \o OutputProgram(p)
  BY <1>9 DEF Program, Layers
<1>18. LearnsFrom(InputProgram(0), AllInputs) /\ InputProgram(0) \in Seq(Instruction)
  <2>1. InputProgram(0) = OwnInputs(0) \o ins
    BY <1>3, <1>16
  <2>2. {} \cap AllInputs = {} /\ {} \cup AllInputs = AllInputs
    OBVIOUS
  <2>3. LearnsFrom(OwnInputs(0) \o ins, {} \cup AllInputs) /\ OwnInputs(0) \o ins \in Seq(Instruction)
    BY <1>3, <1>5, <1>7, <1>15, <2>2
  <2>. QED
    BY <2>1, <2>2, <2>3
<1>19. LearnsFrom(OutputProgram(0), {}) /\ OutputProgram(0) \in Seq(Instruction)
  <2>1. OutputProgram(0) = outs \o OwnOutputs(0)
    BY <1>3, <1>16
  <2>2. {} \cap {} = {} /\ {} \cup {} = {}
    OBVIOUS
  <2>3. LearnsFrom(outs \o OwnOutputs(0), {} \cup {}) /\ outs \o OwnOutputs(0) \in Seq(Instruction)
    BY <1>3, <1>5, <1>8, <1>15, <2>2
  <2>. QED
    BY <2>1, <2>2, <2>3
<1>20. Apart(Learns, Program[0])
  <2>1. PICK x \in Seq(Instruction) : x = InputProgram(0) \o mid[0] /\ LearnsFrom(x, AllInputs \cup AllBatched)
    BY <1>3, <1>5, <1>10, <1>12, <1>14, <1>18
  <2>2. (AllInputs \cup AllBatched) \cap {} = {}
    OBVIOUS
  <2>3. LearnsFrom(x \o OutputProgram(0), (AllInputs \cup AllBatched) \cup {})
    BY <1>5, <1>19, <2>1, <2>2
  <2>4. Program[0] = x \o OutputProgram(0)
    BY <1>3, <1>17, <2>1
  <2>. QED
    BY <2>3, <2>4 DEF LearnsFrom
<1>21. ASSUME NEW p \in Parties, p # 0 PROVE Together(Learns, Program[p]) = {}
  <2>0. ASSUME NEW x \in Seq(Instruction), NEW y \in Seq(Instruction), LearnsFrom(x, {}), LearnsFrom(y, {})
        PROVE  LearnsFrom(x \o y, {}) /\ x \o y \in Seq(Instruction)
    <3>1. {} \cap {} = {} /\ {} \cup {} = {}
      OBVIOUS
    <3>2. LearnsFrom(x \o y, {} \cup {}) /\ x \o y \in Seq(Instruction)
      BY <1>5, <2>0, <3>1
    <3>. QED
      BY <3>1, <3>2
  <2>1. PICK a \in Seq(Instruction) : a = OwnInputs(p) \o << >> /\ LearnsFrom(a, {})
    BY <1>4, <1>15, <2>0
  <2>2. PICK d \in Seq(Instruction) : d = << >> \o OwnOutputs(p) /\ LearnsFrom(d, {})
    BY <1>4, <1>15, <2>0
  <2>3. PICK x \in Seq(Instruction) : x = a \o mid[p] /\ LearnsFrom(x, {})
    BY <1>10, <1>13, <1>21, <2>0, <2>1
  <2>4. LearnsFrom(x \o d, {})
    BY <2>0, <2>2, <2>3
  <2>5. Program[p] = x \o d
    <3>1. InputProgram(p) = a /\ OutputProgram(p) = d
      BY <1>16, <1>21, <2>1, <2>2
    <3>. QED
      BY <1>17, <2>3, <3>1
  <2>. QED
    BY <2>4, <2>5 DEF LearnsFrom
<1>. QED
  BY <1>20, <1>21

\* What P1 is still to learn it does not know.
Unlearned ==
  /\ DOMAIN mu \subseteq GateIds
  /\ \A g \in DOMAIN mu, n \in 1 .. Len(Program[0]) :
       n >= pc[0] /\ g \in Learns[Program[0][n]] => mu[g] = None

LEMMA InitUnlearned == Init => Unlearned
BY DEF Init, Unlearned, OfKind

\* A step changes what P1 knows only of what its instruction says it learns.
LEMMA OnlyLearns ==
  ASSUME Ordered, NEW p \in Parties, Step(p), DOMAIN mu \subseteq GateIds
  PROVE  /\ ~Finished(p) /\ Advance(p) /\ DOMAIN mu' = DOMAIN mu
         /\ \A g \in DOMAIN mu : g \notin Learns[Instr(p)] => mu'[g] = mu[g]
<1>1. CASE P1Receives(p)
  <2>1. ~Finished(p) /\ Instr(p).op = "P1Receives" /\ Advance(p)
    BY <1>1 DEF P1Receives, At
  <2>2. PICK v : mu' = [mu EXCEPT ![Instr(p).gate] = v]
    BY <1>1 DEF P1Receives
  <2>3. Learns[Instr(p)] = {Instr(p).gate}
    <3>1. Instr(p) \in Instruction
      BY <2>1, Told
    <3>. QED
      BY <2>1, <3>1 DEF Learns
  <2>. QED
    BY <2>1, <2>2, <2>3
<1>2. CASE P1ReceivesShare(p)
  <2>1. ~Finished(p) /\ Instr(p).op = "P1ReceivesShare" /\ Advance(p)
    BY <1>2 DEF P1ReceivesShare, At
  <2>2. PICK secrets : mu' = IF Reconstructs(Instr(p).from) THEN Learned(Slots(Instr(p).batch), secrets) ELSE mu
    BY <1>2 DEF P1ReceivesShare
  <2>3. CASE ~Reconstructs(Instr(p).from)
    BY <2>1, <2>2, <2>3
  <2>4. CASE Reconstructs(Instr(p).from)
    <3>1. Learns[Instr(p)] = GatesOf(Instr(p).batch)
      <4>1. Instr(p) \in Instruction
        BY <2>1, Told
      <4>. QED
        BY <2>1, <2>4, <4>1 DEF Learns
    <3>2. mu' = Learned(Slots(Instr(p).batch), secrets)
      BY <2>2, <2>4
    <3>3. DOMAIN mu' = DOMAIN mu
      BY <3>2 DEF Learned
    <3>4. ASSUME NEW g \in DOMAIN mu, g \notin GatesOf(Instr(p).batch) PROVE mu'[g] = mu[g]
      <4>1. ~ \E s \in 1 .. BatchSize : Slots(Instr(p).batch)[s] = g
        BY <3>4 DEF GatesOf
      <4>. QED
        BY <3>2, <4>1 DEF Learned
    <3>. QED
      BY <2>1, <3>1, <3>3, <3>4
  <2>. QED
    BY <2>3, <2>4
<1>3. CASE OwnerSendsP1(p) \/ P1SendsShare(p) \/ PartyReceivesShare(p) \/ PartySends(p)
           \/ P1SendsMu(p) \/ OwnerReceivesMu(p)
  <2>1. mu' = mu
    BY <1>3 DEF OwnerSendsP1, P1SendsShare, PartyReceivesShare, PartySends, P1SendsMu, OwnerReceivesMu
  <2>2. ~Finished(p) /\ Advance(p)
    BY <1>3 DEF OwnerSendsP1, P1SendsShare, PartyReceivesShare, PartySends, P1SendsMu, OwnerReceivesMu, At
  <2>. QED
    BY <2>1, <2>2
<1>. QED
  BY <1>1, <1>2, <1>3 DEF Step

\* P1 learns of a step what it did not know, and what is left to learn it
\* does not know after it either.
LEMMA NextUnlearned ==
  ASSUME Ordered, Unlearned, [Next]_vars
  PROVE  /\ Unlearned'
         /\ \A g \in DOMAIN mu : mu[g] # None => mu'[g] = mu[g]
<1>1. CASE UNCHANGED vars
  <2>1. mu' = mu /\ pc' = pc
    BY <1>1 DEF vars
  <2>. QED
    BY <2>1 DEF Unlearned
<1>2. ASSUME NEW p \in Parties, Step(p)
      PROVE  Unlearned' /\ \A g \in DOMAIN mu : mu[g] # None => mu'[g] = mu[g]
  <2>1. /\ ~Finished(p) /\ Advance(p) /\ DOMAIN mu' = DOMAIN mu
        /\ \A g \in DOMAIN mu : g \notin Learns[Instr(p)] => mu'[g] = mu[g]
    BY <1>2, OnlyLearns DEF Unlearned
  <2>2. 0 \in Parties /\ Program[p] \in Seq(Instruction) /\ Program[0] \in Seq(Instruction)
    BY Shapes, ProgramsMatch
  <2>3. pc = [q \in Parties |-> pc[q]] /\ \A q \in Parties : pc[q] \in 1 .. Len(Program[q]) + 1
    BY DEF Ordered, Agreeing, Running
  <2>4. PICK k \in 1 .. Len(Program[p]) : k = pc[p] /\ Instr(p) = Program[p][k]
    BY <2>1, <2>2, <2>3 DEF Finished, Instr
  <2>5. pc'[p] = k + 1 /\ \A q \in Parties : q # p => pc'[q] = pc[q]
    BY <2>1, <2>3, <2>4 DEF Advance
  <2>6. CASE p # 0
    <3>1. Learns[Instr(p)] = {}
      BY <2>4, <2>6, ProgramsTeach DEF Together
    <3>2. (\A g \in DOMAIN mu : mu'[g] = mu[g]) /\ pc'[0] = pc[0]
      BY <2>1, <2>2, <2>5, <2>6, <3>1
    <3>. QED
      BY <2>1, <3>2 DEF Unlearned
  <2>7. CASE p = 0
    <3>1. \A n \in 1 .. Len(Program[0]) : n # k => Learns[Program[0][n]] \cap Learns[Instr(0)] = {}
      BY <2>4, <2>7, ProgramsTeach DEF Apart
    <3>2. \A g \in DOMAIN mu : g \in Learns[Instr(0)] => mu[g] = None
      BY <2>4, <2>7 DEF Unlearned
    <3>3. \A g \in DOMAIN mu : mu[g] # None => mu'[g] = mu[g]
      BY <2>1, <2>7, <3>2
    <3>4. ASSUME NEW g \in DOMAIN mu, NEW n \in 1 .. Len(Program[0]), n >= k + 1, g \in Learns[Program[0][n]]
          PROVE  mu'[g] = None
      <4>1. n # k /\ n >= pc[0]
        BY <2>4, <2>7, <3>4
      <4>2. g \notin Learns[Instr(0)]
        BY <3>1, <3>4, <4>1
      <4>3. mu[g] = None
        BY <3>4, <4>1 DEF Unlearned
      <4>. QED
        BY <2>1, <2>7, <4>2, <4>3
    <3>5. DOMAIN mu' \subseteq GateIds
      BY <2>1 DEF Unlearned
    <3>. QED
      BY <2>1, <2>5, <2>7, <3>3, <3>4, <3>5 DEF Unlearned
  <2>. QED
    BY <2>6, <2>7
<1>. QED
  BY <1>1, <1>2 DEF Next, SomeStep

\* P1 never learns a wire twice, in any circuit that has a gate in one place
\* only: neither a party that sends its inputs again nor a batch multiplied
\* again can change a value that parties have been given shares of
\* (InputGate::_SendMuToP1, MultBatch::P1ReceivesShares).
THEOREM LearnsWiresOnce == Spec => LearnsOnce
<1>1. Init => Ordered /\ Unlearned
  BY InitOrdered, InitUnlearned
<1>2. Ordered /\ Unlearned /\ [Next]_vars => (Ordered /\ Unlearned)'
  BY NextOrdered, NextUnlearned
<1>3. Ordered /\ Unlearned /\ [Next]_vars => [\A g \in DOMAIN mu : mu[g] # None => mu'[g] = mu[g]]_vars
  BY NextUnlearned
<1>. QED
  BY <1>1, <1>2, <1>3, PTL DEF Spec, LearnsOnce
=============================================================================
