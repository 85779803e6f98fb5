---------------------------- MODULE FDPrepProofs ----------------------------
(***************************************************************************)
(* That every message of the function-dependent preprocessing is received  *)
(* for what it was sent for, in every circuit and whatever the connections *)
(* hold.  The programs do for one batch after the other what a function of *)
(* the batch says; so what passes from a party to another is known when it *)
(* is known of a batch.                                                    *)
(***************************************************************************)
EXTENDS FDPrep, StreamLemmas

Mult  == Range(MultBatches)
InOut == Range(IOBatches)
SideNames == {"A", "B"}

\* All that a party can be told to do, and all that a message can be for.
Instruction ==
  [op : {"SendMasked", "ReceiveOpened"}, batch : Mult, side : SideNames, peer : {0}]
  \cup [op : {"P1Collects", "P1Reshares"}, batch : Mult, side : SideNames, peer : Parties]
  \cup { i \in [op : {"SendToOwner", "OwnerCollects"}, batch : InOut, peer : Parties] :
           i.op = "SendToOwner" => i.peer = Owner(i.batch) }

Tag ==
  { << kind, b, s >> : kind \in {"masked", "opened"}, b \in Mult, s \in SideNames }
  \cup { << "mask", b >> : b \in InOut }

\* What an instruction sends party p, and what it receives from party q.
SentTo(p) ==
  [i \in Instruction |->
     IF i.op = "SendMasked" /\ p = 0 THEN << << "masked", i.batch, i.side >> >>
     ELSE IF i.op = "P1Reshares" /\ i.peer = p THEN << << "opened", i.batch, i.side >> >>
     ELSE IF i.op = "SendToOwner" /\ i.peer = p THEN << << "mask", i.batch >> >>
     ELSE << >>]

ReceivedFrom(q) ==
  [i \in Instruction |->
     IF i.op = "P1Collects" /\ i.peer = q THEN << << "masked", i.batch, i.side >> >>
     ELSE IF i.op = "ReceiveOpened" /\ q = 0 THEN << << "opened", i.batch, i.side >> >>
     ELSE IF i.op = "OwnerCollects" /\ i.peer = q THEN << << "mask", i.batch >> >>
     ELSE << >>]

-----------------------------------------------------------------------------
(* Batches and instructions.                                                *)

\* Of the batches of all clients one knows whose they are.
LEMMA OwnedShapes ==
  ASSUME NEW kind, NEW batches \in [Parties -> Layer]
  PROVE  OwnedBatches(kind, batches) \in Seq({kind} \X Parties \X Nat)
<1>1. PICK S, n : S = {kind} \X Parties \X Nat /\ n \in Nat /\ n = NParties
  BY NPartiesAssumption
<1>2. ASSUME NEW c \in 1 .. n
      PROVE  [b \in 1 .. Len(batches[c - 1]) |-> << kind, c - 1, b >>] \in Seq(S)
  <2>1. PICK q \in Parties : q = c - 1
    BY <1>1 DEF Parties
  <2>2. PICK B : B = Batch
    OBVIOUS
  <2>3. batches[q] \in Seq(B)
    BY <2>2 DEF Layer
  <2>4. PICK m \in Nat : m = Len(batches[q])
    BY <2>3
  <2>5. \A b \in 1 .. m : << kind, q, b >> \in S
    BY <1>1
  <2>6. [b \in 1 .. m |-> << kind, q, b >>] \in Seq(S)
    BY <2>5
  <2>. QED
    BY <2>1, <2>4, <2>6
<1>3. PICK U : U = Seq(S)
  OBVIOUS
<1>4. PICK s : s = [c \in 1 .. n |-> [b \in 1 .. Len(batches[c - 1]) |-> << kind, c - 1, b >>]]
  OBVIOUS
<1>5. s \in Seq(U)
  BY <1>1, <1>2, <1>3, <1>4
<1>6. FlattenSeq(s) \in Seq(S)
  BY <1>3, <1>5, FlattenType
<1>. QED
  BY <1>1, <1>4, <1>6 DEF OwnedBatches

\* The batches are sequences, and those of inputs and outputs have an owner.
LEMMA Shapes ==
  /\ 0 \in Parties /\ NParties \in Nat
  /\ MultBatches \in Seq(Mult) /\ IOBatches \in Seq(InOut)
  /\ \A b \in InOut : Owner(b) \in Parties
<1>1. 0 \in Parties /\ NParties \in Nat
  BY NPartiesAssumption DEF Parties
<1>2. MultBatches \in Seq(Mult)
  <2>1. PICK S : S = {"mult"} \X Nat \X Nat
    OBVIOUS
  <2>2. PICK L : L = Layer
    OBVIOUS
  <2>3. PICK layers \in Seq(L) : layers = Circuit.layers
    BY <2>2, CircuitAssumption
  <2>4. PICK n \in Nat : n = Len(layers)
    OBVIOUS
  <2>5. ASSUME NEW l \in 1 .. n
        PROVE  [b \in 1 .. Len(layers[l]) |-> << "mult", l, b >>] \in Seq(S)
    <3>1. PICK B : B = Batch
      OBVIOUS
    <3>2. layers[l] \in L
      BY <2>4, ElementOfSeq
    <3>3. layers[l] \in Seq(B)
      BY <2>2, <3>1, <3>2 DEF Layer
    <3>4. PICK m \in Nat : m = Len(layers[l])
      BY <3>3
    <3>5. \A b \in 1 .. m : << "mult", l, b >> \in S
      BY <2>1
    <3>6. [b \in 1 .. m |-> << "mult", l, b >>] \in Seq(S)
      BY <3>5
    <3>. QED
      BY <3>4, <3>6
  <2>6. PICK U : U = Seq(S)
    OBVIOUS
  <2>7. PICK s : s = [l \in 1 .. n |-> [b \in 1 .. Len(layers[l]) |-> << "mult", l, b >>]]
    OBVIOUS
  <2>8. s \in Seq(U)
    BY <2>5, <2>6, <2>7
  <2>9. FlattenSeq(s) \in Seq(S)
    BY <2>6, <2>8, FlattenType
  <2>10. MultBatches \in Seq(S)
    BY <2>3, <2>4, <2>7, <2>9 DEF MultBatches
  <2>. QED
    BY <2>10, OwnMembers DEF IsSeq, Mult
<1>3. IOBatches \in Seq({"input", "output"} \X Parties \X Nat)
  <2>1. PICK S : S = {"input", "output"} \X Parties \X Nat
    OBVIOUS
  <2>2. PICK a, b : a = OwnedBatches("input", Circuit.inputBatches) /\ b = OwnedBatches("output", Circuit.outputBatches)
    OBVIOUS
  <2>3. a \in Seq({"input"} \X Parties \X Nat) /\ b \in Seq({"output"} \X Parties \X Nat)
    BY <2>2, CircuitAssumption, OwnedShapes
  <2>4. {"input"} \X Parties \X Nat \subseteq S /\ {"output"} \X Parties \X Nat \subseteq S
    BY <2>1
  <2>5. a \in Seq(S) /\ b \in Seq(S)
    BY <2>3, <2>4
  <2>6. a \o b \in Seq(S)
    BY <2>5, ConcatProperties
  <2>. QED
    BY <2>1, <2>2, <2>6 DEF IOBatches
<1>4. IOBatches \in Seq(InOut)
  BY <1>3, OwnMembers DEF IsSeq, InOut
<1>5. \A b \in InOut : Owner(b) \in Parties
  <2>1. PICK S : S = {"input", "output"} \X Parties \X Nat
    OBVIOUS
  <2>2. TAKE b \in InOut
  <2>3. b \in S
    BY <1>3, <2>1 DEF InOut, Range
  <2>. QED
    BY <2>1, <2>3 DEF Owner
<1>. QED
  BY <1>1, <1>2, <1>4, <1>5

\* What there is in each instruction.
LEMMA Kinds ==
  ASSUME NEW i \in Instruction
  PROVE  /\ i.op \in {"SendMasked", "ReceiveOpened", "P1Collects", "P1Reshares"}
              => i.batch \in Mult /\ i.side \in SideNames
         /\ i.op \in {"SendToOwner", "OwnerCollects"} => i.batch \in InOut
         /\ i.op \in {"SendMasked", "ReceiveOpened"} => i.peer = 0
         /\ i.op \in {"P1Collects", "P1Reshares", "SendToOwner", "OwnerCollects"} => i.peer \in Parties
         /\ i.op = "SendToOwner" => i.peer = Owner(i.batch)
BY DEF Instruction

\* They send tags and receive tags.
LEMMA Trading ==
  ASSUME NEW p
  PROVE  Maps(SentTo(p), Instruction, Tag) /\ Maps(ReceivedFrom(p), Instruction, Tag)
<1>1. ASSUME NEW i \in Instruction
      PROVE  /\ i.op = "SendMasked" \/ i.op = "P1Collects" => << "masked", i.batch, i.side >> \in Tag
             /\ i.op = "P1Reshares" \/ i.op = "ReceiveOpened" => << "opened", i.batch, i.side >> \in Tag
             /\ i.op = "SendToOwner" \/ i.op = "OwnerCollects" => << "mask", i.batch >> \in Tag
  BY Kinds DEF Tag
<1>2. PICK T : T = Tag
  OBVIOUS
<1>3. \A t \in T : << t >> \in Seq(T)
  OBVIOUS
<1>4. << >> \in Seq(T)
  OBVIOUS
<1>5. ASSUME NEW i \in Instruction PROVE SentTo(p)[i] \in Seq(T)
  BY <1>1, <1>2, <1>3, <1>4 DEF SentTo
<1>6. ASSUME NEW i \in Instruction PROVE ReceivedFrom(p)[i] \in Seq(T)
  BY <1>1, <1>2, <1>3, <1>4 DEF ReceivedFrom
<1>7. SentTo(p) \in [Instruction -> Seq(T)]
  BY <1>5 DEF SentTo
<1>8. ReceivedFrom(p) \in [Instruction -> Seq(T)]
  BY <1>6 DEF ReceivedFrom
<1>. QED
  BY <1>2, <1>7, <1>8 DEF Maps

\* The instructions of the programs.
OfSide(op, b, s, c) == [op |-> op, batch |-> b, side |-> s, peer |-> c]
OfOwner(op, b, c) == [op |-> op, batch |-> b, peer |-> c]

\* What the instructions for a side of a batch send and receive.
LEMMA SideBySide ==
  ASSUME NEW b \in Mult, NEW s \in SideNames, NEW c \in Parties, NEW p \in Parties
  PROVE  /\ OfSide("SendMasked", b, s, 0) \in Instruction /\ OfSide("ReceiveOpened", b, s, 0) \in Instruction
         /\ OfSide("P1Collects", b, s, c) \in Instruction /\ OfSide("P1Reshares", b, s, c) \in Instruction
         /\ SentTo(p)[OfSide("SendMasked", b, s, 0)] = (IF p = 0 THEN << << "masked", b, s >> >> ELSE << >>)
         /\ SentTo(p)[OfSide("P1Collects", b, s, c)] = << >>
         /\ SentTo(p)[OfSide("P1Reshares", b, s, c)] = (IF c = p THEN << << "opened", b, s >> >> ELSE << >>)
         /\ SentTo(p)[OfSide("ReceiveOpened", b, s, 0)] = << >>
         /\ ReceivedFrom(p)[OfSide("SendMasked", b, s, 0)] = << >>
         /\ ReceivedFrom(p)[OfSide("P1Collects", b, s, c)] = (IF c = p THEN << << "masked", b, s >> >> ELSE << >>)
         /\ ReceivedFrom(p)[OfSide("P1Reshares", b, s, c)] = << >>
         /\ ReceivedFrom(p)[OfSide("ReceiveOpened", b, s, 0)] = (IF p = 0 THEN << << "opened", b, s >> >> ELSE << >>)
<1>1. OfSide("SendMasked", b, s, 0) \in Instruction
  BY DEF Instruction, OfSide
<1>2. OfSide("ReceiveOpened", b, s, 0) \in Instruction
  BY DEF Instruction, OfSide
<1>3. OfSide("P1Collects", b, s, c) \in Instruction
  BY DEF Instruction, OfSide
<1>4. OfSide("P1Reshares", b, s, c) \in Instruction
  BY DEF Instruction, OfSide
<1>5. /\ SentTo(p)[OfSide("SendMasked", b, s, 0)] = (IF p = 0 THEN << << "masked", b, s >> >> ELSE << >>)
      /\ ReceivedFrom(p)[OfSide("SendMasked", b, s, 0)] = << >>
  BY <1>1 DEF OfSide, SentTo, ReceivedFrom
<1>6. /\ SentTo(p)[OfSide("ReceiveOpened", b, s, 0)] = << >>
      /\ ReceivedFrom(p)[OfSide("ReceiveOpened", b, s, 0)] = (IF p = 0 THEN << << "opened", b, s >> >> ELSE << >>)
  BY <1>2 DEF OfSide, SentTo, ReceivedFrom
<1>7. /\ SentTo(p)[OfSide("P1Collects", b, s, c)] = << >>
      /\ ReceivedFrom(p)[OfSide("P1Collects", b, s, c)] = (IF c = p THEN << << "masked", b, s >> >> ELSE << >>)
  BY <1>3 DEF OfSide, SentTo, ReceivedFrom
<1>8. /\ SentTo(p)[OfSide("P1Reshares", b, s, c)] = (IF c = p THEN << << "opened", b, s >> >> ELSE << >>)
      /\ ReceivedFrom(p)[OfSide("P1Reshares", b, s, c)] = << >>
  BY <1>4 DEF OfSide, SentTo, ReceivedFrom
<1>. QED
  BY <1>1, <1>2, <1>3, <1>4, <1>5, <1>6, <1>7, <1>8

\* What the instructions for the owner of a batch send and receive.
LEMMA OwnerByOwner ==
  ASSUME NEW b \in InOut, NEW c \in Parties, NEW p \in Parties
  PROVE  /\ OfOwner("SendToOwner", b, Owner(b)) \in Instruction /\ OfOwner("OwnerCollects", b, c) \in Instruction
         /\ SentTo(p)[OfOwner("SendToOwner", b, Owner(b))] = (IF Owner(b) = p THEN << << "mask", b >> >> ELSE << >>)
         /\ SentTo(p)[OfOwner("OwnerCollects", b, c)] = << >>
         /\ ReceivedFrom(p)[OfOwner("SendToOwner", b, Owner(b))] = << >>
         /\ ReceivedFrom(p)[OfOwner("OwnerCollects", b, c)] = (IF c = p THEN << << "mask", b >> >> ELSE << >>)
<1>1. PICK o \in Parties : o = Owner(b)
  BY Shapes
<1>2. OfOwner("SendToOwner", b, o) \in Instruction
  BY <1>1 DEF Instruction, OfOwner
<1>3. OfOwner("OwnerCollects", b, c) \in Instruction
  BY DEF Instruction, OfOwner
<1>4. /\ SentTo(p)[OfOwner("SendToOwner", b, o)] = (IF o = p THEN << << "mask", b >> >> ELSE << >>)
      /\ ReceivedFrom(p)[OfOwner("SendToOwner", b, o)] = << >>
  BY <1>2 DEF OfOwner, SentTo, ReceivedFrom
<1>5. /\ SentTo(p)[OfOwner("OwnerCollects", b, c)] = << >>
      /\ ReceivedFrom(p)[OfOwner("OwnerCollects", b, c)] = (IF c = p THEN << << "mask", b >> >> ELSE << >>)
  BY <1>3 DEF OfOwner, SentTo, ReceivedFrom
<1>. QED
  BY <1>1, <1>2, <1>3, <1>4, <1>5

-----------------------------------------------------------------------------
(* What passes for a batch.                                                 *)

BothTags(kind, b) == [s \in 1 .. 2 |-> << kind, b, Sides[s] >>]

\* f makes nothing of the instructions for both sides, or a tag of each.
Quiet(f, op, b, c) == \A s \in SideNames : f[OfSide(op, b, s, c)] = << >>
Says(f, op, b, c, kind) == \A s \in SideNames : f[OfSide(op, b, s, c)] = << << kind, b, s >> >>

\* The tags of both sides.
LEMMA BothAreTags ==
  ASSUME NEW b \in Mult, NEW kind \in {"masked", "opened"}
  PROVE  /\ BothTags(kind, b) \in Seq(Tag) /\ Len(BothTags(kind, b)) = 2
         /\ BothTags(kind, b)[1] = << kind, b, "A" >> /\ BothTags(kind, b)[2] = << kind, b, "B" >>
<1>1. PICK T : T = Tag
  OBVIOUS
<1>2. << kind, b, "A" >> \in T /\ << kind, b, "B" >> \in T
  BY <1>1 DEF Tag, SideNames
<1>3. Sides[1] = "A" /\ Sides[2] = "B"
  BY DEF Sides
<1>4. PICK t : t = BothTags(kind, b)
  OBVIOUS
<1>5. t = [s \in 1 .. 2 |-> << kind, b, Sides[s] >>]
  BY <1>4 DEF BothTags
<1>6. t[1] = << kind, b, "A" >> /\ t[2] = << kind, b, "B" >>
  BY <1>3, <1>5
<1>7. \A s \in 1 .. 2 : t[s] \in T
  BY <1>2, <1>6
<1>8. t \in Seq(T) /\ Len(t) = 2
  BY <1>5, <1>7
<1>. QED
  BY <1>1, <1>4, <1>6, <1>8

\* Both sides, one after the other.
LEMMA BothPass ==
  ASSUME NEW f, Maps(f, Instruction, Tag), NEW b \in Mult, NEW op, NEW c,
         \A s \in SideNames : OfSide(op, b, s, c) \in Instruction
  PROVE  /\ BothSides(op, b, c) \in Seq(Instruction)
         /\ Quiet(f, op, b, c) => Projected(f, BothSides(op, b, c)) = << >>
         /\ \A kind \in {"masked", "opened"} :
              Says(f, op, b, c, kind) => Projected(f, BothSides(op, b, c)) = BothTags(kind, b)
<1>1. PICK I, r : I = Instruction /\ r = BothSides(op, b, c)
  OBVIOUS
<1>2. "A" \in SideNames /\ "B" \in SideNames /\ Sides[1] = "A" /\ Sides[2] = "B"
  BY DEF SideNames, Sides
<1>3. r = [s \in 1 .. 2 |-> OfSide(op, b, Sides[s], c)]
  BY <1>1 DEF BothSides, OfSide
<1>4. r[1] = OfSide(op, b, "A", c) /\ r[2] = OfSide(op, b, "B", c)
  BY <1>2, <1>3
<1>5. r[1] \in I /\ r[2] \in I
  BY <1>1, <1>2, <1>4
<1>6. r \in Seq(I) /\ Len(r) = 2
  <2>1. \A s \in 1 .. 2 : r[s] \in I
    BY <1>5
  <2>2. r = [s \in 1 .. 2 |-> r[s]]
    BY <1>3
  <2>. QED
    BY <2>1, <2>2
<1>7. ASSUME Quiet(f, op, b, c) PROVE Projected(f, r) = << >>
  <2>1. f[r[1]] = << >> /\ f[r[2]] = << >>
    BY <1>2, <1>4, <1>7 DEF Quiet
  <2>2. \A i \in 1 .. Len(r) : f[r[i]] = << >>
    BY <1>6, <2>1
  <2>. QED
    BY <1>1, <1>6, <2>2, ProjectedNothing
<1>8. ASSUME NEW kind \in {"masked", "opened"}, Says(f, op, b, c, kind)
      PROVE  Projected(f, r) = BothTags(kind, b)
  <2>1. PICK t \in Seq(Tag) : t = BothTags(kind, b)
    BY BothAreTags
  <2>2. Len(t) = 2 /\ t[1] = << kind, b, "A" >> /\ t[2] = << kind, b, "B" >>
    BY <2>1, BothAreTags
  <2>3. f[r[1]] = << << kind, b, "A" >> >> /\ f[r[2]] = << << kind, b, "B" >> >>
    BY <1>2, <1>4, <1>8 DEF Says
  <2>4. Spells(f, r, t)
    BY <1>6, <2>2, <2>3 DEF Spells
  <2>5. \A a \in Seq(Instruction), u \in Seq(Tag) : Spells(f, a, u) => Projected(f, a) = u
    BY ProjectedEach
  <2>. QED
    BY <1>1, <1>6, <2>1, <2>4, <2>5
<1>. QED
  BY <1>1, <1>6, <1>7, <1>8

\* What P1 does with all parties for a batch.
Rows(op, b) == [q \in 1 .. NParties |-> BothSides(op, b, q - 1)]

LEMMA RowsPass ==
  ASSUME NEW f, Maps(f, Instruction, Tag), NEW b \in Mult, NEW op \in {"P1Collects", "P1Reshares"}
  PROVE  /\ FlattenSeq(Rows(op, b)) \in Seq(Instruction)
         /\ (\A c \in Parties : Quiet(f, op, b, c)) => Projected(f, FlattenSeq(Rows(op, b))) = << >>
         /\ \A kind \in {"masked", "opened"}, p \in Parties :
              Says(f, op, b, p, kind) /\ (\A c \in Parties : c # p => Quiet(f, op, b, c))
              => Projected(f, FlattenSeq(Rows(op, b))) = BothTags(kind, b)
<1>1. PICK n \in Nat : n = NParties
  BY Shapes
<1>2. ASSUME NEW c \in Parties
      PROVE  /\ BothSides(op, b, c) \in Seq(Instruction)
             /\ Quiet(f, op, b, c) => Projected(f, BothSides(op, b, c)) = << >>
             /\ \A kind \in {"masked", "opened"} :
                  Says(f, op, b, c, kind) => Projected(f, BothSides(op, b, c)) = BothTags(kind, b)
  <2>1. \A s \in SideNames : OfSide(op, b, s, c) \in Instruction
    BY SideBySide
  <2>. QED
    BY <2>1, BothPass
<1>3. PICK U, r : U = Seq(Instruction) /\ r = Rows(op, b)
  OBVIOUS
<1>4. \A q \in 1 .. n : q - 1 \in Parties
  BY <1>1 DEF Parties
<1>5. r \in Seq(U) /\ Len(r) = n /\ \A q \in 1 .. n : r[q] = BothSides(op, b, q - 1)
  <2>1. r = [q \in 1 .. n |-> BothSides(op, b, q - 1)]
    BY <1>1, <1>3 DEF Rows
  <2>2. \A q \in 1 .. n : BothSides(op, b, q - 1) \in U
    BY <1>2, <1>3, <1>4
  <2>. QED
    BY <2>1, <2>2
<1>6. r \in Seq(Seq(Instruction)) /\ FlattenSeq(r) \in Seq(Instruction)
  BY <1>3, <1>5, FlattenType
<1>7. ASSUME \A c \in Parties : Quiet(f, op, b, c) PROVE Projected(f, FlattenSeq(r)) = << >>
  <2>1. \A i \in 1 .. Len(r) : Projected(f, r[i]) = << >>
    BY <1>2, <1>4, <1>5, <1>7
  <2>. QED
    BY <1>6, <2>1, ProjectedRows
<1>8. ASSUME NEW kind \in {"masked", "opened"}, NEW p \in Parties,
             Says(f, op, b, p, kind), \A c \in Parties : c # p => Quiet(f, op, b, c)
      PROVE  Projected(f, FlattenSeq(r)) = BothTags(kind, b)
  <2>1. PICK k \in 1 .. n : k = p + 1
    BY <1>1 DEF Parties
  <2>2. k - 1 = p /\ \A i \in 1 .. n : i # k => i - 1 # p
    BY <2>1 DEF Parties
  <2>3. \A i \in 1 .. Len(r) : i # k => Projected(f, r[i]) = << >>
    BY <1>2, <1>4, <1>5, <1>8, <2>2
  <2>4. Projected(f, r[k]) = BothTags(kind, b)
    BY <1>2, <1>5, <1>8, <2>2
  <2>5. OnlyRow(f, r, k)
    BY <1>5, <2>3 DEF OnlyRow
  <2>6. \A s \in Seq(Seq(Instruction)), m \in Nat :
          OnlyRow(f, s, m) => Projected(f, FlattenSeq(s)) = Projected(f, s[m])
    BY ProjectedRows
  <2>7. k \in Nat
    OBVIOUS
  <2>. QED
    BY <1>6, <2>4, <2>5, <2>6, <2>7
<1>. QED
  BY <1>3, <1>6, <1>7, <1>8

\* What the programs do for a batch.
Masking    == [b \in Mult |-> BothSides("SendMasked", b, 0)]
AtP1       == [b \in Mult |-> FlattenSeq(Rows("P1Collects", b)) \o FlattenSeq(Rows("P1Reshares", b))]
Opening    == [b \in Mult |-> BothSides("ReceiveOpened", b, 0)]
ForOwner   == [b \in InOut |-> << OfOwner("SendToOwner", b, Owner(b)) >>]
Gathering(b) == [q \in 1 .. NParties |-> OfOwner("OwnerCollects", b, q - 1)]
AsOwner(p) == [b \in InOut |-> IF Owner(b) # p THEN << >> ELSE Gathering(b)]

\* And what is sent and received for one.
MaskedTags(p) == [b \in Mult |-> IF p = 0 THEN BothTags("masked", b) ELSE << >>]
OpenedTags(q) == [b \in Mult |-> IF q = 0 THEN BothTags("opened", b) ELSE << >>]
MaskTags(p)   == [b \in InOut |-> IF Owner(b) = p THEN << << "mask", b >> >> ELSE << >>]
NoTagsFor(B)  == [b \in B |-> << >>]

\* Instructions and tags.
LEMMA BatchTypes ==
  ASSUME NEW p \in Parties
  PROVE  /\ Maps(Masking, Mult, Instruction) /\ Maps(AtP1, Mult, Instruction)
         /\ Maps(Opening, Mult, Instruction) /\ Maps(ForOwner, InOut, Instruction)
         /\ Maps(AsOwner(p), InOut, Instruction)
         /\ Maps(MaskedTags(p), Mult, Tag) /\ Maps(OpenedTags(p), Mult, Tag)
         /\ Maps(MaskTags(p), InOut, Tag)
         /\ Maps(NoTagsFor(Mult), Mult, Tag) /\ Maps(NoTagsFor(InOut), InOut, Tag)
<1>1. PICK I, T : I = Instruction /\ T = Tag
  OBVIOUS
<1>2. \A e \in I : << e >> \in Seq(I)
  OBVIOUS
<1>3. \A e \in T : << e >> \in Seq(T)
  OBVIOUS
<1>4. << >> \in Seq(T) /\ << >> \in Seq(I)
  OBVIOUS
<1>5. PICK f : f = SentTo(p) /\ Maps(f, Instruction, Tag)
  BY Trading
<1>6. ASSUME NEW b \in Mult
      PROVE  /\ BothSides("SendMasked", b, 0) \in Seq(I) /\ BothSides("ReceiveOpened", b, 0) \in Seq(I)
             /\ FlattenSeq(Rows("P1Collects", b)) \o FlattenSeq(Rows("P1Reshares", b)) \in Seq(I)
  <2>1. \A s \in SideNames : OfSide("SendMasked", b, s, 0) \in Instruction /\ OfSide("ReceiveOpened", b, s, 0) \in Instruction
    BY Shapes, SideBySide
  <2>2. BothSides("SendMasked", b, 0) \in Seq(Instruction)
    BY <1>5, <2>1, BothPass
  <2>3. BothSides("ReceiveOpened", b, 0) \in Seq(Instruction)
    BY <1>5, <2>1, BothPass
  <2>4. FlattenSeq(Rows("P1Collects", b)) \in Seq(I) /\ FlattenSeq(Rows("P1Reshares", b)) \in Seq(I)
    BY <1>1, <1>5, RowsPass
  <2>5. \A x, y \in Seq(I) : x \o y \in Seq(I)
    BY ConcatProperties
  <2>. QED
    BY <1>1, <2>2, <2>3, <2>4, <2>5
<1>7. ASSUME NEW b \in InOut
      PROVE  /\ << OfOwner("SendToOwner", b, Owner(b)) >> \in Seq(I)
             /\ Gathering(b) \in Seq(I)
  <2>1. OfOwner("SendToOwner", b, Owner(b)) \in I
    BY <1>1, Shapes, OwnerByOwner
  <2>2. PICK n \in Nat : n = NParties
    BY Shapes
  <2>3. \A q \in 1 .. n : OfOwner("OwnerCollects", b, q - 1) \in I
    <3>1. \A q \in 1 .. n : q - 1 \in Parties
      BY <2>2 DEF Parties
    <3>. QED
      BY <1>1, <3>1, OwnerByOwner
  <2>4. [q \in 1 .. n |-> OfOwner("OwnerCollects", b, q - 1)] \in Seq(I)
    BY <2>3
  <2>. QED
    BY <1>2, <2>1, <2>2, <2>4 DEF Gathering
<1>8. Maps(Masking, Mult, Instruction) /\ Maps(AtP1, Mult, Instruction) /\ Maps(Opening, Mult, Instruction)
  BY <1>1, <1>6 DEF Maps, Masking, AtP1, Opening
<1>9. Maps(ForOwner, InOut, Instruction) /\ Maps(AsOwner(p), InOut, Instruction)
  BY <1>1, <1>4, <1>7 DEF Maps, ForOwner, AsOwner
<1>10. \A b \in Mult, kind \in {"masked", "opened"} : BothTags(kind, b) \in Seq(T)
  BY <1>1, BothAreTags
<1>11. Maps(MaskedTags(p), Mult, Tag) /\ Maps(OpenedTags(p), Mult, Tag)
  BY <1>1, <1>4, <1>10 DEF Maps, MaskedTags, OpenedTags
<1>12. Maps(MaskTags(p), InOut, Tag)
  <2>1. \A b \in InOut : << "mask", b >> \in T
    BY <1>1 DEF Tag
  <2>2. \A b \in InOut : << << "mask", b >> >> \in Seq(T)
    BY <1>3, <2>1
  <2>. QED
    BY <1>1, <1>4, <2>2 DEF Maps, MaskTags
<1>13. Maps(NoTagsFor(Mult), Mult, Tag) /\ Maps(NoTagsFor(InOut), InOut, Tag)
  BY <1>1, <1>4 DEF Maps, NoTagsFor
<1>. QED
  BY <1>8, <1>9, <1>11, <1>12, <1>13

\* A party masks the wires of a batch for P1, which is the only one to hear of it.
LEMMA MaskingPasses ==
  ASSUME NEW p \in Parties
  PROVE  AtOnce(MaskedTags(p), SentTo(p), Masking, Mult) /\ AtOnce(NoTagsFor(Mult), ReceivedFrom(p), Masking, Mult)
<1>0. Maps(SentTo(p), Instruction, Tag) /\ Maps(ReceivedFrom(p), Instruction, Tag)
  BY Trading
<1>1. ASSUME NEW b \in Mult
      PROVE  /\ Projected(SentTo(p), BothSides("SendMasked", b, 0)) = (IF p = 0 THEN BothTags("masked", b) ELSE << >>)
             /\ Projected(ReceivedFrom(p), BothSides("SendMasked", b, 0)) = << >>
  <2>0. 0 \in Parties
    BY Shapes
  <2>1. \A s \in SideNames : OfSide("SendMasked", b, s, 0) \in Instruction
    BY <2>0, SideBySide
  <2>2. p = 0 => Says(SentTo(p), "SendMasked", b, 0, "masked")
    BY <2>0, SideBySide DEF Says
  <2>3. p # 0 => Quiet(SentTo(p), "SendMasked", b, 0)
    BY <2>0, SideBySide DEF Quiet
  <2>4. Quiet(ReceivedFrom(p), "SendMasked", b, 0)
    BY <2>0, SideBySide DEF Quiet
  <2>5. Projected(ReceivedFrom(p), BothSides("SendMasked", b, 0)) = << >>
    BY <1>0, <2>1, <2>4, BothPass
  <2>6. p # 0 => Projected(SentTo(p), BothSides("SendMasked", b, 0)) = << >>
    BY <1>0, <2>1, <2>3, BothPass
  <2>7. p = 0 => Projected(SentTo(p), BothSides("SendMasked", b, 0)) = BothTags("masked", b)
    BY <1>0, <2>1, <2>2, BothPass
  <2>. QED
    BY <2>5, <2>6, <2>7
<1>. QED
  BY <1>1 DEF AtOnce, MaskedTags, NoTagsFor, Masking

\* A party opens a batch with what P1 sends it.
LEMMA OpeningPasses ==
  ASSUME NEW p \in Parties
  PROVE  AtOnce(NoTagsFor(Mult), SentTo(p), Opening, Mult) /\ AtOnce(OpenedTags(p), ReceivedFrom(p), Opening, Mult)
<1>0. Maps(SentTo(p), Instruction, Tag) /\ Maps(ReceivedFrom(p), Instruction, Tag)
  BY Trading
<1>1. ASSUME NEW b \in Mult
      PROVE  /\ Projected(ReceivedFrom(p), BothSides("ReceiveOpened", b, 0))
                  = (IF p = 0 THEN BothTags("opened", b) ELSE << >>)
             /\ Projected(SentTo(p), BothSides("ReceiveOpened", b, 0)) = << >>
  <2>0. 0 \in Parties
    BY Shapes
  <2>1. \A s \in SideNames : OfSide("ReceiveOpened", b, s, 0) \in Instruction
    BY <2>0, SideBySide
  <2>2. p = 0 => Says(ReceivedFrom(p), "ReceiveOpened", b, 0, "opened")
    BY <2>0, SideBySide DEF Says
  <2>3. p # 0 => Quiet(ReceivedFrom(p), "ReceiveOpened", b, 0)
    BY <2>0, SideBySide DEF Quiet
  <2>4. Quiet(SentTo(p), "ReceiveOpened", b, 0)
    BY <2>0, SideBySide DEF Quiet
  <2>5. Projected(SentTo(p), BothSides("ReceiveOpened", b, 0)) = << >>
    BY <1>0, <2>1, <2>4, BothPass
  <2>6. p # 0 => Projected(ReceivedFrom(p), BothSides("ReceiveOpened", b, 0)) = << >>
    BY <1>0, <2>1, <2>3, BothPass
  <2>7. p = 0 => Projected(ReceivedFrom(p), BothSides("ReceiveOpened", b, 0)) = BothTags("opened", b)
    BY <1>0, <2>1, <2>2, BothPass
  <2>. QED
    BY <2>5, <2>6, <2>7
<1>. QED
  BY <1>1 DEF AtOnce, OpenedTags, NoTagsFor, Opening

\* P1 gathers a batch from everybody and sends everybody its shares.
LEMMA AtP1Passes ==
  ASSUME NEW p \in Parties
  PROVE  AtOnce(OpenedTags(0), SentTo(p), AtP1, Mult) /\ AtOnce(MaskedTags(0), ReceivedFrom(p), AtP1, Mult)
<1>0. Maps(SentTo(p), Instruction, Tag) /\ Maps(ReceivedFrom(p), Instruction, Tag)
  BY Trading
<1>c. PICK f, g : f = SentTo(p) /\ g = ReceivedFrom(p) /\ Maps(f, Instruction, Tag) /\ Maps(g, Instruction, Tag)
  BY <1>0
<1>d. \A a, b \in Seq(Instruction) : Projected(f, a \o b) = Projected(f, a) \o Projected(f, b)
  <2>1. Maps(f, Instruction, Tag)
    BY <1>c
  <2>. QED
    BY <2>1, ProjectedConcat
<1>e. \A a, b \in Seq(Instruction) : Projected(g, a \o b) = Projected(g, a) \o Projected(g, b)
  <2>1. Maps(g, Instruction, Tag)
    BY <1>c
  <2>. QED
    BY <2>1, ProjectedConcat
<1>1. ASSUME NEW b \in Mult
      PROVE  /\ Projected(SentTo(p), AtP1[b]) = BothTags("opened", b)
             /\ Projected(ReceivedFrom(p), AtP1[b]) = BothTags("masked", b)
  <2>1. PICK c, r \in Seq(Instruction) :
          c = FlattenSeq(Rows("P1Collects", b)) /\ r = FlattenSeq(Rows("P1Reshares", b))
    BY <1>0, RowsPass
  <2>2. AtP1[b] = c \o r
    BY <2>1 DEF AtP1
  <2>3. Says(SentTo(p), "P1Reshares", b, p, "opened") /\ \A a \in Parties : a # p => Quiet(SentTo(p), "P1Reshares", b, a)
    BY SideBySide DEF Says, Quiet
  <2>4. \A a \in Parties : Quiet(SentTo(p), "P1Collects", b, a)
    BY SideBySide DEF Quiet
  <2>5. \A a \in Parties : Quiet(ReceivedFrom(p), "P1Reshares", b, a)
    BY SideBySide DEF Quiet
  <2>6. /\ Says(ReceivedFrom(p), "P1Collects", b, p, "masked")
        /\ \A a \in Parties : a # p => Quiet(ReceivedFrom(p), "P1Collects", b, a)
    BY SideBySide DEF Says, Quiet
  <2>7. Projected(SentTo(p), c) = << >>
    BY <1>0, <2>1, <2>4, RowsPass
  <2>8. Projected(SentTo(p), r) = BothTags("opened", b)
    BY <1>0, <2>1, <2>3, RowsPass
  <2>9. Projected(ReceivedFrom(p), c) = BothTags("masked", b)
    BY <1>0, <2>1, <2>6, RowsPass
  <2>10. Projected(ReceivedFrom(p), r) = << >>
    BY <1>0, <2>1, <2>5, RowsPass
  <2>13. PICK o, m \in Seq(Tag) : o = BothTags("opened", b) /\ m = BothTags("masked", b)
    BY BothAreTags
  <2>14. << >> \o o = o /\ m \o << >> = m
    BY TagsTogether
  <2>15. Projected(SentTo(p), AtP1[b]) = o
    BY <1>c, <1>d, <2>1, <2>2, <2>7, <2>8, <2>13, <2>14
  <2>16. Projected(ReceivedFrom(p), AtP1[b]) = m
    BY <1>c, <1>e, <2>1, <2>2, <2>9, <2>10, <2>13, <2>14
  <2>. QED
    BY <2>13, <2>15, <2>16
<1>. QED
  BY <1>1 DEF AtOnce, OpenedTags, MaskedTags

\* A party sends its share of the masks of a batch to the owner, who gathers
\* the shares of everybody.
LEMMA MasksPass ==
  ASSUME NEW p \in Parties
  PROVE  /\ AtOnce(MaskTags(p), SentTo(p), ForOwner, InOut) /\ AtOnce(NoTagsFor(InOut), ReceivedFrom(p), ForOwner, InOut)
         /\ \A c \in Parties : /\ AtOnce(NoTagsFor(InOut), SentTo(p), AsOwner(c), InOut)
                               /\ AtOnce(MaskTags(c), ReceivedFrom(p), AsOwner(c), InOut)
<1>0. Maps(SentTo(p), Instruction, Tag) /\ Maps(ReceivedFrom(p), Instruction, Tag)
  BY Trading
<1>1. PICK I : I = Instruction
  OBVIOUS
<1>2. ASSUME NEW b \in InOut
      PROVE  /\ Projected(SentTo(p), << OfOwner("SendToOwner", b, Owner(b)) >>) = MaskTags(p)[b]
             /\ Projected(ReceivedFrom(p), << OfOwner("SendToOwner", b, Owner(b)) >>) = << >>
  <2>1. PICK i \in I : i = OfOwner("SendToOwner", b, Owner(b))
    BY <1>1, Shapes, OwnerByOwner
  <2>2. PICK r : r = << i >>
    OBVIOUS
  <2>3. r \in Seq(I) /\ Len(r) = 1 /\ r[1] = i
    BY <2>2
  <2>4. ReceivedFrom(p)[i] = << >> /\ SentTo(p)[i] = MaskTags(p)[b]
    <3>1. MaskTags(p)[b] = (IF Owner(b) = p THEN << << "mask", b >> >> ELSE << >>)
      BY DEF MaskTags
    <3>. QED
      BY <2>1, <3>1, OwnerByOwner
  <2>5. Projected(ReceivedFrom(p), r) = << >>
    <3>1. \A j \in 1 .. Len(r) : ReceivedFrom(p)[r[j]] = << >>
      BY <2>3, <2>4
    <3>. QED
      BY <1>0, <1>1, <2>3, <3>1, ProjectedNothing
  <2>6. PICK t \in Seq(Tag) : t = MaskTags(p)[b]
    BY BatchTypes DEF Maps
  <2>7. OnlyAt(SentTo(p), r, 1, t)
    BY <2>3, <2>4, <2>6 DEF OnlyAt
  <2>8. \A s \in Seq(Instruction), k \in Nat, u \in Seq(Tag) : OnlyAt(SentTo(p), s, k, u) => Projected(SentTo(p), s) = u
    BY <1>0, ProjectedFew
  <2>9. Projected(SentTo(p), r) = t
    BY <1>1, <2>3, <2>7, <2>8
  <2>. QED
    BY <2>1, <2>2, <2>5, <2>6, <2>9
<1>3. ASSUME NEW b \in InOut
      PROVE  /\ Projected(SentTo(p), Gathering(b)) = << >>
             /\ Projected(ReceivedFrom(p), Gathering(b)) = << << "mask", b >> >>
  <2>1. PICK n \in Nat : n = NParties
    BY Shapes
  <2>2. PICK r : r = Gathering(b)
    OBVIOUS
  <2>3. \A q \in 1 .. n : q - 1 \in Parties
    BY <2>1 DEF Parties
  <2>4. \A q \in 1 .. n : OfOwner("OwnerCollects", b, q - 1) \in I
    BY <1>1, <2>3, OwnerByOwner
  <2>5. r \in Seq(I) /\ Len(r) = n /\ \A q \in 1 .. n : r[q] = OfOwner("OwnerCollects", b, q - 1)
    BY <2>1, <2>2, <2>4 DEF Gathering
  <2>6. \A j \in 1 .. Len(r) : SentTo(p)[r[j]] = << >>
    <3>1. TAKE j \in 1 .. Len(r)
    <3>2. PICK c \in Parties : c = j - 1
      BY <2>3, <2>5
    <3>3. SentTo(p)[OfOwner("OwnerCollects", b, c)] = << >>
      BY OwnerByOwner
    <3>. QED
      BY <2>5, <3>2, <3>3
  <2>7. Projected(SentTo(p), r) = << >>
    BY <1>0, <1>1, <2>5, <2>6, ProjectedNothing
  <2>8. PICK k \in 1 .. n : k = p + 1
    BY <2>1 DEF Parties
  <2>9. k - 1 = p /\ \A j \in 1 .. n : j # k => j - 1 # p
    BY <2>8 DEF Parties
  <2>10. \A j \in 1 .. Len(r) : j # k => ReceivedFrom(p)[r[j]] = << >>
    <3>1. TAKE j \in 1 .. Len(r)
    <3>2. HAVE j # k
    <3>3. PICK c \in Parties : c = j - 1
      BY <2>3, <2>5
    <3>4. c # p
      BY <2>5, <2>9, <3>2, <3>3
    <3>5. ReceivedFrom(p)[OfOwner("OwnerCollects", b, c)] = << >>
      BY <3>4, OwnerByOwner
    <3>. QED
      BY <2>5, <3>3, <3>5
  <2>11. ReceivedFrom(p)[r[k]] = << << "mask", b >> >>
    <3>1. r[k] = OfOwner("OwnerCollects", b, p)
      BY <2>5, <2>9
    <3>. QED
      BY <3>1, OwnerByOwner
  <2>12. PICK t \in Seq(Tag) : t = << << "mask", b >> >>
    <3>1. << "mask", b >> \in Tag
      BY DEF Tag
    <3>. QED
      BY <3>1, TagAlone
  <2>13. OnlyAt(ReceivedFrom(p), r, k, t)
    BY <2>5, <2>10, <2>11, <2>12 DEF OnlyAt
  <2>14. \A s \in Seq(Instruction), m \in Nat, u \in Seq(Tag) :
           OnlyAt(ReceivedFrom(p), s, m, u) => Projected(ReceivedFrom(p), s) = u
    BY <1>0, ProjectedFew
  <2>15. k \in Nat
    OBVIOUS
  <2>16. Projected(ReceivedFrom(p), r) = t
    BY <1>1, <2>5, <2>13, <2>14, <2>15
  <2>. QED
    BY <2>2, <2>7, <2>12, <2>16
<1>4. Projected(SentTo(p), << >>) = << >> /\ Projected(ReceivedFrom(p), << >>) = << >>
  BY <1>0, NothingOfNothing
<1>5. AtOnce(MaskTags(p), SentTo(p), ForOwner, InOut) /\ AtOnce(NoTagsFor(InOut), ReceivedFrom(p), ForOwner, InOut)
  BY <1>2 DEF AtOnce, ForOwner, NoTagsFor
<1>6. ASSUME NEW c \in Parties
      PROVE  /\ AtOnce(NoTagsFor(InOut), SentTo(p), AsOwner(c), InOut)
             /\ AtOnce(MaskTags(c), ReceivedFrom(p), AsOwner(c), InOut)
  <2>1. \A b \in InOut : AsOwner(c)[b] = IF Owner(b) # c THEN << >> ELSE Gathering(b)
    BY DEF AsOwner
  <2>2. \A b \in InOut : MaskTags(c)[b] = IF Owner(b) = c THEN << << "mask", b >> >> ELSE << >>
    BY DEF MaskTags
  <2>3. \A b \in InOut : NoTagsFor(InOut)[b] = << >>
    BY DEF NoTagsFor
  <2>. QED
    BY <1>3, <1>4, <2>1, <2>2, <2>3 DEF AtOnce
<1>. QED
  BY <1>5, <1>6

-----------------------------------------------------------------------------
(* Programs.                                                                *)

\* The programs, batch by batch.
LEMMA Spelled ==
  /\ PartiesSendP1 = Projected(Masking, MultBatches)
  /\ P1ReceivesAndSends = Projected(AtP1, MultBatches)
  /\ PartiesSendOwner = Projected(ForOwner, IOBatches)
  /\ PartiesReceive = Projected(Opening, MultBatches)
  /\ \A p \in Parties : OwnerReceives(p) = Projected(AsOwner(p), IOBatches)
<1>1. PICK n \in Nat : n = Len(MultBatches) /\ DOMAIN MultBatches = 1 .. n
  BY Shapes
<1>2. PICK m \in Nat : m = Len(IOBatches) /\ DOMAIN IOBatches = 1 .. m
  BY Shapes
<1>3. (\A i \in 1 .. n : MultBatches[i] \in Mult) /\ \A i \in 1 .. m : IOBatches[i] \in InOut
  BY <1>1, <1>2, Shapes
<1>4. PartiesSendP1 = Projected(Masking, MultBatches)
  <2>1. \A i \in 1 .. n : Masking[MultBatches[i]] = BothSides("SendMasked", MultBatches[i], 0)
    BY <1>3 DEF Masking
  <2>2. Pieces(Masking, MultBatches) = [i \in 1 .. n |-> BothSides("SendMasked", MultBatches[i], 0)]
    BY <1>1, <2>1 DEF Pieces
  <2>. QED
    BY <1>1, <2>2 DEF PartiesSendP1, Projected
<1>5. P1ReceivesAndSends = Projected(AtP1, MultBatches)
  <2>1. \A i \in 1 .. n : AtP1[MultBatches[i]] =
          FlattenSeq(Rows("P1Collects", MultBatches[i])) \o FlattenSeq(Rows("P1Reshares", MultBatches[i]))
    BY <1>3 DEF AtP1
  <2>2. Pieces(AtP1, MultBatches) =
          [i \in 1 .. n |-> FlattenSeq(Rows("P1Collects", MultBatches[i])) \o FlattenSeq(Rows("P1Reshares", MultBatches[i]))]
    BY <1>1, <2>1 DEF Pieces
  <2>. QED
    BY <1>1, <2>2 DEF P1ReceivesAndSends, Projected, Rows
<1>6. PartiesReceive = Projected(Opening, MultBatches)
  <2>1. \A i \in 1 .. n : Opening[MultBatches[i]] = BothSides("ReceiveOpened", MultBatches[i], 0)
    BY <1>3 DEF Opening
  <2>2. Pieces(Opening, MultBatches) = [i \in 1 .. n |-> BothSides("ReceiveOpened", MultBatches[i], 0)]
    BY <1>1, <2>1 DEF Pieces
  <2>. QED
    BY <1>1, <2>2 DEF PartiesReceive, Projected
<1>7. PartiesSendOwner = Projected(ForOwner, IOBatches)
  <2>1. PICK I, s : I = Instruction /\ s = PartiesSendOwner
    OBVIOUS
  <2>2. s = [i \in 1 .. m |-> OfOwner("SendToOwner", IOBatches[i], Owner(IOBatches[i]))]
    BY <1>2, <2>1 DEF PartiesSendOwner, OfOwner
  <2>3. \A i \in 1 .. m : OfOwner("SendToOwner", IOBatches[i], Owner(IOBatches[i])) \in I
    BY <1>3, <2>1, Shapes, OwnerByOwner
  <2>4. s \in Seq(I) /\ Len(s) = m
    BY <2>2, <2>3
  <2>5. \A i \in 1 .. m : ForOwner[IOBatches[i]] = << s[i] >>
    BY <1>3, <2>2 DEF ForOwner
  <2>6. Spells(ForOwner, IOBatches, s)
    BY <1>2, <2>4, <2>5 DEF Spells
  <2>7. Maps(ForOwner, InOut, Instruction)
    BY Shapes, BatchTypes
  <2>8. \A b \in Seq(InOut), t \in Seq(Instruction) : Spells(ForOwner, b, t) => Projected(ForOwner, b) = t
    BY <2>7, ProjectedEach
  <2>. QED
    BY <2>1, <2>4, <2>6, <2>8, Shapes
<1>8. ASSUME NEW p \in Parties PROVE OwnerReceives(p) = Projected(AsOwner(p), IOBatches)
  <2>1. \A i \in 1 .. m : AsOwner(p)[IOBatches[i]] = IF Owner(IOBatches[i]) # p THEN << >> ELSE Gathering(IOBatches[i])
    BY <1>3 DEF AsOwner
  <2>2. Pieces(AsOwner(p), IOBatches) =
          [i \in 1 .. m |-> IF Owner(IOBatches[i]) # p THEN << >> ELSE Gathering(IOBatches[i])]
    BY <1>2, <2>1 DEF Pieces
  <2>. QED
    BY <1>2, <2>2 DEF OwnerReceives, Projected, Gathering, OfOwner
<1>. QED
  BY <1>4, <1>5, <1>6, <1>7, <1>8

\* A program of five parts, and what it sends or receives.
InParts(s, a, b, c, d, e) ==
  /\ a \in Seq(Instruction) /\ b \in Seq(Instruction) /\ c \in Seq(Instruction)
  /\ d \in Seq(Instruction) /\ e \in Seq(Instruction)
  /\ s = a \o b \o c \o d \o e

EndToEnd(f, a, b, c, d, e) ==
  Projected(f, a) \o Projected(f, b) \o Projected(f, c) \o Projected(f, d) \o Projected(f, e)

LEMMA FiveParts ==
  ASSUME NEW f, Maps(f, Instruction, Tag)
  PROVE  \A s, a, b, c, d, e : InParts(s, a, b, c, d, e) =>
           s \in Seq(Instruction) /\ Projected(f, s) = EndToEnd(f, a, b, c, d, e)
<1>1. \A x, y \in Seq(Instruction) : Projected(f, x \o y) = Projected(f, x) \o Projected(f, y)
  BY ProjectedConcat
<1> SUFFICES ASSUME NEW s, NEW a, NEW b, NEW c, NEW d, NEW e, InParts(s, a, b, c, d, e)
             PROVE  s \in Seq(Instruction) /\ Projected(f, s) = EndToEnd(f, a, b, c, d, e)
  OBVIOUS
<1>0. /\ a \in Seq(Instruction) /\ b \in Seq(Instruction) /\ c \in Seq(Instruction)
      /\ d \in Seq(Instruction) /\ e \in Seq(Instruction)
      /\ s = a \o b \o c \o d \o e
  BY DEF InParts
<1>2. \A x, y \in Seq(Instruction) : x \o y \in Seq(Instruction)
  BY ConcatProperties
<1>3. PICK g \in Seq(Instruction) : g = a \o b
  BY <1>0, <1>2
<1>4. PICK h \in Seq(Instruction) : h = g \o c
  BY <1>0, <1>2
<1>5. PICK k \in Seq(Instruction) : k = h \o d
  BY <1>0, <1>2
<1>6. /\ Projected(f, k \o e) = Projected(f, k) \o Projected(f, e)
      /\ Projected(f, k) = Projected(f, h) \o Projected(f, d)
      /\ Projected(f, h) = Projected(f, g) \o Projected(f, c)
      /\ Projected(f, g) = Projected(f, a) \o Projected(f, b)
  BY <1>0, <1>1, <1>3, <1>4, <1>5
<1>7. k \o e \in Seq(Instruction)
  BY <1>0, <1>2
<1>. QED
  BY <1>0, <1>3, <1>4, <1>5, <1>6, <1>7 DEF EndToEnd

\* P1's part of a program.
P1Part(p) == IF p = 0 THEN P1ReceivesAndSends ELSE << >>

\* What passes from q to p.
MaskedTraffic(p) == Projected(MaskedTags(p), MultBatches)
OpenedTraffic(q) == Projected(OpenedTags(q), MultBatches)
MaskTraffic(p)   == Projected(MaskTags(p), IOBatches)

\* It is made of tags, and to others than P1, and from others, there is none.
LEMMA TrafficTypes ==
  ASSUME NEW p \in Parties
  PROVE  /\ MaskedTraffic(p) \in Seq(Tag) /\ OpenedTraffic(p) \in Seq(Tag) /\ MaskTraffic(p) \in Seq(Tag)
         /\ p # 0 => MaskedTraffic(p) = << >> /\ OpenedTraffic(p) = << >>
         /\ Projected(NoTagsFor(Mult), MultBatches) = << >> /\ Projected(NoTagsFor(InOut), IOBatches) = << >>
<1>1. PICK s \in Seq(Mult), t \in Seq(InOut) : s = MultBatches /\ t = IOBatches
  BY Shapes
<1>2. PICK f, g, h, j, k : /\ f = MaskedTags(p) /\ g = OpenedTags(p) /\ h = MaskTags(p)
                           /\ j = NoTagsFor(Mult) /\ k = NoTagsFor(InOut)
  OBVIOUS
<1>3. Maps(f, Mult, Tag)
  BY <1>2, BatchTypes
<1>4. Maps(g, Mult, Tag)
  BY <1>2, BatchTypes
<1>5. Maps(h, InOut, Tag)
  BY <1>2, BatchTypes
<1>6. Maps(j, Mult, Tag)
  BY <1>2, BatchTypes
<1>7. Maps(k, InOut, Tag)
  BY <1>2, BatchTypes
<1>8. Projected(f, s) \in Seq(Tag) /\ Projected(g, s) \in Seq(Tag) /\ Projected(h, t) \in Seq(Tag)
  BY <1>3, <1>4, <1>5, ProjectedType
<1>9. ASSUME p # 0 PROVE Projected(f, s) = << >> /\ Projected(g, s) = << >>
  <2>1. \A i \in 1 .. Len(s) : f[s[i]] = << >> /\ g[s[i]] = << >>
    BY <1>2, <1>9 DEF MaskedTags, OpenedTags
  <2>2. Projected(f, s) = << >>
    BY <1>3, <2>1, ProjectedNothing
  <2>3. Projected(g, s) = << >>
    BY <1>4, <2>1, ProjectedNothing
  <2>. QED
    BY <2>2, <2>3
<1>10. Projected(j, s) = << >>
  <2>1. \A i \in 1 .. Len(s) : j[s[i]] = << >>
    BY <1>2 DEF NoTagsFor
  <2>. QED
    BY <1>6, <2>1, ProjectedNothing
<1>11. Projected(k, t) = << >>
  <2>1. \A i \in 1 .. Len(t) : k[t[i]] = << >>
    BY <1>2 DEF NoTagsFor
  <2>. QED
    BY <1>7, <2>1, ProjectedNothing
<1>. QED
  BY <1>1, <1>2, <1>8, <1>9, <1>10, <1>11 DEF MaskedTraffic, OpenedTraffic, MaskTraffic

\* What the parts of a program send p.
LEMMA PartsSend ==
  ASSUME NEW p \in Parties, NEW q \in Parties
  PROVE  /\ Projected(SentTo(p), PartiesSendP1) = MaskedTraffic(p)
         /\ Projected(SentTo(p), P1Part(q)) = OpenedTraffic(q)
         /\ Projected(SentTo(p), PartiesSendOwner) = MaskTraffic(p)
         /\ Projected(SentTo(p), PartiesReceive) = << >>
         /\ Projected(SentTo(p), OwnerReceives(q)) = << >>
<1>1. PICK s \in Seq(Mult), t \in Seq(InOut) : s = MultBatches /\ t = IOBatches
  BY Shapes
<1>2. PICK f : f = SentTo(p) /\ Maps(f, Instruction, Tag)
  BY Trading
<1>3. Projected(f, Projected(Masking, s)) = Projected(MaskedTags(p), s)
  <2>1. AtOnce(MaskedTags(p), f, Masking, Mult)
    BY <1>2, MaskingPasses
  <2>. QED
    BY <1>2, <2>1, BatchTypes, ProjectedTwice
<1>4. Projected(f, Projected(AtP1, s)) = Projected(OpenedTags(0), s)
  <2>1. AtOnce(OpenedTags(0), f, AtP1, Mult)
    BY <1>2, AtP1Passes
  <2>. QED
    BY <1>2, <2>1, Shapes, BatchTypes, ProjectedTwice
<1>5. Projected(f, Projected(ForOwner, t)) = Projected(MaskTags(p), t)
  <2>1. AtOnce(MaskTags(p), f, ForOwner, InOut)
    BY <1>2, MasksPass
  <2>. QED
    BY <1>2, <2>1, BatchTypes, ProjectedTwice
<1>6. Projected(f, Projected(Opening, s)) = Projected(NoTagsFor(Mult), s)
  <2>1. AtOnce(NoTagsFor(Mult), f, Opening, Mult)
    BY <1>2, OpeningPasses
  <2>. QED
    BY <1>2, <2>1, BatchTypes, ProjectedTwice
<1>7. Projected(f, Projected(AsOwner(q), t)) = Projected(NoTagsFor(InOut), t)
  <2>1. AtOnce(NoTagsFor(InOut), f, AsOwner(q), InOut)
    BY <1>2, MasksPass
  <2>. QED
    BY <1>2, <2>1, BatchTypes, ProjectedTwice
<1>8. Projected(f, P1Part(q)) = OpenedTraffic(q)
  <2>1. CASE q = 0
    BY <1>1, <1>4, <2>1, Spelled DEF P1Part, OpenedTraffic
  <2>2. CASE q # 0
    BY <1>2, <2>2, NothingOfNothing, TrafficTypes DEF P1Part
  <2>. QED
    BY <2>1, <2>2
<1>. QED
  BY <1>1, <1>2, <1>3, <1>5, <1>6, <1>7, <1>8, Spelled, TrafficTypes DEF MaskedTraffic, MaskTraffic

\* What the parts of p's program receive from q.
LEMMA PartsReceive ==
  ASSUME NEW p \in Parties, NEW q \in Parties
  PROVE  /\ Projected(ReceivedFrom(q), PartiesSendP1) = << >>
         /\ Projected(ReceivedFrom(q), P1Part(p)) = MaskedTraffic(p)
         /\ Projected(ReceivedFrom(q), PartiesSendOwner) = << >>
         /\ Projected(ReceivedFrom(q), PartiesReceive) = OpenedTraffic(q)
         /\ Projected(ReceivedFrom(q), OwnerReceives(p)) = MaskTraffic(p)
<1>1. PICK s \in Seq(Mult), t \in Seq(InOut) : s = MultBatches /\ t = IOBatches
  BY Shapes
<1>2. PICK f : f = ReceivedFrom(q) /\ Maps(f, Instruction, Tag)
  BY Trading
<1>3. Projected(f, Projected(Masking, s)) = Projected(NoTagsFor(Mult), s)
  <2>1. AtOnce(NoTagsFor(Mult), f, Masking, Mult)
    BY <1>2, MaskingPasses
  <2>. QED
    BY <1>2, <2>1, BatchTypes, ProjectedTwice
<1>4. Projected(f, Projected(AtP1, s)) = Projected(MaskedTags(0), s)
  <2>1. AtOnce(MaskedTags(0), f, AtP1, Mult)
    BY <1>2, AtP1Passes
  <2>. QED
    BY <1>2, <2>1, Shapes, BatchTypes, ProjectedTwice
<1>5. Projected(f, Projected(ForOwner, t)) = Projected(NoTagsFor(InOut), t)
  <2>1. AtOnce(NoTagsFor(InOut), f, ForOwner, InOut)
    BY <1>2, MasksPass
  <2>. QED
    BY <1>2, <2>1, BatchTypes, ProjectedTwice
<1>6. Projected(f, Projected(Opening, s)) = Projected(OpenedTags(q), s)
  <2>1. AtOnce(OpenedTags(q), f, Opening, Mult)
    BY <1>2, OpeningPasses
  <2>. QED
    BY <1>2, <2>1, BatchTypes, ProjectedTwice
<1>7. Projected(f, Projected(AsOwner(p), t)) = Projected(MaskTags(p), t)
  <2>1. AtOnce(MaskTags(p), f, AsOwner(p), InOut)
    BY <1>2, MasksPass
  <2>. QED
    BY <1>2, <2>1, BatchTypes, ProjectedTwice
<1>8. Projected(f, P1Part(p)) = MaskedTraffic(p)
  <2>1. CASE p = 0
    BY <1>1, <1>4, <2>1, Spelled DEF P1Part, MaskedTraffic
  <2>2. CASE p # 0
    BY <1>2, <2>2, NothingOfNothing, TrafficTypes DEF P1Part
  <2>. QED
    BY <2>1, <2>2
<1>. QED
  BY <1>1, <1>2, <1>3, <1>5, <1>6, <1>7, <1>8, Spelled, TrafficTypes DEF OpenedTraffic, MaskTraffic

\* The parts are sequences of instructions.
LEMMA PartTypes ==
  ASSUME NEW p \in Parties
  PROVE  /\ PartiesSendP1 \in Seq(Instruction) /\ P1Part(p) \in Seq(Instruction)
         /\ PartiesSendOwner \in Seq(Instruction) /\ PartiesReceive \in Seq(Instruction)
         /\ OwnerReceives(p) \in Seq(Instruction)
<1>1. PICK s \in Seq(Mult), t \in Seq(InOut) : s = MultBatches /\ t = IOBatches
  BY Shapes
<1>2. Projected(Masking, s) \in Seq(Instruction)
  BY BatchTypes, ProjectedType
<1>3. Projected(AtP1, s) \in Seq(Instruction)
  BY BatchTypes, ProjectedType
<1>4. Projected(ForOwner, t) \in Seq(Instruction)
  BY BatchTypes, ProjectedType
<1>5. Projected(Opening, s) \in Seq(Instruction)
  BY BatchTypes, ProjectedType
<1>6. Projected(AsOwner(p), t) \in Seq(Instruction)
  BY BatchTypes, ProjectedType
<1>7. << >> \in Seq(Instruction)
  OBVIOUS
<1>. QED
  BY <1>1, <1>2, <1>3, <1>4, <1>5, <1>6, <1>7, Spelled DEF P1Part

\* What q's program sends p is what p's program receives from q.
LEMMA ProgramsMatch ==
  ASSUME NEW p \in Parties, NEW q \in Parties
  PROVE  /\ Program[q] \in Seq(Instruction) /\ Program[p] \in Seq(Instruction)
         /\ Projected(SentTo(p), Program[q]) = Projected(ReceivedFrom(q), Program[p])
<1>1. PICK f : f = SentTo(p) /\ Maps(f, Instruction, Tag)
  BY Trading
<1>2. PICK g : g = ReceivedFrom(q) /\ Maps(g, Instruction, Tag)
  BY Trading
<1>3. PICK a, b, c, d, e \in Seq(Instruction) :
        a = PartiesSendP1 /\ b = P1Part(q) /\ c = PartiesSendOwner /\ d = PartiesReceive /\ e = OwnerReceives(q)
  BY PartTypes
<1>4. PICK bp, ep \in Seq(Instruction) : bp = P1Part(p) /\ ep = OwnerReceives(p)
  BY PartTypes
<1>5. Program[q] = a \o b \o c \o d \o e /\ Program[p] = a \o bp \o c \o d \o ep
  BY <1>3, <1>4 DEF Program, P1Part
<1>6. PICK m, o, w \in Seq(Tag) : m = MaskedTraffic(p) /\ o = OpenedTraffic(q) /\ w = MaskTraffic(p)
  BY TrafficTypes
<1>7. /\ Projected(f, a) = m /\ Projected(f, b) = o /\ Projected(f, c) = w
      /\ Projected(f, d) = << >> /\ Projected(f, e) = << >>
  BY <1>1, <1>3, <1>6, PartsSend
<1>8. /\ Projected(g, a) = << >> /\ Projected(g, bp) = m /\ Projected(g, c) = << >>
      /\ Projected(g, d) = o /\ Projected(g, ep) = w
  BY <1>2, <1>3, <1>4, <1>6, PartsReceive
<1>9. PICK mo, mow \in Seq(Tag) : mo = m \o o /\ mow = mo \o w
  BY TagsTogether
<1>10. mow \o << >> = mow /\ << >> \o m = m /\ m \o << >> = m
  BY TagsTogether
<1>11. Program[q] \in Seq(Instruction) /\ Projected(f, Program[q]) = m \o o \o w \o << >> \o << >>
  <2>1. Maps(f, Instruction, Tag)
    BY <1>1
  <2>2. \A x, r, s, t, u, v : InParts(x, r, s, t, u, v) =>
          x \in Seq(Instruction) /\ Projected(f, x) = EndToEnd(f, r, s, t, u, v)
    BY <2>1, FiveParts
  <2>3. InParts(Program[q], a, b, c, d, e)
    BY <1>5 DEF InParts
  <2>4. Program[q] \in Seq(Instruction) /\ Projected(f, Program[q]) = EndToEnd(f, a, b, c, d, e)
    BY <2>2, <2>3
  <2>. QED
    BY <1>7, <2>4 DEF EndToEnd
<1>12. Program[p] \in Seq(Instruction) /\ Projected(g, Program[p]) = << >> \o m \o << >> \o o \o w
  <2>1. Maps(g, Instruction, Tag)
    BY <1>2
  <2>2. \A x, r, s, t, u, v : InParts(x, r, s, t, u, v) =>
          x \in Seq(Instruction) /\ Projected(g, x) = EndToEnd(g, r, s, t, u, v)
    BY <2>1, FiveParts
  <2>3. InParts(Program[p], a, bp, c, d, ep)
    BY <1>5 DEF InParts
  <2>4. Program[p] \in Seq(Instruction) /\ Projected(g, Program[p]) = EndToEnd(g, a, bp, c, d, ep)
    BY <2>2, <2>3
  <2>. QED
    BY <1>8, <2>4 DEF EndToEnd
<1>13. Projected(f, Program[q]) = mow
  BY <1>9, <1>10, <1>11
<1>14. Projected(g, Program[p]) = mow
  BY <1>9, <1>10, <1>12
<1>. QED
  BY <1>1, <1>2, <1>11, <1>12, <1>13, <1>14

-----------------------------------------------------------------------------
(* The invariant: whatever the parties have done, what is on its way from    *)
(* one to another and what it is still to send there are what the other is   *)
(* still to receive from it.                                                 *)

Sends    == [p \in Parties |-> SentTo(p)]
Receives == [q \in Parties |-> ReceivedFrom(q)]

Ordered == Agreeing(Parties, Instruction, Tag, Sends, Receives, Program, pc, chan)

\* At the beginning nothing is on its way, and the programs match.
LEMMA InitOrdered == Init => Ordered
<1> SUFFICES ASSUME Init PROVE Ordered
  OBVIOUS
<1>1. pc = [p \in Parties |-> 1] /\ chan = [p \in Parties |-> [q \in Parties |-> << >>]]
  BY DEF Init, NoMessages
<1>2. Traders(Parties, Instruction, Tag, Sends, Receives, Program)
  <2>1. ASSUME NEW p \in Parties
        PROVE  /\ Program[p] \in Seq(Instruction)
               /\ Maps(SentTo(p), Instruction, Tag) /\ Maps(ReceivedFrom(p), Instruction, Tag)
    BY ProgramsMatch, Trading
  <2>2. \A p \in Parties : Sends[p] = SentTo(p) /\ Receives[p] = ReceivedFrom(p)
    BY DEF Sends, Receives
  <2>. QED
    BY <2>1, <2>2 DEF Traders
<1>3. \A p, q \in Parties : Projected(Sends[p], Program[q]) = Projected(Receives[q], Program[p])
  <2>1. TAKE p, q \in Parties
  <2>2. Sends[p] = SentTo(p) /\ Receives[q] = ReceivedFrom(q)
    BY DEF Sends, Receives
  <2>3. Projected(SentTo(p), Program[q]) = Projected(ReceivedFrom(q), Program[p])
    BY ProgramsMatch
  <2>. QED
    BY <2>2, <2>3
<1>4. Agreeing(Parties, Instruction, Tag, Sends, Receives, Program,
               [p \in Parties |-> 1], [p \in Parties |-> [q \in Parties |-> << >>]])
  BY <1>2, <1>3, AgreeingAtFirst
<1>. QED
  BY <1>1, <1>4 DEF Ordered

\* What a message is for that an instruction sends, or receives.
Receiving == {"P1Collects", "ReceiveOpened", "OwnerCollects"}
TagOf(i) ==
  IF i.op \in {"SendMasked", "P1Collects"} THEN << "masked", i.batch, i.side >>
  ELSE IF i.op \in {"P1Reshares", "ReceiveOpened"} THEN << "opened", i.batch, i.side >>
  ELSE << "mask", i.batch >>

\* What the next instruction of a party is, and what it sends or receives.
LEMMA Told ==
  ASSUME Ordered, NEW p \in Parties, ~Finished(p)
  PROVE  /\ Instr(p) \in Instruction /\ Instr(p).peer \in Parties /\ TagOf(Instr(p)) \in Tag
         /\ Instr(p).op \notin Receiving =>
              SendsOnly(Parties, Sends, Receives, Instr(p), Instr(p).peer, TagOf(Instr(p)))
         /\ Instr(p).op \in Receiving =>
              ReceivesOnly(Parties, Sends, Receives, Instr(p), Instr(p).peer, TagOf(Instr(p)))
<1>1. Instr(p) \in Instruction
  <2>1. Program[p][pc[p]] \in Instruction
    BY NextIsOne DEF Ordered, Finished
  <2>. QED
    BY <2>1 DEF Instr
<1>2. PICK i \in Instruction : i = Instr(p)
  BY <1>1
<1>3. i.op \in {"SendMasked", "P1Reshares", "SendToOwner"} \cup Receiving
  BY DEF Instruction, Receiving
<1>4. i.peer \in Parties
  BY <1>3, Kinds, Shapes DEF Receiving
<1>5. TagOf(i) \in Tag
  BY <1>3, Kinds DEF Tag, TagOf, Receiving
<1>6. CASE i.op = "SendMasked"
  <2>1. i.peer = 0
    BY <1>6, Kinds
  <2>2. SendsOnly(Parties, Sends, Receives, i, i.peer, TagOf(i))
    BY <1>4, <1>6, <2>1 DEF SendsOnly, Sends, Receives, SentTo, ReceivedFrom, TagOf
  <2>. QED
    BY <1>2, <1>4, <1>5, <1>6, <2>2 DEF Receiving
<1>7. CASE i.op = "P1Reshares"
  <2>1. SendsOnly(Parties, Sends, Receives, i, i.peer, TagOf(i))
    BY <1>4, <1>7 DEF SendsOnly, Sends, Receives, SentTo, ReceivedFrom, TagOf
  <2>. QED
    BY <1>2, <1>4, <1>5, <1>7, <2>1 DEF Receiving
<1>8. CASE i.op = "SendToOwner"
  <2>1. SendsOnly(Parties, Sends, Receives, i, i.peer, TagOf(i))
    BY <1>4, <1>8 DEF SendsOnly, Sends, Receives, SentTo, ReceivedFrom, TagOf
  <2>. QED
    BY <1>2, <1>4, <1>5, <1>8, <2>1 DEF Receiving
<1>9. CASE i.op = "P1Collects"
  <2>1. ReceivesOnly(Parties, Sends, Receives, i, i.peer, TagOf(i))
    BY <1>4, <1>9 DEF ReceivesOnly, Sends, Receives, SentTo, ReceivedFrom, TagOf
  <2>. QED
    BY <1>2, <1>4, <1>5, <1>9, <2>1 DEF Receiving
<1>10. CASE i.op = "ReceiveOpened"
  <2>1. i.peer = 0
    BY <1>10, Kinds
  <2>2. ReceivesOnly(Parties, Sends, Receives, i, i.peer, TagOf(i))
    BY <1>4, <1>10, <2>1 DEF ReceivesOnly, Sends, Receives, SentTo, ReceivedFrom, TagOf
  <2>. QED
    BY <1>2, <1>4, <1>5, <1>10, <2>2 DEF Receiving
<1>11. CASE i.op = "OwnerCollects"
  <2>1. ReceivesOnly(Parties, Sends, Receives, i, i.peer, TagOf(i))
    BY <1>4, <1>11 DEF ReceivesOnly, Sends, Receives, SentTo, ReceivedFrom, TagOf
  <2>. QED
    BY <1>2, <1>4, <1>5, <1>11, <2>1 DEF Receiving
<1>. QED
  BY <1>3, <1>6, <1>7, <1>8, <1>9, <1>10, <1>11 DEF Receiving

\* A party sends what its instruction tells it to, to whom it tells it to.
LEMMA SendKeepsOrder ==
  ASSUME Ordered, NEW p \in Parties, ~Finished(p), Advance(p), Instr(p).op \notin Receiving, NEW v,
         Send(p, Instr(p).peer, v, TagOf(Instr(p)))
  PROVE  Ordered'
<1>1. PICK i, r, t : i = Instr(p) /\ r = i.peer /\ t = TagOf(i)
  OBVIOUS
<1>2. r \in Parties /\ t \in Tag /\ SendsOnly(Parties, Sends, Receives, i, r, t)
  BY <1>1, Told
<1>3. PICK m : m = [val |-> v, tag |-> t]
  OBVIOUS
<1>4. m.tag \in Tag /\ SendsOnly(Parties, Sends, Receives, i, r, m.tag)
  BY <1>2, <1>3
<1>5. i = Program[p][pc[p]] /\ ~(pc[p] > Len(Program[p]))
  BY <1>1 DEF Instr, Finished
<1>6. PICK pos, ch : pos = pc' /\ ch = chan'
  OBVIOUS
<1>7. pos = [pc EXCEPT ![p] = @ + 1] /\ ch = [chan EXCEPT ![p][r] = Append(@, m)]
  BY <1>1, <1>3, <1>6 DEF Advance, Send
<1>8. Agreeing(Parties, Instruction, Tag, Sends, Receives, Program, pos, ch)
  BY <1>2, <1>4, <1>5, <1>7, SendingAgrees DEF Ordered
<1>. QED
  BY <1>6, <1>8 DEF Ordered

\* A party takes the first message of whom its instruction tells it to.
LEMMA ReceiveKeepsOrder ==
  ASSUME Ordered, NEW p \in Parties, ~Finished(p), Advance(p), Instr(p).op \in Receiving,
         Receive(Instr(p).peer, p)
  PROVE  Ordered'
<1>1. PICK i, r, t : i = Instr(p) /\ r = i.peer /\ t = TagOf(i)
  OBVIOUS
<1>2. r \in Parties /\ t \in Tag /\ ReceivesOnly(Parties, Sends, Receives, i, r, t)
  BY <1>1, Told
<1>3. i = Program[p][pc[p]] /\ ~(pc[p] > Len(Program[p]))
  BY <1>1 DEF Instr, Finished
<1>4. PICK pos, ch : pos = pc' /\ ch = chan'
  OBVIOUS
<1>5. pos = [pc EXCEPT ![p] = @ + 1] /\ ch = [chan EXCEPT ![r][p] = Tail(@)] /\ chan[r][p] # << >>
  BY <1>1, <1>4 DEF Advance, Receive, Arrived
<1>6. Agreeing(Parties, Instruction, Tag, Sends, Receives, Program, pos, ch)
  BY <1>2, <1>3, <1>5, ReceivingAgrees DEF Ordered
<1>. QED
  BY <1>4, <1>6 DEF Ordered

\* No step disturbs the order.
LEMMA NextOrdered ==
  ASSUME Ordered, [Next]_vars
  PROVE  Ordered'
<1>1. ASSUME NEW p \in Parties, SendMasked(p) PROVE Ordered'
  <2>1. ~Finished(p) /\ Instr(p).op = "SendMasked" /\ Advance(p)
    BY <1>1 DEF SendMasked, At
  <2>2. PICK v : Send(p, 0, v, << "masked", Instr(p).batch, Instr(p).side >>)
    BY <1>1 DEF SendMasked
  <2>3. Instr(p).peer = 0
    BY <2>1, Told, Kinds
  <2>4. Send(p, Instr(p).peer, v, TagOf(Instr(p)))
    BY <2>1, <2>2, <2>3 DEF TagOf
  <2>. QED
    BY <2>1, <2>4, SendKeepsOrder DEF Receiving
<1>2. ASSUME NEW p \in Parties, P1Collects(p) PROVE Ordered'
  <2>1. ~Finished(p) /\ Instr(p).op = "P1Collects" /\ Advance(p) /\ Receive(Instr(p).peer, p)
    BY <1>2 DEF P1Collects, At
  <2>. QED
    BY <2>1, ReceiveKeepsOrder DEF Receiving
<1>3. ASSUME NEW p \in Parties, P1Reshares(p) PROVE Ordered'
  <2>1. ~Finished(p) /\ Instr(p).op = "P1Reshares" /\ Advance(p)
    BY <1>3 DEF P1Reshares, At
  <2>2. PICK v : Send(p, Instr(p).peer, v, << "opened", Instr(p).batch, Instr(p).side >>)
    BY <1>3 DEF P1Reshares
  <2>3. Send(p, Instr(p).peer, v, TagOf(Instr(p)))
    BY <2>1, <2>2 DEF TagOf
  <2>. QED
    BY <2>1, <2>3, SendKeepsOrder DEF Receiving
<1>4. ASSUME NEW p \in Parties, ReceiveOpened(p) PROVE Ordered'
  <2>1. ~Finished(p) /\ Instr(p).op = "ReceiveOpened" /\ Advance(p) /\ Receive(0, p)
    BY <1>4 DEF ReceiveOpened, At
  <2>2. Instr(p).peer = 0
    BY <2>1, Told, Kinds
  <2>3. Receive(Instr(p).peer, p)
    BY <2>1, <2>2
  <2>. QED
    BY <2>1, <2>3, ReceiveKeepsOrder DEF Receiving
<1>5. ASSUME NEW p \in Parties, SendToOwner(p) PROVE Ordered'
  <2>1. ~Finished(p) /\ Instr(p).op = "SendToOwner" /\ Advance(p)
    BY <1>5 DEF SendToOwner, At
  <2>2. PICK v : Send(p, Owner(Instr(p).batch), v, << "mask", Instr(p).batch >>)
    BY <1>5 DEF SendToOwner
  <2>3. Instr(p).peer = Owner(Instr(p).batch)
    BY <2>1, Told, Kinds
  <2>4. Send(p, Instr(p).peer, v, TagOf(Instr(p)))
    BY <2>1, <2>2, <2>3 DEF TagOf
  <2>. QED
    BY <2>1, <2>4, SendKeepsOrder DEF Receiving
<1>6. ASSUME NEW p \in Parties, OwnerCollects(p) PROVE Ordered'
  <2>1. ~Finished(p) /\ Instr(p).op = "OwnerCollects" /\ Advance(p) /\ Receive(Instr(p).peer, p)
    BY <1>6 DEF OwnerCollects, At
  <2>. QED
    BY <2>1, ReceiveKeepsOrder DEF Receiving
<1>7. CASE UNCHANGED vars
  BY <1>7 DEF vars, Ordered
<1>. QED
  BY <1>1, <1>2, <1>3, <1>4, <1>5, <1>6, <1>7 DEF Next, SomeStep, Step

\* The first message on its way is for what its receiver expects next, and
\* nothing is on its way to parties that expect nothing any more.
LEMMA OrderedReceives == Ordered => ReceivesItsOwn
<1> SUFFICES ASSUME Ordered PROVE ReceivesItsOwn
  OBVIOUS
<1>1. ASSUME AllFinished PROVE chan = NoMessages
  <2>1. \A p \in Parties : pc[p] > Len(Program[p])
    BY <1>1 DEF AllFinished, Finished
  <2>2. chan = [p \in Parties |-> [q \in Parties |-> << >>]]
    BY <2>1, AllAtTheEnd DEF Ordered
  <2>. QED
    BY <2>2 DEF NoMessages
<1>2. ASSUME NEW p \in Parties, ~Finished(p), Instr(p).op \in Receiving, Arrived(Instr(p).peer, p)
      PROVE  Head(chan[Instr(p).peer][p]).tag = Expected(Instr(p))
  <2>1. PICK i, r, t : i = Instr(p) /\ r = i.peer /\ t = TagOf(i)
    OBVIOUS
  <2>2. r \in Parties /\ t \in Tag /\ ReceivesOnly(Parties, Sends, Receives, i, r, t)
    BY <1>2, <2>1, Told
  <2>3. i = Program[p][pc[p]] /\ ~(pc[p] > Len(Program[p])) /\ chan[r][p] # << >>
    BY <1>2, <2>1 DEF Instr, Finished, Arrived
  <2>4. Head(chan[r][p]).tag = t
    BY <2>2, <2>3, FirstIsExpected DEF Ordered
  <2>5. Expected(i) = TagOf(i)
    BY <1>2, <2>1 DEF Expected, TagOf, Receiving
  <2>. QED
    BY <2>1, <2>4, <2>5
<1>. QED
  BY <1>1, <1>2 DEF ReceivesItsOwn, Receiving

\* Every receive of the function-dependent preprocessing takes the message
\* that was sent for it, in every circuit, between any number of parties,
\* whatever the connections hold and whoever runs ahead, and none is left for
\* the online phase: the loops over batches of correlator.cc and offline.cc go
\* through layers, clients, batches and sides in the same order at both ends.
THEOREM PreparationsFindTheirReceives == Spec => []ReceivesItsOwn
<1>1. Init => Ordered
  BY InitOrdered
<1>2. Ordered /\ [Next]_vars => Ordered'
  BY NextOrdered
<1>3. Ordered => ReceivesItsOwn
  BY OrderedReceives
<1>. QED
  BY <1>1, <1>2, <1>3, PTL DEF Spec
=============================================================================
