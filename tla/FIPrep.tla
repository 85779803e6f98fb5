------------------------------- MODULE FIPrep -------------------------------
(***************************************************************************)
(* Function-independent preprocessing (src/src/tp/fi_prep.cc): the parties *)
(* make shared random values, triples and shares of zero for a circuit of  *)
(* which they only know the numbers of gates and batches.  Everybody sends *)
(* a sharing of its own per block; a block of sharings, one from each      *)
(* party, is turned into t + 1 by a Vandermonde matrix.                    *)
(*                                                                         *)
(* A party runs the functions that send in one thread and those that       *)
(* receive in another, joins them, and then multiplies in three threads    *)
(* (src/experiments/ours.cc).  A function that only sends or only receives *)
(* is one step: a connection holds the messages of a function.             *)
(***************************************************************************)
EXTENDS Channels, FieldSharing, SequencesExt

CONSTANTS
  BatchSize,      \* k
  Threshold,      \* t
  NIndShrs,       \* individual shares the circuit needs
  NMultBatches,   \* its batches of multiplications
  NInOutBatches,  \* its batches of inputs and outputs
  Scenarios       \* random values of the parties to run with

\* What Correlator::SetThreshold lets through.
ASSUME ThresholdAssumption ==
  /\ BatchSize \in Nat \ {0} /\ Threshold \in Nat
  /\ NParties = Threshold + 2 * (BatchSize - 1) + 1
  /\ NParties > 2 * Threshold

ASSUME AmountsAssumption == NIndShrs \in Nat /\ NMultBatches \in Nat /\ NInOutBatches \in Nat

VARIABLES
  sent,      \* party -> functions its sending thread has been through
  received,  \* party -> functions its receiving thread has been through
  prodSent,  \* party -> whether it has sent its shares of the products to P1
  opened,    \* products P1 has reconstructed and sent back
  draws,     \* what the parties draw: draws[function][party][item]
  indShrs,   \* party -> mIndShrs
  unpacked,  \* party -> mUnpackedShrsA, B and Mask, by pack index
  multPrep,  \* party -> mMultBatchFIPrep
  ioPrep,    \* party -> mIOBatchFIPrep, every share with its number
  zeroProd,  \* party -> mZeroProdShrs, by pack index
  shrProd    \* party -> shares_prod, in the order received

vars == << sent, received, prodSent, opened, chan, draws, indShrs, unpacked,
           multPrep, ioPrep, zeroProd, shrProd >>
-----------------------------------------------------------------------------
FIPrepSend == << "ind", "unpacked", "zero", "zeroProd" >>

\* Fault: the shares of zero are taken for the factors and masks.
FIPrepRecvSwapped == << "ind", "zero", "unpacked", "zeroProd" >>

FIPrepRecv == << "ind", "unpacked", "zero", "zeroProd" >>

Amount(f) ==
  CASE f = "ind"      -> NIndShrs
    [] f = "unpacked" -> 3 * NMultBatches
    [] f = "zero"     -> 3 * NMultBatches + NInOutBatches
    [] f = "zeroProd" -> NMultBatches

\* Fault: the last, incomplete block is not made.
WholeBlocks(f) == Amount(f) \div (Threshold + 1)

Blocks(f) == (Amount(f) + Threshold) \div (Threshold + 1)

\* Packed shares, or shares at the point of one secret for each of the k.
Packs(f) == IF f \in {"unpacked", "zeroProd"} THEN BatchSize ELSE 1

Items(f) ==
  FlattenSeq([pack \in 1 .. Packs(f) |-> [block \in 1 .. Blocks(f) |-> << f, pack, block >>]])

Same(v) == [s \in 1 .. BatchSize |-> v]

\* Fault: packs counted from 1, their points one off.
PointOfNext(pack) == SecretPoint(pack + 1)

PointOf(pack) == SecretPoint(pack)

IndSecrets(draw) == Same(draw[1])

\* The polynomial a party shares for an item: `draw' is the secret, where it is
\* not 0, and the rest of the values.
Dealt(f, pack, draw) ==
  CASE f = "ind"      -> EvPolyFromSecretsAndDegree(IndSecrets(draw), NParties - BatchSize, Tail(draw))
    [] f = "unpacked" -> EvPolyFromSecretAndPointAndDegree(draw[1], PointOf(pack), Threshold, Tail(draw))
    [] f = "zero"     -> EvPolyFromSecretsAndDegree(Same(0), NParties - 1, draw)
    [] f = "zeroProd" -> EvPolyFromSecretAndPointAndDegree(0, PointOf(pack), NParties - 1, draw)

\* The length of a draw.
DrawLength(f) ==
  CASE f = "ind"      -> NParties - 2 * BatchSize + 2
    [] f = "unpacked" -> Threshold + 1
    [] f = "zero"     -> NParties - BatchSize
    [] f = "zeroProd" -> NParties - 1

Init ==
  /\ sent = [p \in Parties |-> 0]
  /\ received = [p \in Parties |-> 0]
  /\ prodSent = [p \in Parties |-> FALSE]
  /\ opened = 0
  /\ chan = NoMessages
  /\ draws \in Scenarios
  /\ indShrs = [p \in Parties |-> << >>]
  /\ unpacked = [p \in Parties |-> [A |-> << >>, B |-> << >>, Mask |-> << >>]]
  /\ multPrep = [p \in Parties |-> << >>]
  /\ ioPrep = [p \in Parties |-> << >>]
  /\ zeroProd = [p \in Parties |-> << >>]
  /\ shrProd = [p \in Parties |-> << >>]
-----------------------------------------------------------------------------
\* Gen*PartiesSend.
PartiesSend(p) ==
  /\ sent[p] < Len(FIPrepSend)
  /\ LET f == FIPrepSend[sent[p] + 1]
         items == Items(f)
         shares == [i \in DOMAIN items |->
                      SharesFromEvPoly(Dealt(f, items[i][2], draws[f][p][i]), NParties)]
     IN  SendEach(p, [q \in Parties |->
                        [i \in DOMAIN items |-> [val |-> shares[i][q + 1], tag |-> items[i]]]])
  /\ sent' = [sent EXCEPT ![p] = @ + 1]
  /\ UNCHANGED << received, prodSent, opened, draws, indShrs, unpacked, multPrep, ioPrep,
                  zeroProd, shrProd >>

Vandermonde(q, s) == IF s = 0 THEN 1 ELSE (q ^ s) % P

\* Row s of the matrix applied to the shares the parties sent for a block.
MixedShare(p, f, pack, block, s) ==
  MapThenSumSet(LAMBDA q : Vandermonde(q, s) * chan[q][p][(pack - 1) * Blocks(f) + block].val,
                Parties) % P

\* What comes of the shares received for f: t + 1 for every block, by pack.
Mixed(p, f) ==
  [pack \in 1 .. Packs(f) |->
     FlattenSeq([block \in 1 .. Blocks(f) |->
       [s \in 1 .. Threshold + 1 |-> MixedShare(p, f, pack, block, s - 1)]])]

\* The part every Gen*PartiesReceive has.
Receives(p, f) ==
  /\ received[p] < Len(FIPrepRecv)
  /\ FIPrepRecv[received[p] + 1] = f
  /\ ReceiveEach(p, Len(Items(f)))
  /\ received' = [received EXCEPT ![p] = @ + 1]

GenIndShrsPartiesReceive(p) ==
  /\ Receives(p, "ind")
  /\ indShrs' = [indShrs EXCEPT ![p] = Mixed(p, "ind")[1]]
  /\ UNCHANGED << sent, prodSent, opened, draws, unpacked, multPrep, ioPrep, zeroProd, shrProd >>

\* From one share for each of the k secrets to a packed one.
Packed(p, shares) ==
  MapThenSumSet(LAMBDA i : SharesOfEi(BatchSize, p, i) * shares[i], 1 .. BatchSize) % P

\* What a batch begins with: packed shares of two random factors.
FactorsOf(p, b) ==
  LET packed(i) == Packed(p, [pack \in 1 .. BatchSize |->
                                Mixed(p, "unpacked")[pack][i * NMultBatches + b]])
  IN  [A |-> packed(0), B |-> packed(1), C |-> 0, O1 |-> 0, O2 |-> 0, O3 |-> 0]

GenUnpackedShrPartiesReceive(p) ==
  LET mixed == Mixed(p, "unpacked")
      part(i) == [pack \in 1 .. BatchSize |->
                    SubSeq(mixed[pack], i * NMultBatches + 1, (i + 1) * NMultBatches)]
  IN  /\ Receives(p, "unpacked")
      /\ unpacked' = [unpacked EXCEPT ![p] = [A |-> part(0), B |-> part(1), Mask |-> part(2)]]
      /\ multPrep' = [multPrep EXCEPT ![p] = [b \in 1 .. NMultBatches |-> FactorsOf(p, b)]]
      /\ UNCHANGED << sent, prodSent, opened, draws, indShrs, ioPrep, zeroProd, shrProd >>

\* The third part of the shares goes to O3; the `else' of that condition, and
\* of that one only, gives all others to the batches of inputs and outputs, the
\* first two parts, which are O1 and O2, among them.
GivenToInOut(number) == ~(2 * NMultBatches < number /\ number <= 3 * NMultBatches)

GenZeroPartiesReceive(p) ==
  LET mixed == Mixed(p, "zero")[1]
  IN  /\ Receives(p, "zero")
      /\ multPrep' = [multPrep EXCEPT ![p] =
                        [b \in DOMAIN @ |-> [@[b] EXCEPT !.O1 = mixed[b],
                                                         !.O2 = mixed[NMultBatches + b],
                                                         !.O3 = mixed[2 * NMultBatches + b]]]]
      /\ ioPrep' = [ioPrep EXCEPT ![p] =
                      FlattenSeq([i \in DOMAIN mixed |->
                        IF GivenToInOut(i) THEN << [number |-> i, O |-> mixed[i]] >> ELSE << >>])]
      /\ UNCHANGED << sent, prodSent, opened, draws, indShrs, unpacked, zeroProd, shrProd >>

GenZeroForProdPartiesReceive(p) ==
  /\ Receives(p, "zeroProd")
  /\ zeroProd' = [zeroProd EXCEPT ![p] = Mixed(p, "zeroProd")]
  /\ UNCHANGED << sent, prodSent, opened, draws, indShrs, unpacked, multPrep, ioPrep, shrProd >>

Joined(p) == sent[p] = Len(FIPrepSend) /\ received[p] = Len(FIPrepRecv)
-----------------------------------------------------------------------------
\* The products, pack by pack and in each batch by batch.
NProducts == BatchSize * NMultBatches
PackOf(i)  == ((i - 1) \div NMultBatches) + 1
BatchOf(i) == ((i - 1) % NMultBatches) + 1

ShareOfProduct(p, i) ==
  LET of(side) == unpacked[p][side][PackOf(i)][BatchOf(i)]
  IN  (of("A") * of("B") + of("Mask") + zeroProd[p][PackOf(i)][BatchOf(i)]) % P

GenProdPartiesSendP1(p) ==
  /\ Joined(p) /\ ~prodSent[p]
  /\ SendEach(p, [q \in Parties |->
                    IF q # 0 THEN << >>
                    ELSE [i \in 1 .. NProducts |-> [val |-> ShareOfProduct(p, i), tag |-> << "prod", i >>]]])
  /\ prodSent' = [prodSent EXCEPT ![p] = TRUE]
  /\ UNCHANGED << sent, received, opened, draws, indShrs, unpacked, multPrep, ioPrep, zeroProd, shrProd >>

\* P1's new polynomial of degree t vanishes at the points of the first t
\* parties, so nothing is sent to them.
Opened(secret, pack) ==
  [x |-> [j \in 1 .. Threshold + 1 |-> IF j = 1 THEN PointOf(pack) ELSE j - 1],
   y |-> [j \in 1 .. Threshold + 1 |-> IF j = 1 THEN secret ELSE 0]]

SentBackTo(q) == q >= Threshold

\* One round of the loop: P1 receives from everybody and sends back.
GenProdP1ReceivesAndSends ==
  /\ Joined(0) /\ opened < NProducts
  /\ \A q \in Parties : Arrived(q, 0)
  /\ LET i == opened + 1
         pack == PackOf(i)
         secret == SecretFromPointAndShares(PointOf(pack), [j \in 1 .. NParties |-> Received(j - 1, 0)])
         shares == SharesFromEvPoly(Opened(secret, pack), NParties)
         back(q) == IF SentBackTo(q) THEN << [val |-> shares[q + 1], tag |-> << "back", i >>] >> ELSE << >>
         room(q) == q = 0 \/ Len(chan[0][q]) + Len(back(q)) <= Capacity
         taken == [q \in Parties |-> [chan[q] EXCEPT ![0] = Tail(@)]]
     IN  /\ \A q \in Parties : room(q)
         /\ chan' = [taken EXCEPT ![0] = [q \in Parties |-> taken[0][q] \o back(q)]]
         /\ opened' = i
  /\ UNCHANGED << sent, received, prodSent, draws, indShrs, unpacked, multPrep, ioPrep, zeroProd, shrProd >>

\* Fault: the mask stays on.
UnmaskedNot(p, recv, i) == recv

Unmasked(p, recv, i) == (recv - unpacked[p].Mask[PackOf(i)][BatchOf(i)]) % P

\* One round of the loop, and with the last the C of every batch.  A party that
\* is sent nothing has the share 0.
GenProdPartiesReceive(p) ==
  /\ Joined(p) /\ Len(shrProd[p]) < NProducts
  /\ LET i == Len(shrProd[p]) + 1
         recv == IF p >= Threshold THEN Received(0, p) ELSE 0
         prods == Append(shrProd[p], Unmasked(p, recv, i))
         ofBatch(b) == [pack \in 1 .. BatchSize |-> prods[(pack - 1) * NMultBatches + b]]
     IN  /\ IF p >= Threshold THEN Receive(0, p) ELSE UNCHANGED chan
         /\ shrProd' = [shrProd EXCEPT ![p] = prods]
         /\ multPrep' = IF i < NProducts THEN multPrep
                        ELSE [multPrep EXCEPT ![p] =
                               [b \in DOMAIN @ |-> [@[b] EXCEPT !.C = Packed(p, ofBatch(b))]]]
  /\ UNCHANGED << sent, received, prodSent, opened, draws, indShrs, unpacked, ioPrep, zeroProd >>
-----------------------------------------------------------------------------
Step(p) ==
  \/ PartiesSend(p)
  \/ GenIndShrsPartiesReceive(p)
  \/ GenUnpackedShrPartiesReceive(p)
  \/ GenZeroPartiesReceive(p)
  \/ GenZeroForProdPartiesReceive(p)
  \/ GenProdPartiesSendP1(p)
  \/ GenProdPartiesReceive(p)

AllFinished ==
  /\ \A p \in Parties : Joined(p) /\ prodSent[p] /\ Len(shrProd[p]) = NProducts
  /\ opened = NProducts

Next ==
  \/ \E p \in Parties : Step(p)
  \/ GenProdP1ReceivesAndSends
  \/ AllFinished /\ UNCHANGED vars

Spec == Init /\ [][Next]_vars
-----------------------------------------------------------------------------
\* What is on its way to p from q is the beginning of what p will still
\* receive from q, in that order: the functions come in the same order in the
\* sending and the receiving thread (circuits.h), items in the same order in
\* the loops of each, and the two phases of products do not mix with either.  In the end nothing is
\* left on a channel for the next phase.
StillToReceive(p, q) ==
  FlattenSeq([f \in 1 .. Len(FIPrepRecv) |->
                IF f <= received[p] THEN << >> ELSE Items(FIPrepRecv[f])])
  \o (IF p = 0 THEN [j \in 1 .. NProducts - opened |-> << "prod", opened + j >>] ELSE << >>)
  \o (IF q = 0 /\ p >= Threshold
      THEN [j \in 1 .. NProducts - Len(shrProd[p]) |-> << "back", Len(shrProd[p]) + j >>] ELSE << >>)
ReceivesItsOwn ==
  \A p, q \in Parties :
    IsPrefix([i \in 1 .. Len(chan[q][p]) |-> chan[q][p][i].tag], StillToReceive(p, q))

\* MapCorrToCircuit never reads past the end of what was made: the blocks are
\* enough for every gate and batch.
NeverRunsOut ==
  AllFinished => \A p \in Parties :
    /\ Len(indShrs[p]) >= NIndShrs
    /\ Len(multPrep[p]) = NMultBatches
    /\ Len(ioPrep[p]) >= NInOutBatches

Everybody(n) == \A p \in Parties : received[p] >= n
OfParties(share(_)) == [i \in 1 .. NParties |-> share(i - 1)]

\* An individual share is one of a random value in the place of all k secrets,
\* in degree n - k: PackedShr multiplies it by a share of a unit vector.  What
\* passes for a share of zero is one: adding it changes no secret.
SharesZero(shares) == IsSharing(shares, Same(0), NParties - 1)
SharesConsistent ==
  /\ Everybody(1) => \A i \in 1 .. NIndShrs :
       LET shares == OfParties(LAMBDA p : indShrs[p][i])
       IN  IsSharing(shares, Same(SecretFromPointAndShares(0, shares)), NParties - BatchSize)
  /\ Everybody(3) =>
       /\ \A b \in 1 .. NMultBatches, o \in {"O1", "O2", "O3"} :
            SharesZero(OfParties(LAMBDA p : multPrep[p][b][o]))
       /\ \A i \in 1 .. NInOutBatches : SharesZero(OfParties(LAMBDA p : ioPrep[p][i].O))
  /\ Everybody(4) => \A pack \in 1 .. BatchSize, b \in 1 .. NMultBatches :
       SecretFromPointAndShares(SecretPoint(pack), OfParties(LAMBDA p : zeroProd[p][pack][b])) = 0

\* In the end A, B and C share, in degree n - k, k factors, k other factors and
\* their products.
TriplesMultiply ==
  AllFinished => \A b \in 1 .. NMultBatches :
    LET shares(side) == OfParties(LAMBDA p : multPrep[p][b][side])
        secrets(side) == SecretsFromSharesAndLength(shares(side), BatchSize)
        IsPacked(side, values) == IsSharing(shares(side), values, NParties - BatchSize)
    IN  /\ IsPacked("A", secrets("A")) /\ IsPacked("B", secrets("B"))
        /\ IsPacked("C", [s \in 1 .. BatchSize |-> (secrets("A")[s] * secrets("B")[s]) % P])

\* A share of zero serves one purpose: correlator.h lists inputs, outputs and
\* three for a multiplication, and the amount of them is that sum.
ZeroSharesUsedOnce ==
  \A p \in Parties : \A i \in DOMAIN ioPrep[p] :
    i <= NInOutBatches => ioPrep[p][i].number > 3 * NMultBatches
=============================================================================
