-------------------------- MODULE SyntheticCircuit --------------------------
(***************************************************************************)
(* The circuit Circuit::FromConfig is meant to build, in closed form: the  *)
(* inputs of every party, then `depth' layers of width \div 2 groups of an *)
(* addition and two multiplications over a pair of wires of the layer      *)
(* before, then the outputs, cut into batches.  FromConfig.tla shows that  *)
(* the loops of the code build it.                                         *)
(***************************************************************************)
EXTENDS BatchedLayer

\* A configuration: inp and out are the sequences inp_gates and out_gates,
\* indexed from 1, of a circuit with n parties.  UpTo adds up those of the first p.
UpTo(counts) == LET sum[p \in 0 .. Len(counts)] == IF p = 0 THEN 0 ELSE sum[p - 1] + counts[p]
                IN  sum
Total(counts) == UpTo(counts)[Len(counts)]
NInputs(cf)   == Total(cf.inp)
NOutputs(cf)  == Total(cf.out)

Groups(cf) == cf.width \div 2

\* The first gate of group i of layer d, counting both from 0: its addition.
GroupBase(cf, d, i) == NInputs(cf) + 3 * (Groups(cf) * d + i) + 1

\* Multiplication j of layer d: two to a group, behind the addition.
MultAt(cf, d, j) == GroupBase(cf, d, j \div 2) + 1 + (j % 2)

\* The wire that position j of layer d reads.
WireAt(cf, d, j) == IF d = 0 THEN (j % NInputs(cf)) + 1 ELSE MultAt(cf, d - 1, j)

FirstOutput(cf) == NInputs(cf) + 3 * Groups(cf) * cf.depth + 1

\* The party that owns position k of per-party counts laid end to end.
OwnerAt(counts, k) ==
  CHOOSE p \in DOMAIN counts : UpTo(counts)[p - 1] < k /\ k <= UpTo(counts)[p]

SyntheticGate(cf, g) ==
  LET inner == g - NInputs(cf) - 1
      d == inner \div (3 * Groups(cf))
      i == (inner \div 3) % Groups(cf)
      k == g - FirstOutput(cf) + 1
  IN  CASE g <= NInputs(cf) ->
             [kind |-> "input", owner |-> OwnerAt(cf.inp, g) - 1]
        [] g >= FirstOutput(cf) ->
             [kind |-> "output", owner |-> OwnerAt(cf.out, k) - 1,
              left |-> MultAt(cf, cf.depth - 1, (k - 1) % (2 * Groups(cf)))]
        [] inner % 3 = 0 /\ g > NInputs(cf) /\ g < FirstOutput(cf) ->
             [kind |-> "add", left |-> WireAt(cf, d, 2 * i), right |-> WireAt(cf, d, 2 * i + 1)]
        [] OTHER ->
             [kind |-> "mult", left |-> WireAt(cf, d, 2 * i + (inner % 3) - 1),
              right |-> GroupBase(cf, d, i)]

SyntheticGates(cf) ==
  [g \in 1 .. FirstOutput(cf) + NOutputs(cf) - 1 |-> SyntheticGate(cf, g)]

\* The flat lists: what a party owns, and the multiplications of a layer, with
\* the empty list LastLayer leaves behind.
SyntheticFlat(cf, counts, first, p) ==
  [j \in 1 .. counts[p] |-> first + UpTo(counts)[p - 1] + j - 1]
SyntheticInputs(cf)  == [p \in 0 .. cf.n - 1 |-> SyntheticFlat(cf, cf.inp, 1, p + 1)]
SyntheticOutputs(cf) == [p \in 0 .. cf.n - 1 |-> SyntheticFlat(cf, cf.out, FirstOutput(cf), p + 1)]
SyntheticMult(cf) ==
  [d \in 1 .. cf.depth + 1 |->
     IF d <= cf.depth THEN [j \in 1 .. 2 * Groups(cf) |-> MultAt(cf, d - 1, j - 1)] ELSE << >>]

\* A flat list cut into batches and padded.  An empty list makes one batch of
\* padding: the constructor opens a batch before there is a gate for it.
Batched(flat) ==
  LET full == (Len(flat) + BatchSize - 1) \div BatchSize
  IN  [b \in 1 .. (IF flat = << >> THEN 1 ELSE full) |->
         [s \in 1 .. BatchSize |->
            IF Position(b, s) <= Len(flat) THEN flat[Position(b, s)] ELSE Pad]]

SyntheticLayers(cf) == [d \in 1 .. cf.depth |-> Batched(SyntheticMult(cf)[d])]
=============================================================================
