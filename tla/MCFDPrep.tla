------------------------------ MODULE MCFDPrep ------------------------------
(* Instances of FDPrep for TLC.  The material is spread over the field by a  *)
(* polynomial in a seed; with seed 0 all masks and random values are zero.   *)
EXTENDS FDPrep

in(p) == [kind |-> "input", owner |-> p]
add(l, r) == [kind |-> "add", left |-> l, right |-> r]
mult(l, r) == [kind |-> "mult", left |-> l, right |-> r]
out(p, l) == [kind |-> "output", owner |-> p, left |-> l]

\* A client without gates still has one batch of padding.
Padding == << [s \in 1 .. BatchSize |-> Pad] >>

\* Four parties, two inputs of party 1, a sum, a layer of three multiplications
\* in two batches and one of a single padded one, an output of party 0.  With
\* room for 1 message the owners' masks are too many, with 2 or 3 what P1 sends
\* anew is, with 4 everything fits.
TwoLayers ==
  [gates         |-> << in(1), in(1), add(1, 2), mult(1, 3), mult(2, 3), mult(3, 3), mult(4, 6), add(7, 4), out(0, 8) >>,
   inputBatches  |-> (1 :> << << 1, 2 >> >>) @@ [p \in Parties |-> Padding],
   layers        |-> << << << 4, 5 >>, << 6, Pad >> >>, << << 7, Pad >> >> >>,
   outputBatches |-> (0 :> << << 9, Pad >> >>) @@ [p \in Parties |-> Padding]]

Spread(seed, x) == (seed * (3 * x + seed) + x * x) % P
Drawn(seed, x, len) == [i \in 1 .. len |-> IF seed = 0 THEN 0 ELSE Spread(seed, 3 * x + i)]

Packed(secrets, degree, seed, x) ==
  SharesFromEvPoly(EvPolyFromSecretsAndDegree(secrets, degree, Drawn(seed, x, degree + 1 - BatchSize)),
                   NParties)

ScenarioOf(seed) ==
  LET same(v) == [s \in 1 .. BatchSize |-> v]
      secrets(b, c) == Drawn(seed, 5 * b[2] + 7 * b[3] + c, BatchSize)
      number(b) == 11 * b[2] + 2 * b[3]
      mults == Range(MultBatches)
      zero(c) == [b \in mults |-> Packed(same(0), NParties - 1, seed, number(b) + c)]
  IN  [ind |-> [g \in { g \in GateIds : gates[g].kind \in {"input", "mult"} } |->
                  Packed(same(Drawn(seed, g, 1)[1]), NParties - BatchSize, seed, g + 4)],
       A |-> [b \in mults |-> Packed(secrets(b, 0), NParties - BatchSize, seed, number(b))],
       B |-> [b \in mults |-> Packed(secrets(b, 1), NParties - BatchSize, seed, number(b) + 1)],
       C |-> [b \in mults |->
                Packed([s \in 1 .. BatchSize |-> (secrets(b, 0)[s] * secrets(b, 1)[s]) % P],
                       NParties - BatchSize, seed, number(b) + 2)],
       O1 |-> zero(3), O2 |-> zero(4), O3 |-> zero(5),
       IO |-> [b \in Range(IOBatches) |-> Packed(same(0), NParties - 1, seed, number(b) + 6)]]

FewScenarios == { ScenarioOf(seed) : seed \in {0, 3} }
=============================================================================
