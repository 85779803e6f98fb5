------------------------------ MODULE MCOnline ------------------------------
(* Instances of Online for TLC: a circuit like the one the repository's      *)
(* tests assemble by hand (two owners, two batches in a layer, the second of *)
(* them padded, an output that is a sum of sums).                            *)
EXTENDS Online

in(p) == [kind |-> "input", owner |-> p]
add(l, r) == [kind |-> "add", left |-> l, right |-> r]
mult(l, r) == [kind |-> "mult", left |-> l, right |-> r]
out(p, l) == [kind |-> "output", owner |-> p, left |-> l]

\* Batches of three, of which the second one is mostly padding.
HandMade ==
  [gates   |-> << in(0), in(1), in(0), in(1), add(1, 2), add(3, 4),
                  mult(5, 1), mult(5, 2), mult(6, 3), mult(6, 4),
                  add(7, 8), add(9, 10), add(11, 12),
                  out(0, 13) >>,
   inputs  |-> (0 :> << 1, 3 >>) @@ (1 :> << 2, 4 >>) @@ [p \in Parties |-> << >>],
   layers  |-> << << << 7, 8, 9 >>, << 10, Pad, Pad >> >> >>,
   outputs |-> (0 :> << 14 >>) @@ [p \in Parties |-> << >>]]

\* A few assignments of inputs, masks and random values, spread over the
\* field; the first has all masks and all random values zero.
Spread(seed, x) == (seed * (3 * x + seed) + x * x) % P
ScenarioOf(seed) ==
  [input  |-> [g \in OfKind("input") |-> (g + 2 * seed) % P],
   lambda |-> [g \in OfKind("input") \cup OfKind("mult") |->
                 IF seed = 0 THEN 0 ELSE Spread(seed, g)],
   tails  |-> [b \in Batches |->
                 LET tail(len, c) ==
                       [i \in 1 .. len |->
                          IF seed = 0 THEN 0 ELSE Spread(seed, 7 * b[1] + 5 * b[2] + 3 * i + c)]
                 IN  [A |-> tail(NParties - 2 * BatchSize + 1, 0),
                      B |-> tail(NParties - 2 * BatchSize + 1, 1),
                      D |-> tail(NParties - BatchSize, 2)]]]

FewScenarios == { ScenarioOf(seed) : seed \in {0, 2, 5} }
=============================================================================
