------------------------------- MODULE MCDN07 -------------------------------
(* Instances of DN07 for TLC: two owners of inputs, one of them the first of *)
(* all, the other one that is idle online, a sum, two layers, two outputs of *)
(* one owner.                                                                *)
EXTENDS DN07

in(p) == [kind |-> "input", owner |-> p]
add(l, r) == [kind |-> "add", left |-> l, right |-> r]
mult(l, r) == [kind |-> "mult", left |-> l, right |-> r]
out(p, l) == [kind |-> "output", owner |-> p, left |-> l]

TwoLayers ==
  [gates   |-> << in(0), in(0), in(3), add(1, 3), mult(4, 2), mult(3, 3), mult(5, 6), add(7, 5),
                  out(3, 8), out(3, 6) >>,
   inputs  |-> (0 :> << 1, 2 >>) @@ (3 :> << 3 >>) @@ [p \in Parties |-> << >>],
   layers  |-> << << 5, 6 >>, << 7 >> >>,
   outputs |-> (3 :> << 9, 10 >>) @@ [p \in Parties |-> << >>]]

Spread(seed, x) == (seed * (3 * x + seed) + x * x) % P
ScenarioOf(seed) ==
  LET drawn(len, x) == [i \in 1 .. len |-> IF seed = 0 THEN 0 ELSE Spread(seed, 3 * x + i)]
  IN  [input |-> [g \in OfKind("input") |-> (2 * g + seed) % P],
       draws |-> [p \in Parties |-> [b \in 1 .. Len(Blocks) |->
                    [secret |-> drawn(1, p + 2 * b)[1], low |-> drawn(Threshold, p + b),
                     high |-> drawn(2 * Threshold, p + 3 * b)]]]]

FewScenarios == { ScenarioOf(seed) : seed \in {3, 4} }
=============================================================================
