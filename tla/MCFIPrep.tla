------------------------------ MODULE MCFIPrep ------------------------------
(* Instances of FIPrep for TLC: what the parties draw is spread over the     *)
(* field by a polynomial in a seed; with seed 0 everything is zero.          *)
EXTENDS FIPrep

Spread(seed, x) == (seed * (3 * x + seed) + x * x) % P

Numbered == << "ind", "unpacked", "zero", "zeroProd" >>
ScenarioOf(seed) ==
  [f \in Range(Numbered) |->
     LET c == CHOOSE i \in 1 .. 4 : Numbered[i] = f
     IN  [p \in Parties |-> [i \in 1 .. Len(Items(f)) |-> [j \in 1 .. DrawLength(f) |->
            IF seed = 0 THEN 0 ELSE Spread(seed, 5 * c + 7 * p + 3 * i + j)]]]]

FewScenarios == { ScenarioOf(seed) : seed \in {0, 2, 3} }
=============================================================================
