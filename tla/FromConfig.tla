----------------------------- MODULE FromConfig -----------------------------
(***************************************************************************)
(* Circuit::FromConfig (src/src/tp/circuits/generic.cc): the caller of     *)
(* CircuitBuilder that every experiment goes through.  It validates a      *)
(* configuration and builds a circuit with it, one call of the builder a   *)
(* step; afterwards the circuit may be given its network.                  *)
(*                                                                         *)
(* The arithmetic on sizes is the code's: `%' by a number nothing has      *)
(* checked and indexes computed from it.  A remainder by zero and an index *)
(* outside a vector are undefined behaviour; the state pc = "undefined"    *)
(* stands for whatever then happens.                                       *)
(***************************************************************************)
EXTENDS CircuitBuilder, SyntheticCircuit, FiniteSets

CONSTANT Configs  \* the configurations to build

ASSUME ConfigsAssumption ==
  /\ Configs \subseteq [n : Nat, inp : Seq(Nat), out : Seq(Nat), width : Nat, depth : Nat]
  /\ \A cf \in Configs : Clients = 0 .. cf.n - 1

VARIABLES
  config,  \* the argument
  pc,      \* where FromConfig is
  party,   \* i of the input and output loops
  item,    \* j of the input and output loops; i of the loops over a layer
  depth,   \* d, the layer being built
  ctr      \* outputs made so far

local == << config, pc, party, item, depth, ctr >>
fcVars == << vars, local >>

Goto(label) == pc' = label /\ UNCHANGED << config, party, item, depth, ctr >>

FCInit ==
  /\ Init
  /\ config \in Configs
  /\ pc = "validate"
  /\ party = 0 /\ item = 0 /\ depth = 0 /\ ctr = 0

\* width % n_inputs comes before any test that n_inputs is not 0.
Validate ==
  /\ pc = "validate"
  /\ \/ /\ config.n # Len(config.inp) \/ config.n # Len(config.out)
        /\ Goto("thrown")
     \/ /\ config.n = Len(config.inp) /\ config.n = Len(config.out)
        /\ \/ NInputs(config) = 0 /\ Goto("undefined")
           \/ /\ NInputs(config) # 0
              /\ config.width % NInputs(config) # 0 \/ NInputs(config) % 2 # 0
              /\ Goto("thrown")
           \/ /\ NInputs(config) # 0
              /\ config.width % NInputs(config) = 0 /\ NInputs(config) % 2 = 0
              /\ Goto("inputs")
  /\ UNCHANGED vars

\* for i < n_parties: for j < inp_gates[i]: Input(i).
BuildInput ==
  /\ pc = "inputs"
  /\ \/ /\ party < config.n /\ item < config.inp[party + 1]
        /\ Input(party)
        /\ item' = item + 1
        /\ UNCHANGED << config, pc, party, depth, ctr >>
     \/ /\ party < config.n /\ item = config.inp[party + 1]
        /\ party' = party + 1 /\ item' = 0
        /\ UNCHANGED << config, pc, depth, ctr, vars >>
     \/ /\ party = config.n
        /\ CloseInputs
        /\ pc' = "add" /\ party' = 0
        /\ UNCHANGED << config, item, depth, ctr >>

\* GetInputGate(idx): mInputGates has the inputs of all parties in the order of
\* creation, so idx of them are older.
Inputs == { g \in DOMAIN gates : gates[g].kind = "input" }
GetInputGate(idx) == CHOOSE g \in Inputs : Cardinality({ h \in Inputs : h < g }) = idx

\* Fault: the index of an input is not reduced modulo their number.
ReadableUnreduced(j) ==
  IF depth = 0 THEN j < Cardinality(Inputs) ELSE j + 1 \in DOMAIN flatMult[depth]

\* The wire at position j that the loop body reads: an input gate for the
\* first layer, GetMultGate(d - 1, j) for the others.
Readable(j) ==
  IF depth = 0 THEN j % NInputs(config) < Cardinality(Inputs)
               ELSE j + 1 \in DOMAIN flatMult[depth]
Read(j) ==
  IF depth = 0 THEN GetInputGate(j % NInputs(config)) ELSE flatMult[depth][j + 1]

\* One iteration over a layer: add = x + y, then x * add and y * add.
BuildAdd ==
  /\ pc = "add" /\ item < config.width \div 2
  /\ \/ /\ Readable(2 * item) /\ Readable(2 * item + 1)
        /\ Add(Read(2 * item), Read(2 * item + 1))
        /\ Goto("multX")
     \/ /\ ~(Readable(2 * item) /\ Readable(2 * item + 1))
        /\ Goto("undefined") /\ UNCHANGED vars

BuildMultX ==
  /\ pc = "multX"
  /\ Mult(Read(2 * item), Len(gates))
  /\ Goto("multY")

\* Faults: the second factor taken from the gate just
\* made; a loop counter that is not set back.
LastGate == Len(gates)
LoopOver == UNCHANGED item

GroupDone == item' = item + 1
SumOfGroup == Len(gates) - 1
LoopReset == item' = 0

BuildMultY ==
  /\ pc = "multY"
  /\ Mult(Read(2 * item + 1), SumOfGroup)
  /\ pc' = "add" /\ GroupDone
  /\ UNCHANGED << config, party, depth, ctr >>

\* The first layer is built whatever the depth; the loop over d starts at 1.
BuildNextLayer ==
  /\ pc = "add" /\ item = config.width \div 2
  /\ depth + 1 < config.depth
  /\ NewLayer
  /\ depth' = depth + 1 /\ LoopReset
  /\ UNCHANGED << config, pc, party, ctr >>

BuildLastLayer ==
  /\ pc = "add" /\ item = config.width \div 2
  /\ depth + 1 >= config.depth
  /\ LastLayer
  /\ pc' = "outputs" /\ LoopReset
  /\ UNCHANGED << config, party, depth, ctr >>

\* GetMultGate(depth - 1, ctr % width): depth - 1 wraps around when depth is 0.
OutputDefined ==
  /\ config.width # 0
  /\ config.depth \in DOMAIN flatMult
  /\ (ctr % config.width) + 1 \in DOMAIN flatMult[config.depth]

BuildOutput ==
  /\ pc = "outputs"
  /\ \/ /\ party < config.n /\ item < config.out[party + 1]
        /\ OutputDefined
        /\ Output(party, flatMult[config.depth][(ctr % config.width) + 1])
        /\ item' = item + 1 /\ ctr' = ctr + 1
        /\ UNCHANGED << config, pc, party, depth >>
     \/ /\ party < config.n /\ item < config.out[party + 1]
        /\ ~OutputDefined
        /\ Goto("undefined") /\ UNCHANGED vars
     \/ /\ party < config.n /\ item = config.out[party + 1]
        /\ party' = party + 1 /\ item' = 0
        /\ UNCHANGED << config, pc, depth, ctr, vars >>
     \/ /\ party = config.n
        /\ CloseOutputs
        /\ Goto("built")

Run == pc = "built" /\ SetNetwork /\ Goto("ready")

FCNext ==
  \/ Validate \/ BuildInput \/ BuildAdd \/ BuildMultX \/ BuildMultY
  \/ BuildNextLayer \/ BuildLastLayer \/ BuildOutput \/ Run

FCSpec == FCInit /\ [][FCNext]_fcVars /\ WF_fcVars(FCNext)
-----------------------------------------------------------------------------
\* A configuration that the validation lets through leaves the defined
\* behaviour only for want of an input, or when an output has no gate to come
\* from because a layer is empty or there is none: no width or batch size makes
\* an index run out of a layer.
UndefinedOnlyWhenEmpty ==
  pc = "undefined" =>
    \/ NInputs(config) = 0
    \/ NOutputs(config) > 0 /\ (config.width = 0 \/ config.depth = 0)

\* The layer of a multiplication gate, and of any other wire the last layer it
\* depends on: additions and inputs are available with their parents.
MultLayerOf(g) ==
  CHOOSE l \in 1 .. Len(flatMult) : \E j \in 1 .. Len(flatMult[l]) : flatMult[l][j] = g
Later(a, b) == IF a < b THEN b ELSE a
ReadyAfter[g \in DOMAIN gates] ==
  CASE gates[g].kind = "add" -> Later(ReadyAfter[gates[g].left], ReadyAfter[gates[g].right])
    [] gates[g].kind = "mult" -> MultLayerOf(g)
    [] OTHER -> 0

\* The loops build the circuit of SyntheticCircuit, in both views.  In it P1 can
\* assemble the mu of every batch when its layer's turn comes: both parents of a
\* multiplication depend on earlier layers only.  MultGate::GetMu throws "Run
\* multiplication protocol first" otherwise, and Mult itself does not look at the
\* layers of the gates it is given.
BuildsSynthetic ==
  pc \in {"built", "ready"} /\ config.depth > 0 =>
    /\ gates = SyntheticGates(config)
    /\ flatInputs = SyntheticInputs(config)
    /\ flatOutputs = SyntheticOutputs(config)
    /\ flatMult = SyntheticMult(config)
    /\ inputLayers = [p \in Clients |-> Batched(flatInputs[p])]
    /\ outputLayers = [p \in Clients |-> Batched(flatOutputs[p])]
    /\ multLayers = SyntheticLayers(config)
    /\ \A g \in DOMAIN gates :
         gates[g].kind = "mult" =>
           /\ ReadyAfter[gates[g].left] < MultLayerOf(g)
           /\ ReadyAfter[gates[g].right] < MultLayerOf(g)

\* FromConfig returns, throws or is undefined; it is never stuck in a loop, nor
\* by the order of its calls where the builder insists on one (Disciplined).
Returns == pc = "validate" ~> pc \in {"ready", "thrown", "undefined"}
=============================================================================
