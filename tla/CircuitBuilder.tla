--------------------------- MODULE CircuitBuilder ---------------------------
(***************************************************************************)
(* How a caller assembles a tp::Circuit (src/src/tp/circuits.h and         *)
(* src/src/tp/circuits/building.cc): one action per public call.  A circuit *)
(* keeps every input, output and multiplication gate twice, in a flat list *)
(* and in a batch of a layer, and the rest of the program moves between    *)
(* the two views: preprocessing and the protocol walk the batches, inputs, *)
(* outputs and GetMultGate index the flat lists.                           *)
(*                                                                         *)
(* The class checks the order of the calls in one place only (SetNetwork). *)
(* Disciplined = TRUE restricts the caller to the order its comments ask   *)
(* for and every caller in the repository follows: nothing is added to a   *)
(* list of layers once it is closed, and CloseOutputs, which declares the  *)
(* circuit closed, comes last.  Disciplined = FALSE allows any order.      *)
(***************************************************************************)
EXTENDS BatchedLayer

CONSTANTS Clients,      \* the party ids 0 .. n_clients - 1
          Disciplined,  \* whether the caller keeps to the documented order
          MaxGates,     \* bound: gates a circuit may have
          MaxLayers     \* bound: multiplication layers and calls that open one

ASSUME DisciplinedAssumption == Disciplined \in BOOLEAN
ASSUME BoundsAssumption == MaxGates \in Nat /\ MaxLayers \in Nat

VARIABLES
  gates,         \* every gate in creation order; a gate is its index
  inputLayers,   \* mInputLayers:    client -> layer
  flatInputs,    \* mFlatInputGates: client -> sequence of gates
  outputLayers,  \* mOutputLayers
  flatOutputs,   \* mFlatOutputGates
  multLayers,    \* mMultLayers:     sequence of layers
  flatMult,      \* mFlatMultLayers: sequence of sequences of gates
  width,         \* mWidth
  isClosed,      \* mIsClosed
  networkSet,    \* mIsNetworkSet
  inputsDone,    \* the caller has called CloseInputs   (not in the code)
  layersDone     \* the caller has called LastLayer     (not in the code)

ioVars   == << inputLayers, flatInputs, outputLayers, flatOutputs >>
multVars == << multLayers, flatMult, width >>
flags    == << isClosed, networkSet, inputsDone, layersDone >>
vars     == << gates, ioVars, multVars, flags >>

InputGates  == [kind : {"input"},  owner : Clients]
OutputGates == [kind : {"output"}, owner : Clients, left : Nat]
AddGates    == [kind : {"add"},    left : Nat, right : Nat]
MultGates   == [kind : {"mult"},   left : Nat, right : Nat]

\* The gates whose output another gate may take as its parent.
Wires == { g \in 1 .. Len(gates) : gates[g].kind # "output" }

Init ==
  /\ gates = << >>
  /\ inputLayers  = [c \in Clients |-> EmptyLayer]
  /\ flatInputs   = [c \in Clients |-> << >>]
  /\ outputLayers = [c \in Clients |-> EmptyLayer]
  /\ flatOutputs  = [c \in Clients |-> << >>]
  /\ multLayers = << EmptyLayer >>
  /\ flatMult = << << >> >>
  /\ width = 0
  /\ isClosed = FALSE
  /\ networkSet = FALSE
  /\ inputsDone = FALSE
  /\ layersDone = FALSE
-----------------------------------------------------------------------------
\* The identity of the gate the next call creates.
NextGate == Len(gates) + 1

Create(gate) ==
  /\ Len(gates) < MaxGates
  /\ gates' = Append(gates, gate)

Input(c) ==
  /\ Disciplined => ~inputsDone
  /\ Create([kind |-> "input", owner |-> c])
  /\ inputLayers' = [inputLayers EXCEPT ![c] = LayerAppend(@, NextGate)]
  /\ flatInputs' = [flatInputs EXCEPT ![c] = Append(@, NextGate)]
  /\ UNCHANGED << outputLayers, flatOutputs, multVars, flags >>

Output(c, left) ==
  /\ Disciplined => ~isClosed
  /\ Create([kind |-> "output", owner |-> c, left |-> left])
  /\ outputLayers' = [outputLayers EXCEPT ![c] = LayerAppend(@, NextGate)]
  /\ flatOutputs' = [flatOutputs EXCEPT ![c] = Append(@, NextGate)]
  /\ UNCHANGED << inputLayers, flatInputs, multVars, flags >>

Add(left, right) ==
  /\ Create([kind |-> "add", left |-> left, right |-> right])
  /\ UNCHANGED << ioVars, multVars, flags >>

\* mMultLayers.back() and mFlatMultLayers.back(): after LastLayer the two are
\* not the same layer any more.
Mult(left, right) ==
  /\ Disciplined => ~layersDone
  /\ Create([kind |-> "mult", left |-> left, right |-> right])
  /\ multLayers' = [multLayers EXCEPT ![Len(multLayers)] = LayerAppend(@, NextGate)]
  /\ flatMult' = [flatMult EXCEPT ![Len(flatMult)] = Append(@, NextGate)]
  /\ UNCHANGED << ioVars, width, flags >>

\* Fault: the index of the last gate, not compared with what is there.
WidthByIndex(flat) == Len(flat) - 1

\* The widest layer so far, the current one included.
WidthWith(flat) == IF width < Len(flat) THEN Len(flat) ELSE width

CurrentLayerClosed ==
  [multLayers EXCEPT ![Len(multLayers)] = LayerClose(@)]

NewLayer ==
  /\ Disciplined => ~layersDone
  /\ Len(flatMult) < MaxLayers
  /\ width' = WidthWith(flatMult[Len(flatMult)])
  /\ flatMult' = Append(flatMult, << >>)
  /\ multLayers' = Append(CurrentLayerClosed, EmptyLayer)
  /\ UNCHANGED << gates, ioVars, flags >>

\* Unlike NewLayer it opens a flat layer and no batched one.
LastLayer ==
  /\ Disciplined => ~layersDone
  /\ Len(flatMult) <= MaxLayers
  /\ width' = WidthWith(flatMult[Len(flatMult)])
  /\ flatMult' = Append(flatMult, << >>)
  /\ multLayers' = CurrentLayerClosed
  /\ layersDone' = TRUE
  /\ UNCHANGED << gates, ioVars, isClosed, networkSet, inputsDone >>

CloseInputs ==
  /\ Disciplined => ~inputsDone
  /\ inputLayers' = [c \in Clients |-> LayerClose(inputLayers[c])]
  /\ inputsDone' = TRUE
  /\ UNCHANGED << gates, flatInputs, outputLayers, flatOutputs, multVars,
                  isClosed, networkSet, layersDone >>

CloseOutputs ==
  /\ Disciplined => ~isClosed /\ inputsDone /\ layersDone
  /\ outputLayers' = [c \in Clients |-> LayerClose(outputLayers[c])]
  /\ isClosed' = TRUE
  /\ UNCHANGED << gates, inputLayers, flatInputs, flatOutputs, multVars,
                  networkSet, inputsDone, layersDone >>

\* Throws, changing nothing, unless isClosed.
SetNetwork ==
  /\ isClosed
  /\ networkSet' = TRUE
  /\ UNCHANGED << gates, ioVars, multVars, isClosed, inputsDone, layersDone >>

Next ==
  \/ \E c \in Clients : Input(c)
  \/ \E c \in Clients, w \in Wires : Output(c, w)
  \/ \E l, r \in Wires : Add(l, r)
  \/ \E l, r \in Wires : Mult(l, r)
  \/ NewLayer
  \/ LastLayer
  \/ CloseInputs
  \/ CloseOutputs
  \/ SetNetwork

Spec == Init /\ [][Next]_vars
-----------------------------------------------------------------------------
TypeOK ==
  /\ gates \in Seq(InputGates \cup OutputGates \cup AddGates \cup MultGates)
  /\ inputLayers \in [Clients -> Layer]
  /\ flatInputs \in [Clients -> Seq(Nat)]
  /\ outputLayers \in [Clients -> Layer]
  /\ flatOutputs \in [Clients -> Seq(Nat)]
  /\ multLayers \in Seq(Layer)
  /\ flatMult \in Seq(Seq(Nat))
  /\ width \in Nat
  /\ isClosed \in BOOLEAN
  /\ networkSet \in BOOLEAN
  /\ inputsDone \in BOOLEAN
  /\ layersDone \in BOOLEAN

\* Whatever the order of the calls, no batch holds more than BatchSize gates
\* and no batch before the last one of its layer has room: Append of a full
\* batch would throw, and MultBatch::P1Receives indexes BatchSize gates.
BatchesShaped ==
  /\ \A c \in Clients : Shaped(inputLayers[c]) /\ Shaped(outputLayers[c])
  /\ \A l \in 1 .. Len(multLayers) : Shaped(multLayers[l])

\* The places of gate g in a layer, as pairs of a batch and a slot.
Places(layer, g) ==
  UNION { { << b, s >> : s \in { s \in 1 .. Len(layer[b]) : layer[b][s] = g } } :
            b \in 1 .. Len(layer) }

\* Whatever the order of the calls, every multiplication gate is in exactly
\* one slot of one layer, and every input and output gate in exactly one slot
\* of its owner's: no gate is dropped or batched twice by a close that comes
\* between two appends.
EveryGateBatchedOnce ==
  \A g \in 1 .. Len(gates) :
    LET owned(layers) == UNION { { << c, p >> : p \in Places(layers[c], g) } : c \in Clients }
        layered == UNION { { << l, p >> : p \in Places(multLayers[l], g) } :
                             l \in 1 .. Len(multLayers) }
        once(S) == \E x \in S : S = {x}
    IN  CASE gates[g].kind = "input"  -> once(owned(inputLayers))
                                         /\ Places(inputLayers[gates[g].owner], g) # {}
          [] gates[g].kind = "output" -> once(owned(outputLayers))
                                         /\ Places(outputLayers[gates[g].owner], g) # {}
          [] gates[g].kind = "mult"   -> once(layered)
          [] OTHER -> owned(inputLayers) = {} /\ owned(outputLayers) = {} /\ layered = {}

\* GetMultGate(layer, idx) reads the flat list; the assertion it keeps in a
\* comment (src/src/tp/circuits.h:107, "PASSES") says that the batched view
\* has the same gate at batch idx / k, slot idx % k.
GateLookup ==
  \A l \in 1 .. Len(multLayers) : \A idx \in 0 .. Len(flatMult[l]) - 1 :
    multLayers[l][(idx \div BatchSize) + 1][(idx % BatchSize) + 1] = flatMult[l][idx + 1]

\* A circuit that has its network can be run: every batch of it is full, so
\* P1 packs BatchSize values and addresses BatchSize gates.  This is what the
\* guard of SetNetwork says it is for (src/src/tp/circuits.h:85, "Cannot set
\* network without closing the circuit first").
NetworkOnlyOnClosed ==
  networkSet =>
    /\ \A c \in Clients : IsFull(inputLayers[c]) /\ IsFull(outputLayers[c])
    /\ \A l \in 1 .. Len(multLayers) : IsFull(multLayers[l])

\* The invariant behind GateLookup and NetworkOnlyOnClosed: batched view and
\* flat view of every list agree, closed lists are padded to full batches, and
\* the flat list runs one layer ahead from LastLayer on.
ViewsAgree ==
  /\ networkSet => isClosed
  /\ isClosed => inputsDone /\ layersDone
  /\ \A c \in Clients :
       /\ ~inputsDone => OpenFor(inputLayers[c], flatInputs[c])
       /\ inputsDone => ClosedFor(inputLayers[c], flatInputs[c])
       /\ ~isClosed => OpenFor(outputLayers[c], flatOutputs[c])
       /\ isClosed => ClosedFor(outputLayers[c], flatOutputs[c])
  /\ Len(flatMult) = Len(multLayers) + (IF layersDone THEN 1 ELSE 0)
  /\ \A l \in 1 .. Len(multLayers) - 1 : ClosedFor(multLayers[l], flatMult[l])
  /\ LET l == Len(multLayers)
     IN  /\ ~layersDone => OpenFor(multLayers[l], flatMult[l])
         /\ layersDone => ClosedFor(multLayers[l], flatMult[l])
=============================================================================
