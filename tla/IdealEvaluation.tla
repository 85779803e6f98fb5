-------------------------- MODULE IdealEvaluation --------------------------
(***************************************************************************)
(* What running a circuit promises: every output gate's owner ends up with *)
(* the value the circuit has in the clear on the parties' inputs, and      *)
(* never holds another one.  The value in the clear is the code's own      *)
(* reference, GetClear of the gates, against which its experiments and     *)
(* tests compare the outputs of the protocol.                              *)
(***************************************************************************)
EXTENDS Integers, Sequences

CONSTANTS P,      \* the order of the field
          gates,  \* the gates of a circuit, as CircuitBuilder makes one
          None    \* an output that has not arrived

VARIABLES input,  \* input gate  -> value its owner provides
          value   \* output gate -> value its owner has obtained, or None

GateIds == 1 .. Len(gates)
OfKind(kind) == { g \in GateIds : gates[g].kind = kind }

\* GetClear, of every gate.
Clear ==
  LET clear[g \in GateIds] ==
        LET gate == gates[g]
        IN  CASE gate.kind = "input"  -> input[g]
              [] gate.kind = "add"    -> (clear[gate.left] + clear[gate.right]) % P
              [] gate.kind = "mult"   -> (clear[gate.left] * clear[gate.right]) % P
              [] gate.kind = "output" -> clear[gate.left]
  IN  clear

Init ==
  /\ input \in [OfKind("input") -> 0 .. P - 1]
  /\ value = [g \in OfKind("output") |-> None]

Deliver(g) ==
  /\ value[g] = None
  /\ value' = [value EXCEPT ![g] = Clear[g]]
  /\ UNCHANGED input

Next == \E g \in OfKind("output") : Deliver(g)

Spec == Init /\ [][Next]_<< input, value >> /\ WF_<< input, value >>(Next)
=============================================================================
