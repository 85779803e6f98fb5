-------------------------- MODULE MCCircuitBuilder --------------------------
(* Small instances for TLC, of the builder and both its callers: FromConfig *)
(* with every configuration of two parties with up to two inputs and two    *)
(* outputs each, layers up to four wide and three deep, and the ones whose  *)
(* vectors have the wrong length; and any caller that keeps to the order    *)
(* the comments ask for, as long as the circuit is small.                   *)
EXTENDS FromConfig

\* Two clients: enough for one to be left out when the other's gates are
\* batched, and for gates of both to alternate.
TwoClients == {0, 1}

Counts == UNION { [1 .. n -> 0 .. 2] : n \in 1 .. 2 }

SmallConfigs ==
  [n : {2}, inp : Counts, out : Counts, width : 0 .. 4, depth : 0 .. 3]

CONSTANTS FewGates, FewLayers  \* bounds of the circuits another caller makes

AnyInit ==
  /\ Init
  /\ pc = "other caller"
  /\ config = [n |-> 2, inp |-> << 0, 0 >>, out |-> << 0, 0 >>, width |-> 0, depth |-> 0]
  /\ party = 0 /\ item = 0 /\ depth = 0 /\ ctr = 0

AnyCaller ==
  /\ pc = "other caller"
  /\ Next
  /\ Len(gates') <= FewGates /\ Len(multLayers') <= FewLayers
  /\ UNCHANGED local

CallersSpec ==
  (FCInit \/ AnyInit) /\ [][FCNext \/ AnyCaller]_fcVars /\ WF_fcVars(FCNext)
=============================================================================
