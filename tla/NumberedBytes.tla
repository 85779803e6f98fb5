--------------------------- MODULE NumberedBytes ---------------------------
(***************************************************************************)
(* What goes into a channel: bytes that are numbered in the order they are *)
(* sent, so that byte b is the number b.                                   *)
(***************************************************************************)
EXTENDS Naturals, Sequences

CONSTANT MaxBytes  \* bound: the bytes ever sent

ASSUME BoundsAssumption == MaxBytes \in Nat

VARIABLE nSent  \* how many bytes have been sent

Bytes(a, b) == [i \in 1 .. b - a + 1 |-> a + i - 1]
Past(s, n) == SubSeq(s, n + 1, Len(s))
=============================================================================
