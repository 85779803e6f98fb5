----------------------------- MODULE ByteStream -----------------------------
(***************************************************************************)
(* What one direction of a channel promises (scl::Channel): the bytes that *)
(* leave at one end are the bytes that went in at the other, in that order *)
(* and each of them once.  A channel may still hold some of them.          *)
(***************************************************************************)
EXTENDS Naturals, Sequences, SequencesExt

CONSTANT Byte

VARIABLES sent, received  \* everything that went in, and that came out

streamVars == << sent, received >>

Init == sent = << >> /\ received = << >>

Write ==
  /\ Len(sent') > Len(sent) /\ IsPrefix(sent, sent')
  /\ sent' \in Seq(Byte)
  /\ UNCHANGED received

Read ==
  /\ Len(received') > Len(received) /\ IsPrefix(received, received')
  /\ IsPrefix(received', sent)
  /\ UNCHANGED sent

Next == Write \/ Read

Spec == Init /\ [][Next]_streamVars
=============================================================================
