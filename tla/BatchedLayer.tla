---------------------------- MODULE BatchedLayer ----------------------------
(***************************************************************************)
(* The list of batches that InputLayer, OutputLayer and MultLayer keep     *)
(* (src/src/tp/{input,output,mult}_gate.h).  The three classes are the     *)
(* same code over three gate types: a layer is a sequence of batches, a    *)
(* batch a sequence of at most BatchSize gates.  Gates are identified by   *)
(* the order in which the circuit created them; the padding gates a layer  *)
(* is closed with are all the one value Pad, since nothing tells two of    *)
(* them apart (their mu and their lambda are overridden to be 0).          *)
(***************************************************************************)
EXTENDS Integers, Sequences

CONSTANTS BatchSize,  \* k, the number of gates of a full batch
          Pad         \* a PadInputGate, PadOutputGate or PadMultGate

ASSUME BatchSizeAssumption == BatchSize \in Nat \ {0}
ASSUME PadAssumption == Pad \notin Nat

Gate  == Nat \cup {Pad}
Batch == Seq(Gate)
Layer == Seq(Batch)

\* The constructors open a first, empty batch.
EmptyLayer == << << >> >>

\* Fault: a batch closes with a gate too few.
HasRoomTight(batch) == Len(batch) < BatchSize - 1

HasRoom(batch) == Len(batch) < BatchSize

LastBatch(layer) == layer[Len(layer)]

\* Fault: the gate that finds the last batch full is lost.
LayerAppendDropping(layer, g) ==
  IF HasRoom(LastBatch(layer))
  THEN [layer EXCEPT ![Len(layer)] = Append(@, g)]
  ELSE Append(layer, << >>)

\* Append to the last batch if it has room, else open a batch for the gate.
LayerAppend(layer, g) ==
  IF HasRoom(LastBatch(layer))
  THEN [layer EXCEPT ![Len(layer)] = Append(@, g)]
  ELSE Append(layer, << g >>)

\* Fill the last batch up with the padding gate.
Padded(batch) == [s \in 1 .. BatchSize |-> IF s <= Len(batch) THEN batch[s] ELSE Pad]

LayerClose(layer) ==
  IF HasRoom(LastBatch(layer))
  THEN [layer EXCEPT ![Len(layer)] = Padded(@)]
  ELSE layer

-----------------------------------------------------------------------------
(***************************************************************************)
(* What a layer must look like, whatever the calls that built it.          *)
(***************************************************************************)

\* No batch is overfull and only the last one may have room.
Shaped(layer) ==
  /\ layer # << >>
  /\ \A b \in 1 .. Len(layer) : Len(layer[b]) <= BatchSize
  /\ \A b \in 1 .. Len(layer) - 1 : Len(layer[b]) = BatchSize

\* The position in the flat list of gates of slot s of batch b.
Position(b, s) == (b - 1) * BatchSize + s

\* The batches are the flat list cut into runs of BatchSize gates, with
\* nothing but padding behind it.
Aligned(layer, flat) ==
  \A b \in 1 .. Len(layer) : \A s \in 1 .. Len(layer[b]) :
    layer[b][s] = IF Position(b, s) <= Len(flat) THEN flat[Position(b, s)] ELSE Pad

\* A layer that still takes gates: it holds those of the flat list, no others,
\* and has no batch without a gate but the first.
OpenFor(layer, flat) ==
  /\ Shaped(layer)
  /\ Aligned(layer, flat)
  /\ Len(layer) = 1 \/ LastBatch(layer) # << >>
  /\ Len(flat) = Position(Len(layer), Len(LastBatch(layer)))

\* A layer every batch of which is full, the gates of the flat list first, and
\* no batch is all padding but that of a layer without gates.
ClosedFor(layer, flat) ==
  /\ Shaped(layer)
  /\ Aligned(layer, flat)
  /\ Len(LastBatch(layer)) = BatchSize
  /\ Len(layer) = 1 \/ Position(Len(layer), 0) < Len(flat)
  /\ Len(flat) <= Position(Len(layer), BatchSize)

IsFull(layer) == \A b \in 1 .. Len(layer) : Len(layer[b]) = BatchSize
=============================================================================
