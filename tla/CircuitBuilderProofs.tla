------------------------ MODULE CircuitBuilderProofs ------------------------
(***************************************************************************)
(* Proofs about CircuitBuilder for every batch size, set of clients and    *)
(* bound: types, batch shapes and the place of every gate hold whatever    *)
(* order the caller uses; for the documented order the batched and the     *)
(* flat view of a circuit agree, so looking a gate up by index is right    *)
(* and a circuit that got its network has full batches only.               *)
(*                                                                         *)
(* And about FromConfig, for every configuration: it keeps to that order,  *)
(* leaves the defined behaviour for want of an input or of gates only, and *)
(* what it builds is the circuit that SyntheticCircuit states in closed    *)
(* form.  The invariant of its loops is FromConfigInv: every gate is the   *)
(* one of the plan, and as many are there as the loops have come past.     *)
(***************************************************************************)
EXTENDS FromConfig, StreamLemmas

-----------------------------------------------------------------------------
(* One layer: what appending to it and closing it preserve, and how a gate  *)
(* is found from its index in the flat list.                                *)

\* The layer the constructors make is a layer without gates.
LEMMA EmptyLayerOpen ==
  /\ EmptyLayer \in Layer
  /\ OpenFor(EmptyLayer, << >>)
BY BatchSizeAssumption
   DEF EmptyLayer, Layer, Batch, Gate, OpenFor, Shaped, Aligned, Position, LastBatch

\* The two outcomes of Append, batch by batch: the gate goes into the last
\* batch, or into a batch of its own behind it.
LEMMA AppendCases ==
  ASSUME NEW layer \in Layer, layer # << >>, NEW g \in Nat
  PROVE  /\ LayerAppend(layer, g) \in Layer
         /\ LayerAppend(layer, g) # << >>
         /\ HasRoom(LastBatch(layer)) =>
              /\ Len(LayerAppend(layer, g)) = Len(layer)
              /\ LastBatch(LayerAppend(layer, g)) = Append(LastBatch(layer), g)
         /\ ~HasRoom(LastBatch(layer)) =>
              /\ Len(LayerAppend(layer, g)) = Len(layer) + 1
              /\ LastBatch(LayerAppend(layer, g)) = << g >>
              /\ LayerAppend(layer, g)[Len(layer)] = LastBatch(layer)
         /\ \A b \in 1 .. Len(layer) - 1 : LayerAppend(layer, g)[b] = layer[b]
<1> DEFINE m == Len(layer)
<1>1. m \in Nat \ {0} /\ layer[m] \in Batch /\ LastBatch(layer) = layer[m]
  BY DEF Layer, LastBatch
<1>2. g \in Gate
  BY DEF Gate
<1>3. CASE HasRoom(LastBatch(layer))
  <2>1. LayerAppend(layer, g) = [layer EXCEPT ![m] = Append(layer[m], g)]
    BY <1>3 DEF LayerAppend
  <2>2. Append(layer[m], g) \in Batch
    BY <1>1, <1>2 DEF Batch
  <2>. QED
    BY <1>1, <1>3, <2>1, <2>2 DEF Layer, LastBatch
<1>4. CASE ~HasRoom(LastBatch(layer))
  <2>1. LayerAppend(layer, g) = Append(layer, << g >>)
    BY <1>4 DEF LayerAppend
  <2>2. << g >> \in Batch
    BY <1>2 DEF Batch
  <2>. QED
    BY <1>1, <1>4, <2>1, <2>2 DEF Layer, LastBatch
<1>. QED
  BY <1>3, <1>4

\* Closing changes nothing but the last batch, which it fills up.
LEMMA CloseCases ==
  ASSUME NEW layer \in Layer, layer # << >>,
         Len(LastBatch(layer)) <= BatchSize
  PROVE  /\ LayerClose(layer) \in Layer
         /\ Len(LayerClose(layer)) = Len(layer)
         /\ Len(LastBatch(LayerClose(layer))) = BatchSize
         /\ \A s \in 1 .. BatchSize :
              LastBatch(LayerClose(layer))[s] =
                IF s <= Len(LastBatch(layer)) THEN LastBatch(layer)[s] ELSE Pad
         /\ \A b \in 1 .. Len(layer) - 1 : LayerClose(layer)[b] = layer[b]
<1> DEFINE m == Len(layer)
<1>1. m \in Nat \ {0} /\ layer[m] \in Batch /\ LastBatch(layer) = layer[m]
  BY DEF Layer, LastBatch
<1>2. CASE HasRoom(LastBatch(layer))
  <2>1. LayerClose(layer) = [layer EXCEPT ![m] = Padded(layer[m])]
    BY <1>2 DEF LayerClose
  <2>2. \A s \in 1 .. Len(layer[m]) : layer[m][s] \in Gate
    BY <1>1 DEF Batch
  <2>3. Pad \in Gate
    BY DEF Gate
  <2>4. /\ Padded(layer[m]) \in [1 .. BatchSize -> Gate]
        /\ Padded(layer[m]) \in Batch
        /\ Len(Padded(layer[m])) = BatchSize
    BY <1>1, <2>2, <2>3, BatchSizeAssumption DEF Padded, Batch
  <2>5. \A s \in 1 .. BatchSize :
          Padded(layer[m])[s] = IF s <= Len(layer[m]) THEN layer[m][s] ELSE Pad
    BY DEF Padded
  <2>6. /\ LayerClose(layer) \in Layer
        /\ Len(LayerClose(layer)) = m
        /\ LayerClose(layer)[m] = Padded(layer[m])
        /\ \A b \in 1 .. m - 1 : LayerClose(layer)[b] = layer[b]
    BY <1>1, <2>1, <2>4 DEF Layer
  <2>7. LastBatch(LayerClose(layer)) = Padded(layer[m])
    BY <2>6 DEF LastBatch
  <2>. QED
    BY <1>1, <2>4, <2>5, <2>6, <2>7
<1>3. CASE ~HasRoom(LastBatch(layer))
  <2>1. LayerClose(layer) = layer
    BY <1>3 DEF LayerClose
  <2>2. Len(layer[m]) = BatchSize
    BY <1>1, <1>3, BatchSizeAssumption DEF HasRoom, Batch
  <2>. QED
    BY <1>1, <2>1, <2>2 DEF LastBatch
<1>. QED
  BY <1>2, <1>3

\* Appending keeps every batch but the last full and none overfull.
LEMMA AppendShaped ==
  ASSUME NEW layer \in Layer, Shaped(layer), NEW g \in Nat
  PROVE  Shaped(LayerAppend(layer, g))
<1> DEFINE m == Len(layer)
           new == LayerAppend(layer, g)
<1>1. layer # << >> /\ m \in Nat \ {0} /\ layer[m] \in Batch /\ LastBatch(layer) = layer[m]
  BY DEF Layer, LastBatch, Shaped
<1>2. new \in Layer /\ new # << >> /\ LastBatch(new) = new[Len(new)]
  BY <1>1, AppendCases DEF LastBatch
<1>3. \A b \in 1 .. m - 1 : new[b] = layer[b] /\ Len(new[b]) = BatchSize
  BY <1>1, AppendCases DEF Shaped
<1>4. CASE HasRoom(LastBatch(layer))
  <2>1. Len(new) = m /\ Len(new[m]) = Len(layer[m]) + 1 /\ Len(layer[m]) < BatchSize
    BY <1>1, <1>2, <1>4, AppendCases DEF HasRoom, Batch
  <2>. QED
    BY <1>1, <1>2, <1>3, <2>1, BatchSizeAssumption, SMTT(30) DEF Shaped, Batch
<1>5. CASE ~HasRoom(LastBatch(layer))
  <2>1. Len(new) = m + 1 /\ new[m + 1] = << g >> /\ new[m] = layer[m]
    BY <1>1, <1>2, <1>5, AppendCases
  <2>2. Len(new[m]) = BatchSize /\ Len(new[m + 1]) <= BatchSize
    BY <1>1, <1>5, <2>1, BatchSizeAssumption DEF HasRoom, Batch, Shaped
  <2>3. \A b \in 1 .. m : Len(new[b]) = BatchSize
    BY <1>1, <1>3, <2>2
  <2>4. \A b \in 1 .. Len(new) : b \in 1 .. m \/ b = m + 1
    BY <1>1, <2>1
  <2>5. \A b \in 1 .. Len(new) : Len(new[b]) <= BatchSize
    BY <2>2, <2>3, <2>4, BatchSizeAssumption
  <2>6. Len(new) - 1 = m
    BY <1>1, <2>1
  <2>. QED
    BY <1>2, <2>3, <2>5, <2>6 DEF Shaped
<1>. QED
  BY <1>4, <1>5

\* Closing keeps the shape and leaves no room anywhere.
LEMMA CloseShaped ==
  ASSUME NEW layer \in Layer, Shaped(layer)
  PROVE  Shaped(LayerClose(layer)) /\ IsFull(LayerClose(layer))
<1> DEFINE m == Len(layer)
           new == LayerClose(layer)
<1>1. layer # << >> /\ m \in Nat \ {0} /\ LastBatch(layer) = layer[m]
  BY DEF Layer, LastBatch, Shaped
<1>2. Len(LastBatch(layer)) <= BatchSize
  BY <1>1 DEF Shaped
<1>3. new \in Layer /\ Len(new) = m /\ Len(new[m]) = BatchSize
  BY <1>1, <1>2, CloseCases DEF LastBatch
<1>4. \A b \in 1 .. m - 1 : Len(new[b]) = BatchSize
  BY <1>1, <1>2, CloseCases DEF Shaped
<1>. QED
  BY <1>1, <1>3, <1>4, BatchSizeAssumption DEF Shaped, IsFull, Layer

\* Positions grow by one from slot to slot and run on into the next batch.
LEMMA PositionStep ==
  ASSUME NEW b \in Nat, NEW s \in Nat
  PROVE  /\ Position(b, s) \in Int
         /\ Position(b, s + 1) = Position(b, s) + 1
         /\ Position(b + 1, 0) = Position(b, BatchSize)
         /\ b >= 1 /\ s >= 1 => Position(b, s) >= 1
<1>1. BatchSize \in Nat \ {0} /\ b * BatchSize \in Nat
  BY BatchSizeAssumption
<1>2. (b - 1) * BatchSize = b * BatchSize - BatchSize /\ ((b + 1) - 1) * BatchSize = b * BatchSize
  BY <1>1
<1>3. b >= 1 => (b - 1) * BatchSize >= 0
  BY <1>1
<1>. QED
  BY <1>1, <1>2, <1>3 DEF Position

\* Within a batch, positions are ordered as the slots.
LEMMA PositionWithin ==
  ASSUME NEW b \in Nat, NEW s \in Nat, NEW t \in Nat
  PROVE  /\ s <= t => Position(b, s) <= Position(b, t)
         /\ s < t => Position(b, s) < Position(b, t)
<1>1. (b - 1) * BatchSize \in Int
  BY BatchSizeAssumption
<1>. QED
  BY <1>1 DEF Position

\* Every position of a batch comes before those of the batches behind it.
LEMMA PositionAcross ==
  ASSUME NEW b \in Nat, NEW c \in Nat, b < c, NEW s \in Nat, s <= BatchSize, NEW t \in Nat
  PROVE  Position(b, s) <= Position(c, t)
<1>1. BatchSize \in Nat \ {0}
  BY BatchSizeAssumption
<1>2. (c - 1 - b) * BatchSize >= 0
  BY <1>1
<1>3. (c - 1) * BatchSize = (c - 1 - b) * BatchSize + (b - 1) * BatchSize + BatchSize
  BY <1>1
<1>4. (b - 1) * BatchSize \in Int /\ (c - 1) * BatchSize \in Int /\ (c - 1 - b) * BatchSize \in Int
  BY <1>1
<1>. QED
  BY <1>1, <1>2, <1>3, <1>4 DEF Position

\* Appending to a layer and to its flat list keeps the two views the same.
LEMMA AppendOpen ==
  ASSUME NEW layer \in Layer, NEW flat \in Seq(Nat), OpenFor(layer, flat), NEW g \in Nat
  PROVE  OpenFor(LayerAppend(layer, g), Append(flat, g))
<1> DEFINE m == Len(layer)
           r == Len(layer[m])
           new == LayerAppend(layer, g)
           longer == Append(flat, g)
<1>1. /\ layer # << >> /\ m \in Nat \ {0} /\ layer[m] \in Batch /\ r \in Nat
      /\ r <= BatchSize /\ LastBatch(layer) = layer[m]
  BY DEF Layer, LastBatch, OpenFor, Shaped, Batch
<1>2. /\ Shaped(new) /\ new \in Layer
      /\ LastBatch(new) = new[Len(new)]
  BY <1>1, AppendShaped, AppendCases DEF OpenFor, LastBatch
<1>3. Len(flat) = Position(m, r) /\ Len(flat) \in Nat
  BY <1>1 DEF OpenFor
<1>4. Len(longer) = Position(m, r) + 1 /\ longer[Position(m, r) + 1] = g
      /\ \A i \in 1 .. Len(flat) : longer[i] = flat[i]
  BY <1>3
<1>5. \A b \in 1 .. m - 1 : new[b] = layer[b]
  BY <1>1, AppendCases
<1>6. \A b \in 1 .. m : layer[b] \in Batch /\ Len(layer[b]) \in Nat /\ Len(layer[b]) <= BatchSize
  BY <1>1 DEF Layer, Batch, OpenFor, Shaped
<1>7. \A b \in 1 .. m : \A s \in 1 .. Len(layer[b]) :
        /\ Position(b, s) <= Len(longer)
        /\ layer[b][s] = longer[Position(b, s)]
  <2> SUFFICES ASSUME NEW b \in 1 .. m, NEW s \in 1 .. Len(layer[b])
               PROVE  /\ Position(b, s) <= Len(longer)
                      /\ layer[b][s] = longer[Position(b, s)]
    OBVIOUS
  <2>1. b \in Nat /\ s \in Nat /\ s <= BatchSize /\ 1 <= b /\ b <= m
    BY <1>1, <1>6, BatchSizeAssumption
  <2>2. Position(b, s) <= Len(flat)
    <3>1. CASE b < m
      <4>1. Position(b, s) <= Position(m, r)
        BY <1>1, <2>1, <3>1, PositionAcross
      <4>. QED
        BY <1>3, <4>1
    <3>2. CASE b = m
      <4>1. s <= r
        BY <3>2
      <4>2. Position(m, s) <= Position(m, r)
        BY <1>1, <2>1, <4>1, PositionWithin
      <4>. QED
        BY <1>3, <3>2, <4>2
    <3>. QED
      BY <1>1, <2>1, <3>1, <3>2
  <2>3. Position(b, s) >= 1
    BY <2>1, PositionStep
  <2>4. layer[b][s] = flat[Position(b, s)]
    BY <1>1, <2>2 DEF OpenFor, Aligned
  <2>5. Position(b, s) \in 1 .. Len(flat)
    BY <1>3, <2>1, <2>2, <2>3, PositionStep
  <2>. QED
    BY <1>3, <1>4, <2>4, <2>5
<1>8. CASE HasRoom(LastBatch(layer))
  <2>1. Len(new) = m /\ new[m] = Append(layer[m], g) /\ Len(new[m]) = r + 1
    BY <1>1, <1>2, <1>8, AppendCases DEF Batch
  <2>2. Len(longer) = Position(Len(new), Len(LastBatch(new)))
    <3>1. Position(m, r + 1) = Position(m, r) + 1
      BY <1>1, PositionStep
    <3>. QED
      BY <1>2, <1>4, <2>1, <3>1
  <2>3. ASSUME NEW b \in 1 .. Len(new), NEW s \in 1 .. Len(new[b])
        PROVE  Position(b, s) <= Len(longer) /\ new[b][s] = longer[Position(b, s)]
    <3>1. CASE b < m
      <4>1. b \in 1 .. m /\ b \in 1 .. m - 1 /\ new[b] = layer[b]
        BY <1>1, <1>5, <2>1, <2>3, <3>1
      <4>2. s \in 1 .. Len(layer[b])
        BY <2>3, <4>1
      <4>. QED
        BY <1>7, <4>1, <4>2
    <3>2. CASE b = m /\ s <= r
      <4>1. m \in 1 .. m /\ s \in 1 .. r
        BY <1>1, <2>1, <2>3, <3>2
      <4>2. new[m][s] = layer[m][s]
        BY <1>1, <2>1, <4>1 DEF Batch
      <4>. QED
        BY <1>7, <3>2, <4>1, <4>2
    <3>3. CASE b = m /\ s = r + 1
      <4>1. Position(b, s) = Position(m, r) + 1
        BY <1>1, <3>3, PositionStep
      <4>2. new[b][s] = g
        BY <1>1, <2>1, <3>3 DEF Batch
      <4>. QED
        BY <1>3, <1>4, <4>1, <4>2
    <3>4. b < m \/ (b = m /\ s <= r) \/ (b = m /\ s = r + 1)
      <4>1. b \in 1 .. m
        BY <2>1
      <4>2. b = m => s \in 1 .. r + 1
        BY <2>1
      <4>. QED
        BY <1>1, <4>1, <4>2
    <3>. QED
      BY <3>1, <3>2, <3>3, <3>4
  <2>4. LastBatch(new) # << >>
    BY <1>1, <1>2, <2>1
  <2>. QED
    BY <1>2, <2>2, <2>3, <2>4 DEF OpenFor, Aligned
<1>9. CASE ~HasRoom(LastBatch(layer))
  <2>1. Len(new) = m + 1 /\ new[m + 1] = << g >> /\ new[m] = layer[m] /\ r = BatchSize
    BY <1>1, <1>2, <1>9, BatchSizeAssumption, AppendCases DEF HasRoom
  <2>2. Position(m + 1, 1) = Position(m, r) + 1
    <3>1. Position(m + 1, 0) = Position(m, r)
      BY <1>1, <2>1, PositionStep
    <3>2. Position(m + 1, 0 + 1) = Position(m + 1, 0) + 1
      BY <1>1, PositionStep
    <3>. QED
      BY <3>1, <3>2
  <2>3. Len(longer) = Position(Len(new), Len(LastBatch(new)))
    BY <1>2, <1>4, <2>1, <2>2
  <2>4. ASSUME NEW b \in 1 .. Len(new), NEW s \in 1 .. Len(new[b])
        PROVE  Position(b, s) <= Len(longer) /\ new[b][s] = longer[Position(b, s)]
    <3>1. CASE b \in 1 .. m
      <4>1. new[b] = layer[b]
        <5>1. CASE b \in 1 .. m - 1
          BY <1>5, <5>1
        <5>2. CASE b = m
          BY <2>1, <5>2
        <5>. QED
          BY <1>1, <3>1, <5>1, <5>2
      <4>2. s \in 1 .. Len(layer[b])
        BY <4>1
      <4>. QED
        BY <1>7, <3>1, <4>1, <4>2
    <3>2. CASE b = m + 1
      <4>1. s = 1 /\ new[b][s] = g
        <5>1. new[b] = << g >>
          BY <2>1, <3>2
        <5>2. Len(<< g >>) = 1 /\ << g >>[1] = g
          OBVIOUS
        <5>3. s \in 1 .. 1
          BY <2>4, <5>1, <5>2
        <5>. QED
          BY <5>1, <5>2, <5>3
      <4>2. Position(b, s) = Position(m, r) + 1
        BY <2>2, <3>2, <4>1
      <4>. QED
        BY <1>3, <1>4, <4>1, <4>2
    <3>3. b \in 1 .. m \/ b = m + 1
      BY <1>1, <2>1
    <3>. QED
      BY <3>1, <3>2, <3>3
  <2>5. LastBatch(new) # << >>
    BY <1>2, <2>1
  <2>. QED
    BY <1>2, <2>3, <2>4, <2>5 DEF OpenFor, Aligned
<1>. QED
  BY <1>8, <1>9

\* Closing an open layer leaves its flat list at the front of full batches.
LEMMA CloseOpen ==
  ASSUME NEW layer \in Layer, NEW flat \in Seq(Nat), OpenFor(layer, flat)
  PROVE  ClosedFor(LayerClose(layer), flat)
<1> DEFINE m == Len(layer)
           r == Len(layer[m])
           new == LayerClose(layer)
<1>1. /\ layer # << >> /\ m \in Nat \ {0} /\ layer[m] \in Batch /\ r \in Nat
      /\ r <= BatchSize /\ LastBatch(layer) = layer[m]
  BY DEF Layer, LastBatch, OpenFor, Shaped, Batch
<1>2. Shaped(new) /\ LastBatch(new) = new[Len(new)]
  BY CloseShaped DEF OpenFor, LastBatch
<1>3. /\ Len(new) = m /\ Len(new[m]) = BatchSize
      /\ \A s \in 1 .. BatchSize : new[m][s] = IF s <= r THEN layer[m][s] ELSE Pad
      /\ \A b \in 1 .. m - 1 : new[b] = layer[b]
  BY <1>1, CloseCases DEF LastBatch
<1>4. Len(flat) = Position(m, r)
  BY <1>1 DEF OpenFor
<1>5. /\ m = 1 \/ Position(m, 0) < Len(flat)
      /\ Len(flat) <= Position(m, BatchSize)
  <2>1. m = 1 \/ r # 0
    BY <1>1 DEF OpenFor, Batch
  <2>. QED
    BY <1>1, <1>4, <2>1, BatchSizeAssumption, PositionWithin
<1>6. ASSUME NEW b \in 1 .. m, NEW s \in 1 .. Len(new[b])
      PROVE  new[b][s] = IF Position(b, s) <= Len(flat) THEN flat[Position(b, s)] ELSE Pad
  <2>1. CASE b \in 1 .. m - 1
    <3>1. new[b] = layer[b]
      BY <1>3, <2>1
    <3>. QED
      BY <3>1 DEF OpenFor, Aligned
  <2>2. CASE b = m /\ s <= r
    <3>1. s \in 1 .. Len(layer[m]) /\ s \in 1 .. BatchSize
      BY <1>1, <1>3, <2>2
    <3>2. new[m][s] = layer[m][s]
      BY <1>3, <2>2, <3>1
    <3>. QED
      BY <1>1, <2>2, <3>1, <3>2 DEF OpenFor, Aligned
  <2>3. CASE b = m /\ s > r
    <3>1. s \in 1 .. BatchSize /\ s \in Nat /\ r + 1 <= s
      BY <1>1, <1>3, <2>3, BatchSizeAssumption
    <3>2. new[m][s] = Pad
      BY <1>1, <1>3, <2>3, <3>1
    <3>3. Position(m, r) < Position(m, s) /\ Position(m, r) \in Int /\ Position(m, s) \in Int
      BY <1>1, <2>3, <3>1, PositionWithin, PositionStep
    <3>4. ~(Position(m, s) <= Len(flat))
      BY <1>4, <3>3
    <3>. QED
      BY <2>3, <3>2, <3>4
  <2>4. b \in 1 .. m - 1 \/ (b = m /\ s <= r) \/ (b = m /\ s > r)
    <3>1. b = m => s \in 1 .. BatchSize
      BY <1>3
    <3>. QED
      BY <1>1, <3>1, BatchSizeAssumption
  <2>. QED
    BY <2>1, <2>2, <2>3, <2>4
<1>. QED
  BY <1>2, <1>3, <1>5, <1>6 DEF ClosedFor, Aligned

\* Batch idx / k, slot idx % k holds the gate at index idx of the flat list.
LEMMA LookupByIndex ==
  ASSUME NEW layer \in Layer, NEW flat \in Seq(Nat),
         OpenFor(layer, flat) \/ ClosedFor(layer, flat),
         NEW idx \in 0 .. Len(flat) - 1
  PROVE  layer[(idx \div BatchSize) + 1][(idx % BatchSize) + 1] = flat[idx + 1]
<1> DEFINE m == Len(layer)
           r == Len(layer[m])
<1>1. /\ m \in Nat \ {0} /\ r \in Nat /\ r <= BatchSize /\ LastBatch(layer) = layer[m]
      /\ Shaped(layer) /\ Aligned(layer, flat)
  BY DEF Layer, LastBatch, OpenFor, ClosedFor, Shaped, Batch
<1>2. PICK q \in Nat, s \in Nat :
        /\ q = idx \div BatchSize /\ s = idx % BatchSize
        /\ s < BatchSize /\ idx = q * BatchSize + s
  <2>1. idx \in Nat /\ BatchSize \in Nat /\ BatchSize > 0
    BY BatchSizeAssumption
  <2>2. /\ idx \div BatchSize \in Nat /\ idx % BatchSize \in Nat /\ idx % BatchSize < BatchSize
        /\ idx = (idx \div BatchSize) * BatchSize + (idx % BatchSize)
    BY <2>1
  <2>. QED
    BY <2>2
<1>3. Position(q + 1, s + 1) = idx + 1 /\ Position(q + 1, s) = idx /\ Position(q + 1, 0) <= idx
  <2>1. (q + 1 - 1) * BatchSize = q * BatchSize /\ q * BatchSize \in Nat
    BY BatchSizeAssumption
  <2>. QED
    BY <1>2, <2>1 DEF Position
<1>4. Len(flat) <= Position(m, r) /\ Position(m, r) \in Int /\ idx < Len(flat)
  <2>1. Len(flat) = Position(m, r) \/ (Len(flat) <= Position(m, BatchSize) /\ r = BatchSize)
    BY <1>1 DEF OpenFor, ClosedFor
  <2>2. Position(m, r) \in Int
    BY <1>1, PositionStep
  <2>. QED
    BY <2>1, <2>2
<1> HIDE DEF m, r
<1>5. q + 1 <= m
  <2>1. SUFFICES ASSUME m < q + 1 PROVE FALSE
    BY <1>1, <1>2
  <2>2. Position(m, r) <= Position(q + 1, 0)
    BY <1>1, <1>2, <2>1, PositionAcross
  <2>3. Position(q + 1, 0) \in Int
    BY <1>2, PositionStep
  <2>. QED
    BY <1>3, <1>4, <2>2, <2>3
<1>6. s + 1 <= Len(layer[q + 1])
  <2>1. CASE q + 1 < m
    <3>1. q + 1 \in 1 .. Len(layer) - 1
      BY <1>1, <1>2, <2>1 DEF m
    <3>2. Len(layer[q + 1]) = BatchSize
      BY <1>1, <3>1 DEF Shaped
    <3>. QED
      BY <1>2, <3>2, BatchSizeAssumption
  <2>2. CASE q + 1 = m
    <3>1. SUFFICES ASSUME r <= s PROVE FALSE
      BY <1>1, <1>2, <2>2 DEF r
    <3>2. Position(m, r) <= Position(m, s)
      BY <1>1, <1>2, <3>1, PositionWithin
    <3>. QED
      BY <1>3, <1>4, <2>2, <3>2
  <2>3. q + 1 < m \/ q + 1 = m
    BY <1>1, <1>2, <1>5, SMTT(30)
  <2>. QED
    BY <2>1, <2>2, <2>3
<1>7. q + 1 \in 1 .. Len(layer) /\ s + 1 \in 1 .. Len(layer[q + 1])
  <2>1. layer[q + 1] \in Batch
    BY <1>1, <1>2, <1>5 DEF m, Layer
  <2>. QED
    BY <1>1, <1>2, <1>5, <1>6, <2>1, SMTT(30) DEF m, Batch
<1>8. layer[q + 1][s + 1] =
        IF Position(q + 1, s + 1) <= Len(flat) THEN flat[Position(q + 1, s + 1)] ELSE Pad
  BY <1>1, <1>7 DEF Aligned
<1>. QED
  BY <1>2, <1>3, <1>4, <1>8

-----------------------------------------------------------------------------
(* The builder: types and shapes.                                           *)

\* TypeOK alone is not inductive: back() needs a layer to exist, and Append
\* needs a batch.
Structure ==
  /\ TypeOK
  /\ BatchesShaped
  /\ multLayers # << >>
  /\ flatMult # << >>

\* What appending does to any sequence.
LEMMA AppendFacts ==
  ASSUME NEW S, NEW q \in Seq(S), NEW e \in S
  PROVE  /\ Append(q, e) \in Seq(S) /\ Append(q, e) # << >>
         /\ Len(Append(q, e)) = Len(q) + 1
         /\ \A i \in 1 .. Len(q) : Append(q, e)[i] = q[i]
         /\ Append(q, e)[Len(q) + 1] = e
OBVIOUS

\* The layer Append returns is a layer with its batches in shape.
LEMMA AppendStructure ==
  ASSUME NEW layer \in Layer, Shaped(layer), NEW g \in Nat
  PROVE  LayerAppend(layer, g) \in Layer /\ Shaped(LayerAppend(layer, g))
BY AppendShaped, AppendCases DEF Shaped

\* So is the layer Close leaves behind.
LEMMA CloseStructure ==
  ASSUME NEW layer \in Layer, Shaped(layer)
  PROVE  LayerClose(layer) \in Layer /\ Shaped(LayerClose(layer))
<1>1. layer # << >> /\ Len(layer) \in 1 .. Len(layer)
  BY DEF Shaped, Layer
<1>2. Len(LastBatch(layer)) <= BatchSize
  BY <1>1 DEF LastBatch, Shaped
<1>. QED
  BY <1>1, <1>2, CloseShaped, CloseCases

\* The constructor's state has the structure.
LEMMA InitStructure == Init => Structure
<1> SUFFICES ASSUME Init PROVE Structure
  OBVIOUS
<1>1. EmptyLayer \in Layer /\ Shaped(EmptyLayer)
  BY EmptyLayerOpen DEF OpenFor
<1>2. << >> \in Seq(Nat) /\ << << >> >> \in Seq(Seq(Nat)) /\ << EmptyLayer >> \in Seq(Layer)
  BY <1>1
<1>3. gates \in Seq(InputGates \cup OutputGates \cup AddGates \cup MultGates)
  BY DEF Init
<1>4. TypeOK
  BY <1>1, <1>2, <1>3 DEF Init, TypeOK
<1>5. BatchesShaped
  BY <1>1 DEF Init, BatchesShaped
<1>. QED
  BY <1>4, <1>5 DEF Init, Structure

\* Every call keeps the structure, in any order.
LEMMA NextStructure == Structure /\ [Next]_vars => Structure'
<1> SUFFICES ASSUME Structure, [Next]_vars PROVE Structure'
  OBVIOUS
<1> USE DEF Structure
<1>0. NextGate \in Nat /\ Wires \subseteq Nat
  BY DEF NextGate, Wires, TypeOK
<1>1. ASSUME NEW c \in Clients, Input(c)
      PROVE  Structure'
  <2>1. LayerAppend(inputLayers[c], NextGate) \in Layer /\ Shaped(LayerAppend(inputLayers[c], NextGate))
    BY <1>0, AppendStructure DEF TypeOK, BatchesShaped
  <2>2. gates' \in Seq(InputGates \cup OutputGates \cup AddGates \cup MultGates)
    BY <1>1 DEF Input, Create, InputGates, TypeOK
  <2>3. flatInputs' \in [Clients -> Seq(Nat)] /\ inputLayers' \in [Clients -> Layer]
    BY <1>0, <1>1, <2>1 DEF Input, TypeOK
  <2>4. \A d \in Clients : Shaped(inputLayers'[d])
    BY <1>1, <2>1 DEF Input, TypeOK, BatchesShaped
  <2>. QED
    BY <1>1, <2>2, <2>3, <2>4 DEF Input, TypeOK, BatchesShaped, multVars, flags
<1>2. ASSUME NEW c \in Clients, NEW w \in Wires, Output(c, w)
      PROVE  Structure'
  <2>1. LayerAppend(outputLayers[c], NextGate) \in Layer /\ Shaped(LayerAppend(outputLayers[c], NextGate))
    BY <1>0, AppendStructure DEF TypeOK, BatchesShaped
  <2>2. gates' \in Seq(InputGates \cup OutputGates \cup AddGates \cup MultGates)
    BY <1>0, <1>2 DEF Output, Create, OutputGates, TypeOK
  <2>3. flatOutputs' \in [Clients -> Seq(Nat)] /\ outputLayers' \in [Clients -> Layer]
    BY <1>0, <1>2, <2>1 DEF Output, TypeOK
  <2>4. \A d \in Clients : Shaped(outputLayers'[d])
    BY <1>2, <2>1 DEF Output, TypeOK, BatchesShaped
  <2>. QED
    BY <1>2, <2>2, <2>3, <2>4 DEF Output, TypeOK, BatchesShaped, multVars, flags
<1>3. ASSUME NEW l \in Wires, NEW r \in Wires, Add(l, r)
      PROVE  Structure'
  <2>1. gates' \in Seq(InputGates \cup OutputGates \cup AddGates \cup MultGates)
    BY <1>0, <1>3, SMTT(30) DEF Add, Create, AddGates, TypeOK
  <2>. QED
    BY <1>3, <2>1 DEF Add, TypeOK, BatchesShaped, ioVars, multVars, flags
<1>4. ASSUME NEW l \in Wires, NEW r \in Wires, Mult(l, r)
      PROVE  Structure'
  <2> DEFINE m == Len(multLayers)
  <2>0. m \in Nat \ {0} /\ multLayers[m] \in Layer /\ Shaped(multLayers[m])
    BY DEF TypeOK, BatchesShaped
  <2>1. LayerAppend(multLayers[m], NextGate) \in Layer /\ Shaped(LayerAppend(multLayers[m], NextGate))
    BY <1>0, <2>0, AppendStructure
  <2>2. gates' \in Seq(InputGates \cup OutputGates \cup AddGates \cup MultGates)
    BY <1>0, <1>4 DEF Mult, Create, MultGates, TypeOK
  <2>3. /\ multLayers' \in Seq(Layer) /\ multLayers' # << >>
        /\ Len(multLayers') = m
        /\ \A i \in 1 .. m : Shaped(multLayers'[i])
    BY <1>4, <2>0, <2>1 DEF Mult, TypeOK, BatchesShaped
  <2>4. flatMult' \in Seq(Seq(Nat)) /\ flatMult' # << >>
    <3>1. Len(flatMult) \in Nat \ {0} /\ flatMult[Len(flatMult)] \in Seq(Nat)
      BY DEF TypeOK
    <3>2. Append(flatMult[Len(flatMult)], NextGate) \in Seq(Nat)
      BY <1>0, <3>1
    <3>. QED
      BY <1>4, <3>1, <3>2 DEF Mult, TypeOK
  <2>. QED
    <3> HIDE DEF m
    <3>1. UNCHANGED << ioVars, width, flags >>
      BY <1>4 DEF Mult
    <3>2. TypeOK'
      BY <2>2, <2>3, <2>4, <3>1 DEF TypeOK, ioVars, flags
    <3>3. BatchesShaped'
      <4>1. \A c \in Clients : Shaped(inputLayers'[c]) /\ Shaped(outputLayers'[c])
        BY <3>1 DEF BatchesShaped, ioVars
      <4>. QED
        BY <2>3, <4>1 DEF BatchesShaped
    <3>. QED
      BY <2>3, <2>4, <3>2, <3>3
<1>5. /\ CurrentLayerClosed \in Seq(Layer) /\ CurrentLayerClosed # << >>
      /\ Len(CurrentLayerClosed) = Len(multLayers)
      /\ \A i \in 1 .. Len(multLayers) : Shaped(CurrentLayerClosed[i])
      /\ WidthWith(flatMult[Len(flatMult)]) \in Nat
      /\ Append(flatMult, << >>) \in Seq(Seq(Nat)) /\ Append(flatMult, << >>) # << >>
  <2> DEFINE m == Len(multLayers)
  <2>1. m \in Nat \ {0} /\ multLayers[m] \in Layer /\ Shaped(multLayers[m])
    BY DEF TypeOK, BatchesShaped
  <2>2. LayerClose(multLayers[m]) \in Layer /\ Shaped(LayerClose(multLayers[m]))
    BY <2>1, CloseStructure
  <2>3. WidthWith(flatMult[Len(flatMult)]) \in Nat
    BY DEF WidthWith, TypeOK
  <2>4. /\ CurrentLayerClosed \in Seq(Layer) /\ CurrentLayerClosed # << >>
        /\ Len(CurrentLayerClosed) = Len(multLayers)
        /\ \A i \in 1 .. m : Shaped(CurrentLayerClosed[i])
    BY <2>1, <2>2 DEF CurrentLayerClosed, TypeOK, BatchesShaped
  <2>5. Append(flatMult, << >>) \in Seq(Seq(Nat)) /\ Append(flatMult, << >>) # << >>
    <3>1. flatMult \in Seq(Seq(Nat)) /\ << >> \in Seq(Nat)
      BY DEF TypeOK
    <3>. QED
      BY <3>1, AppendFacts
  <2>. QED
    BY <2>3, <2>4, <2>5
<1>6. CASE NewLayer
  <2>1. EmptyLayer \in Layer /\ Shaped(EmptyLayer)
    BY EmptyLayerOpen DEF OpenFor
  <2>2. /\ multLayers' \in Seq(Layer) /\ multLayers' # << >>
        /\ \A i \in 1 .. Len(multLayers') : Shaped(multLayers'[i])
    <3> DEFINE q == Append(CurrentLayerClosed, EmptyLayer)
               n == Len(CurrentLayerClosed)
    <3>1. multLayers' = q
      BY <1>6 DEF NewLayer
    <3>2. CurrentLayerClosed \in Seq(Layer) /\ n \in Nat
      BY <1>5
    <3>3. /\ q \in Seq(Layer) /\ q # << >> /\ Len(q) = n + 1
          /\ \A i \in 1 .. n : q[i] = CurrentLayerClosed[i]
          /\ q[n + 1] = EmptyLayer
      BY <2>1, <3>2, AppendFacts
    <3>4. \A i \in 1 .. n : Shaped(q[i])
      BY <1>5, <3>3
    <3>5. \A i \in 1 .. Len(q) : i \in 1 .. n \/ i = n + 1
      BY <3>2, <3>3
    <3>6. \A i \in 1 .. Len(q) : Shaped(q[i])
      BY <2>1, <3>3, <3>4, <3>5
    <3>. QED
      BY <3>1, <3>3, <3>6
  <2>. QED
    BY <1>5, <1>6, <2>2 DEF NewLayer, TypeOK, BatchesShaped, ioVars, flags
<1>7. CASE LastLayer
  BY <1>5, <1>7 DEF LastLayer, TypeOK, BatchesShaped, ioVars
<1>8. CASE CloseInputs
  <2>1. \A c \in Clients : LayerClose(inputLayers[c]) \in Layer /\ Shaped(LayerClose(inputLayers[c]))
    BY CloseStructure DEF TypeOK, BatchesShaped
  <2>. QED
    BY <1>8, <2>1 DEF CloseInputs, TypeOK, BatchesShaped, multVars
<1>9. CASE CloseOutputs
  <2>1. \A c \in Clients : LayerClose(outputLayers[c]) \in Layer /\ Shaped(LayerClose(outputLayers[c]))
    BY CloseStructure DEF TypeOK, BatchesShaped
  <2>. QED
    BY <1>9, <2>1 DEF CloseOutputs, TypeOK, BatchesShaped, multVars
<1>10. CASE SetNetwork
  BY <1>10 DEF SetNetwork, TypeOK, BatchesShaped, ioVars, multVars
<1>11. CASE UNCHANGED vars
  BY <1>11 DEF vars, TypeOK, BatchesShaped, ioVars, multVars, flags
<1>. QED
  BY <1>1, <1>2, <1>3, <1>4, <1>6, <1>7, <1>8, <1>9, <1>10, <1>11 DEF Next

\* The structural invariant of every circuit under construction.
LEMMA StructureInvariant == Spec => []Structure
BY InitStructure, NextStructure, PTL DEF Spec

\* The variables of a circuit keep their types under every order of calls.
THEOREM TypeCorrect == Spec => []TypeOK
<1>1. Structure => TypeOK
  BY DEF Structure
<1>. QED
  BY <1>1, StructureInvariant, PTL

\* No order of calls overfills a batch, so MultBatch::Append never throws, or
\* leaves room in a batch that is not the last of its layer.
THEOREM AlwaysShaped == Spec => []BatchesShaped
<1>1. Structure => BatchesShaped
  BY DEF Structure
<1>. QED
  BY <1>1, StructureInvariant, PTL

\* Padding and the flat lists of a circuit whose caller keeps the order.
LEMMA InitViews == Init => ViewsAgree
BY EmptyLayerOpen DEF Init, ViewsAgree

\* A call in the order that the comments of the code ask for.
Orderly ==
  \/ ~inputsDone /\ ((\E c \in Clients : Input(c)) \/ CloseInputs)
  \/ ~isClosed /\ (\E c \in Clients : \E w : Output(c, w))
  \/ (\E l, r : Add(l, r)) \/ SetNetwork
  \/ ~layersDone /\ ((\E l, r : Mult(l, r)) \/ NewLayer \/ LastLayer)
  \/ ~isClosed /\ inputsDone /\ layersDone /\ CloseOutputs

\* Every call of the documented order keeps the two views together.
LEMMA OrderlyViews ==
  Structure /\ ViewsAgree /\ [Orderly]_vars => ViewsAgree'
<1> SUFFICES ASSUME Structure, ViewsAgree, [Orderly]_vars PROVE ViewsAgree'
  OBVIOUS
<1> DEFINE m == Len(multLayers)
<1>1. /\ m \in Nat \ {0} /\ multLayers \in Seq(Layer) /\ multLayers[m] \in Layer
      /\ flatMult \in Seq(Seq(Nat)) /\ NextGate \in Nat
      /\ Len(flatMult) = m + (IF layersDone THEN 1 ELSE 0)
  BY DEF Structure, TypeOK, NextGate, ViewsAgree
<1>2. ASSUME ~inputsDone, NEW c \in Clients, Input(c)
      PROVE  ViewsAgree'
  <2>1. ~inputsDone /\ ~isClosed
    BY <1>2 DEF ViewsAgree
  <2>2. OpenFor(LayerAppend(inputLayers[c], NextGate), Append(flatInputs[c], NextGate))
    BY <1>1, <2>1, AppendOpen DEF ViewsAgree, Structure, TypeOK
  <2>3. \A d \in Clients : OpenFor(inputLayers'[d], flatInputs'[d])
    BY <1>2, <2>1, <2>2 DEF Input, ViewsAgree, Structure, TypeOK
  <2>. QED
    BY <1>2, <2>1, <2>3 DEF Input, ViewsAgree, multVars, flags
<1>3. ASSUME ~isClosed, NEW c \in Clients, NEW w, Output(c, w)
      PROVE  ViewsAgree'
  <2>1. ~isClosed
    BY <1>3
  <2>2. OpenFor(LayerAppend(outputLayers[c], NextGate), Append(flatOutputs[c], NextGate))
    BY <1>1, <2>1, AppendOpen DEF ViewsAgree, Structure, TypeOK
  <2>3. \A d \in Clients : OpenFor(outputLayers'[d], flatOutputs'[d])
    BY <1>3, <2>1, <2>2 DEF Output, ViewsAgree, Structure, TypeOK
  <2>. QED
    BY <1>3, <2>1, <2>3 DEF Output, ViewsAgree, multVars, flags
<1>4. ASSUME NEW l, NEW r, Add(l, r)
      PROVE  ViewsAgree'
  BY <1>4 DEF Add, ViewsAgree, ioVars, multVars, flags
<1>5. ASSUME ~layersDone, NEW l, NEW r, Mult(l, r)
      PROVE  ViewsAgree'
  <2>1. ~layersDone /\ ~isClosed /\ Len(flatMult) = m
    BY <1>1, <1>5 DEF ViewsAgree
  <2>2. flatMult[m] \in Seq(Nat) /\ OpenFor(multLayers[m], flatMult[m])
    BY <1>1, <2>1 DEF ViewsAgree
  <2>3. OpenFor(LayerAppend(multLayers[m], NextGate), Append(flatMult[m], NextGate))
    BY <1>1, <2>2, AppendOpen
  <2>4. /\ Len(multLayers') = m /\ Len(flatMult') = m
        /\ multLayers'[m] = LayerAppend(multLayers[m], NextGate)
        /\ flatMult'[m] = Append(flatMult[m], NextGate)
        /\ \A i \in 1 .. m - 1 : multLayers'[i] = multLayers[i] /\ flatMult'[i] = flatMult[i]
    <3>1. multLayers' = [multLayers EXCEPT ![m] = LayerAppend(multLayers[m], NextGate)]
      BY <1>5 DEF Mult
    <3>2. flatMult' = [flatMult EXCEPT ![m] = Append(flatMult[m], NextGate)]
      BY <1>5, <2>1 DEF Mult
    <3>3. DOMAIN multLayers = 1 .. m /\ DOMAIN flatMult = 1 .. m
      BY <1>1, <2>1
    <3>4. LayerAppend(multLayers[m], NextGate) \in Layer /\ Append(flatMult[m], NextGate) \in Seq(Nat)
      BY <1>1, <2>2, AppendStructure DEF OpenFor
    <3>5. multLayers' \in Seq(Layer) /\ Len(multLayers') = m
      BY <1>1, <3>1, <3>4
    <3>6. flatMult' \in Seq(Seq(Nat)) /\ Len(flatMult') = m
      BY <1>1, <2>1, <3>2, <3>4
    <3>7. m \in DOMAIN multLayers /\ m \in DOMAIN flatMult
      <4>1. m \in 1 .. m
        BY <1>1
      <4>. QED
        BY <3>3, <4>1, Zenon
    <3>8. multLayers'[m] = LayerAppend(multLayers[m], NextGate)
      BY <3>1, <3>7
    <3>9. flatMult'[m] = Append(flatMult[m], NextGate)
      BY <3>2, <3>7
    <3>10. \A i \in 1 .. m - 1 : i \in DOMAIN multLayers /\ i \in DOMAIN flatMult /\ i # m
      <4>1. \A i \in 1 .. m - 1 : i \in 1 .. m /\ i # m
        BY <1>1
      <4>. QED
        BY <3>3, <4>1, Zenon
    <3>11. \A i \in 1 .. m - 1 : multLayers'[i] = multLayers[i] /\ flatMult'[i] = flatMult[i]
      BY <3>1, <3>2, <3>10
    <3>. QED
      BY <3>5, <3>6, <3>8, <3>9, <3>11
  <2>5. \A i \in 1 .. m - 1 : ClosedFor(multLayers'[i], flatMult'[i])
    BY <2>4 DEF ViewsAgree
  <2>. QED
    <3>1. UNCHANGED << inputLayers, flatInputs, outputLayers, flatOutputs >> /\ UNCHANGED flags
      BY <1>5 DEF Mult, ioVars
    <3>2. OpenFor(multLayers'[m], flatMult'[m])
      BY <2>3, <2>4
    <3>. QED
      BY <1>1, <2>1, <2>4, <2>5, <3>1, <3>2 DEF ViewsAgree, flags
<1>6. ASSUME ~layersDone
      PROVE  /\ Len(flatMult) = m /\ Len(CurrentLayerClosed) = m
             /\ \A i \in 1 .. m : ClosedFor(CurrentLayerClosed[i], flatMult[i])
             /\ CurrentLayerClosed \in Seq(Layer)
  <2>1. Len(flatMult) = m /\ flatMult[m] \in Seq(Nat) /\ OpenFor(multLayers[m], flatMult[m])
    BY <1>1, <1>6 DEF ViewsAgree
  <2>2. ClosedFor(LayerClose(multLayers[m]), flatMult[m])
    BY <1>1, <2>1, CloseOpen
  <2>3. LayerClose(multLayers[m]) \in Layer
    BY <1>1, <2>1, CloseStructure DEF OpenFor
  <2>4. /\ Len(CurrentLayerClosed) = m
        /\ CurrentLayerClosed[m] = LayerClose(multLayers[m])
        /\ \A i \in 1 .. m - 1 : CurrentLayerClosed[i] = multLayers[i]
        /\ CurrentLayerClosed \in Seq(Layer)
    BY <1>1, <2>3 DEF CurrentLayerClosed
  <2>5. \A i \in 1 .. m - 1 : ClosedFor(CurrentLayerClosed[i], flatMult[i])
    BY <2>4 DEF ViewsAgree
  <2>6. \A i \in 1 .. m : i = m \/ i \in 1 .. m - 1
    BY <1>1
  <2>. QED
    BY <2>1, <2>2, <2>4, <2>5, <2>6
<1>7. /\ Len(Append(flatMult, << >>)) = Len(flatMult) + 1
      /\ \A i \in 1 .. Len(flatMult) : Append(flatMult, << >>)[i] = flatMult[i]
      /\ Append(flatMult, << >>)[Len(flatMult) + 1] = << >>
  <2>1. << >> \in Seq(Nat)
    OBVIOUS
  <2>. QED
    BY <1>1, <2>1, AppendFacts
<1>8. CASE ~layersDone /\ NewLayer
  <2>1. ~layersDone /\ ~isClosed
    BY <1>8 DEF ViewsAgree
  <2>2. EmptyLayer \in Layer /\ OpenFor(EmptyLayer, << >>)
    BY EmptyLayerOpen
  <2>3. /\ Len(multLayers') = m + 1 /\ Len(flatMult') = m + 1
        /\ multLayers'[m + 1] = EmptyLayer /\ flatMult'[m + 1] = << >>
        /\ \A i \in 1 .. m : multLayers'[i] = CurrentLayerClosed[i] /\ flatMult'[i] = flatMult[i]
    BY <1>1, <1>6, <1>7, <1>8, <2>1, <2>2, AppendFacts DEF NewLayer
  <2>4. \A i \in 1 .. m : ClosedFor(multLayers'[i], flatMult'[i])
    BY <1>6, <2>1, <2>3
  <2>. QED
    BY <1>1, <1>8, <2>1, <2>2, <2>3, <2>4 DEF NewLayer, ViewsAgree, ioVars, flags
<1>9. CASE ~layersDone /\ LastLayer
  <2>1. ~layersDone /\ ~isClosed
    BY <1>9 DEF ViewsAgree
  <2>2. /\ Len(multLayers') = m /\ Len(flatMult') = m + 1
        /\ \A i \in 1 .. m : multLayers'[i] = CurrentLayerClosed[i] /\ flatMult'[i] = flatMult[i]
    BY <1>1, <1>6, <1>7, <1>9, <2>1 DEF LastLayer
  <2>3. \A i \in 1 .. m : ClosedFor(multLayers'[i], flatMult'[i])
    BY <1>6, <2>1, <2>2
  <2>. QED
    BY <1>1, <1>9, <2>1, <2>2, <2>3 DEF LastLayer, ViewsAgree, ioVars
<1>10. CASE ~inputsDone /\ CloseInputs
  <2>1. ~inputsDone /\ ~isClosed
    BY <1>10 DEF ViewsAgree
  <2>2. \A c \in Clients : ClosedFor(LayerClose(inputLayers[c]), flatInputs[c])
    BY <2>1, CloseOpen DEF ViewsAgree, Structure, TypeOK
  <2>. QED
    BY <1>10, <2>1, <2>2 DEF CloseInputs, ViewsAgree, multVars
<1>11. CASE ~isClosed /\ inputsDone /\ layersDone /\ CloseOutputs
  <2>1. ~isClosed /\ inputsDone /\ layersDone
    BY <1>11
  <2>2. \A c \in Clients : ClosedFor(LayerClose(outputLayers[c]), flatOutputs[c])
    BY <2>1, CloseOpen DEF ViewsAgree, Structure, TypeOK
  <2>. QED
    BY <1>11, <2>1, <2>2 DEF CloseOutputs, ViewsAgree, multVars
<1>12. CASE SetNetwork
  BY <1>12 DEF SetNetwork, ViewsAgree, ioVars, multVars
<1>13. CASE UNCHANGED vars
  BY <1>13 DEF vars, ViewsAgree, ioVars, multVars, flags
<1>. QED
  BY <1>2, <1>3, <1>4, <1>5, <1>8, <1>9, <1>10, <1>11, <1>12, <1>13 DEF Orderly

\* A caller that keeps the documented order makes no other call.
LEMMA NextViews ==
  ASSUME Disciplined
  PROVE  Structure /\ ViewsAgree /\ [Next]_vars => ViewsAgree'
<1>1. Next => Orderly
  <2>1. \A c \in Clients : Input(c) => ~inputsDone
    BY DEF Input
  <2>2. CloseInputs => ~inputsDone
    BY DEF CloseInputs
  <2>3. \A c \in Clients, w \in Wires : Output(c, w) => ~isClosed
    BY DEF Output
  <2>4. \A l, r \in Wires : Mult(l, r) => ~layersDone
    BY DEF Mult
  <2>5. NewLayer \/ LastLayer => ~layersDone
    BY DEF NewLayer, LastLayer
  <2>6. CloseOutputs => ~isClosed /\ inputsDone /\ layersDone
    BY DEF CloseOutputs
  <2>. QED
    BY <2>1, <2>2, <2>3, <2>4, <2>5, <2>6 DEF Next, Orderly
<1>. QED
  BY <1>1, OrderlyViews

\* For a caller that keeps the documented order the two views never part.
THEOREM ViewsInvariant ==
  ASSUME Disciplined
  PROVE  Spec => []ViewsAgree
<1>1. Structure /\ ViewsAgree /\ [Next]_vars => ViewsAgree'
  BY NextViews
<1>. QED
  BY <1>1, InitViews, StructureInvariant, PTL DEF Spec

\* GetMultGate's commented assertion: the gate at index idx of a layer is the
\* gate of batch idx / k, slot idx % k.
THEOREM LookupCorrect ==
  ASSUME Disciplined
  PROVE  Spec => []GateLookup
<1>1. Structure /\ ViewsAgree => GateLookup
  <2> SUFFICES ASSUME Structure, ViewsAgree,
                      NEW l \in 1 .. Len(multLayers),
                      NEW idx \in 0 .. Len(flatMult[l]) - 1
               PROVE  multLayers[l][(idx \div BatchSize) + 1][(idx % BatchSize) + 1]
                        = flatMult[l][idx + 1]
    BY DEF GateLookup
  <2>1. multLayers[l] \in Layer /\ flatMult[l] \in Seq(Nat)
    BY DEF Structure, TypeOK, ViewsAgree
  <2>2. OpenFor(multLayers[l], flatMult[l]) \/ ClosedFor(multLayers[l], flatMult[l])
    <3>1. l \in 1 .. Len(multLayers) - 1 \/ l = Len(multLayers)
      BY DEF Structure, TypeOK
    <3>. QED
      BY <3>1 DEF ViewsAgree
  <2>. QED
    BY <2>1, <2>2, LookupByIndex
<1>. QED
  BY <1>1, ViewsInvariant, StructureInvariant, PTL

\* A circuit built in the documented order gets its network only when every
\* batch of every layer is full.
THEOREM NetworkAfterClosing ==
  ASSUME Disciplined
  PROVE  Spec => []NetworkOnlyOnClosed
<1>1. ASSUME NEW layer \in Layer, NEW flat, ClosedFor(layer, flat)
      PROVE  IsFull(layer)
  BY <1>1 DEF ClosedFor, Shaped, IsFull, LastBatch, Layer
<1>2. Structure /\ ViewsAgree => NetworkOnlyOnClosed
  <2> SUFFICES ASSUME Structure, ViewsAgree, networkSet PROVE NetworkOnlyOnClosed
    BY DEF NetworkOnlyOnClosed
  <2>1. isClosed /\ inputsDone /\ layersDone
    BY DEF ViewsAgree
  <2>2. \A c \in Clients : IsFull(inputLayers[c]) /\ IsFull(outputLayers[c])
    BY <1>1, <2>1 DEF ViewsAgree, Structure, TypeOK
  <2>3. ASSUME NEW l \in 1 .. Len(multLayers) PROVE IsFull(multLayers[l])
    <3>1. multLayers[l] \in Layer /\ (l \in 1 .. Len(multLayers) - 1 \/ l = Len(multLayers))
      BY DEF Structure, TypeOK
    <3>2. ClosedFor(multLayers[l], flatMult[l])
      BY <2>1, <3>1 DEF ViewsAgree
    <3>. QED
      BY <1>1, <3>1, <3>2
  <2>. QED
    BY <2>2, <2>3 DEF NetworkOnlyOnClosed
<1>. QED
  BY <1>2, ViewsInvariant, StructureInvariant, PTL

-----------------------------------------------------------------------------
(* Every gate has its place, under any order of calls.                      *)

\* Slot s of batch b holds gate g.
Holds(layer, b, s, g) == b \in 1 .. Len(layer) /\ s \in 1 .. Len(layer[b]) /\ layer[b][s] = g

\* Gate g of the gates gs is of this kind.
Of(gs, kind, g) == g \in 1 .. Len(gs) /\ gs[g].kind = kind

\* The layers of the clients have each gate of a kind in one place of its owner's
\* and nothing else: no gate of another kind and none yet to be created.
OwnedOnce(gs, kind, layers) ==
  \A c \in Clients, g \in 1 .. MaxGates :
    IF Of(gs, kind, g) /\ gs[g].owner = c
    THEN \E p \in Places(layers[c], g) : Places(layers[c], g) = {p}
    ELSE Places(layers[c], g) = {}

\* The multiplication layers have each multiplication gate in one place of one of
\* them and nothing else.
SpreadOnce(gs, layers) ==
  \A g \in 1 .. MaxGates :
    IF Of(gs, "mult", g)
    THEN \E l \in 1 .. Len(layers) :
           /\ \E p \in Places(layers[l], g) : Places(layers[l], g) = {p}
           /\ \A k \in 1 .. Len(layers) : k # l => Places(layers[k], g) = {}
    ELSE \A k \in 1 .. Len(layers) : Places(layers[k], g) = {}

Placed ==
  /\ Len(gates) <= MaxGates
  /\ OwnedOnce(gates, "input", inputLayers)
  /\ OwnedOnce(gates, "output", outputLayers)
  /\ SpreadOnce(gates, multLayers)

\* The places of a gate are the slots that hold it.
LEMMA PlacesMembers ==
  ASSUME NEW layer, NEW g
  PROVE  \A p : p \in Places(layer, g) <=> \E b, s : p = << b, s >> /\ Holds(layer, b, s, g)
BY DEF Places, Holds

\* Layers with the same gates in the same slots have the same places.
LEMMA SamePlaces ==
  ASSUME NEW layer, NEW new, NEW g, \A b, s : Holds(new, b, s, g) <=> Holds(layer, b, s, g)
  PROVE  Places(new, g) = Places(layer, g)
BY PlacesMembers

\* The new layer has what the layer has, and gate g in slot s0 of batch b0.
Adds(new, layer, g, b0, s0) ==
  \A b, s, h : Holds(new, b, s, h) <=> Holds(layer, b, s, h) \/ (b = b0 /\ s = s0 /\ h = g)

\* Gate g has one place more in the new layer, the others those they had.
Gains(new, layer, g) ==
  /\ \A h : h # g => Places(new, h) = Places(layer, h)
  /\ Places(layer, g) = {} => \E p : Places(new, g) = {p}

\* Append gives the gate a new place and takes none away.
LEMMA AppendPlaces ==
  ASSUME NEW layer \in Layer, Shaped(layer), NEW g \in Nat
  PROVE  Gains(LayerAppend(layer, g), layer, g)
<1> DEFINE m == Len(layer)
           r == Len(layer[m])
           new == LayerAppend(layer, g)
<1>1. layer # << >> /\ m \in Nat \ {0} /\ layer[m] \in Batch /\ r \in Nat /\ LastBatch(layer) = layer[m]
  BY DEF Layer, LastBatch, Shaped, Batch
<1>2. new \in Layer /\ \A b \in 1 .. m - 1 : new[b] = layer[b]
  BY <1>1, AppendCases
<1>3. \E b0, s0 : Adds(new, layer, g, b0, s0)
  <2>1. CASE HasRoom(LastBatch(layer))
    <3>1. Len(new) = m /\ new[m] = Append(layer[m], g)
      BY <1>1, <1>2, <2>1, AppendCases DEF LastBatch
    <3>2. Len(new[m]) = r + 1 /\ new[m][r + 1] = g /\ \A s \in 1 .. r : new[m][s] = layer[m][s]
      BY <1>1, <3>1 DEF Batch
    <3> HIDE DEF new
    <3>3. ASSUME NEW b, NEW s, NEW h
          PROVE  Holds(new, b, s, h) <=> Holds(layer, b, s, h) \/ (b = m /\ s = r + 1 /\ h = g)
      <4>1. CASE b \in 1 .. m - 1
        BY <1>1, <1>2, <3>1, <4>1, SMTT(30) DEF Holds
      <4>2. CASE b = m
        <5>1. s \in 1 .. r + 1 <=> s \in 1 .. r \/ s = r + 1
          BY <1>1
        <5>2. m \in 1 .. Len(new) /\ m \in 1 .. Len(layer) /\ r + 1 \notin 1 .. r
          BY <1>1, <3>1
        <5>. QED
          BY <3>2, <4>2, <5>1, <5>2 DEF Holds
      <4>3. CASE b \notin 1 .. m
        BY <1>1, <3>1, <4>3 DEF Holds
      <4>. QED
        BY <1>1, <4>1, <4>2, <4>3
    <3>4. Adds(new, layer, g, m, r + 1)
      BY <3>3 DEF Adds
    <3>. QED
      BY <3>4
  <2>2. CASE ~HasRoom(LastBatch(layer))
    <3>1. Len(new) = m + 1 /\ new[m + 1] = << g >> /\ new[m] = layer[m]
      BY <1>1, <1>2, <2>2, AppendCases DEF LastBatch
    <3> HIDE DEF new
    <3>2. ASSUME NEW b, NEW s, NEW h
          PROVE  Holds(new, b, s, h) <=> Holds(layer, b, s, h) \/ (b = m + 1 /\ s = 1 /\ h = g)
      <4>1. CASE b \in 1 .. m
        <5>1. new[b] = layer[b] /\ b # m + 1
          BY <1>1, <1>2, <3>1, <4>1
        <5>. QED
          BY <1>1, <3>1, <4>1, <5>1 DEF Holds
      <4>2. CASE b = m + 1
        <5>1. s \in 1 .. Len(<< g >>) <=> s = 1
          OBVIOUS
        <5>2. << g >>[1] = g /\ m + 1 \in 1 .. Len(new) /\ m + 1 \notin 1 .. Len(layer)
          BY <1>1, <3>1
        <5>. QED
          BY <3>1, <4>2, <5>1, <5>2 DEF Holds
      <4>3. CASE b \notin 1 .. m + 1
        BY <1>1, <3>1, <4>3 DEF Holds
      <4>. QED
        BY <1>1, <4>1, <4>2, <4>3
    <3>3. Adds(new, layer, g, m + 1, 1)
      BY <3>2 DEF Adds
    <3>. QED
      BY <3>3
  <2>. QED
    BY <2>1, <2>2
<1> HIDE DEF new
<1>4. PICK b0, s0 : Adds(new, layer, g, b0, s0)
  BY <1>3
<1>5. \A h : h # g => Places(new, h) = Places(layer, h)
  BY <1>4, SamePlaces DEF Adds
<1>6. ASSUME Places(layer, g) = {} PROVE Places(new, g) = {<< b0, s0 >>}
  <2>1. \A b, s : ~Holds(layer, b, s, g)
    BY <1>6, PlacesMembers
  <2>2. \A b, s : Holds(new, b, s, g) <=> b = b0 /\ s = s0
    BY <1>4, <2>1 DEF Adds
  <2>. QED
    BY <2>2, PlacesMembers
<1>. QED
  BY <1>5, <1>6 DEF new, Gains

\* Padding is no gate: Close leaves every gate where it is.
LEMMA ClosePlaces ==
  ASSUME NEW layer \in Layer, Shaped(layer), NEW g \in Nat
  PROVE  Places(LayerClose(layer), g) = Places(layer, g)
<1> DEFINE m == Len(layer)
           r == Len(layer[m])
           new == LayerClose(layer)
<1>1. /\ layer # << >> /\ m \in Nat \ {0} /\ layer[m] \in Batch /\ r \in Nat
      /\ LastBatch(layer) = layer[m] /\ r <= BatchSize
  BY DEF Layer, LastBatch, Shaped, Batch
<1>2. /\ new \in Layer /\ Len(new) = m /\ LastBatch(new) = new[m] /\ Len(new[m]) = BatchSize
      /\ \A s \in 1 .. BatchSize : new[m][s] = IF s <= r THEN layer[m][s] ELSE Pad
      /\ \A b \in 1 .. m - 1 : new[b] = layer[b]
  BY <1>1, CloseCases DEF LastBatch
<1> HIDE DEF new
<1>3. ASSUME NEW b, NEW s
      PROVE  Holds(new, b, s, g) <=> Holds(layer, b, s, g)
  <2>1. CASE b \in 1 .. m - 1
    BY <1>1, <1>2, <2>1 DEF Holds
  <2>2. CASE b = m
    <3>1. m \in 1 .. Len(new) /\ m \in 1 .. Len(layer)
      BY <1>1, <1>2
    <3>2. s \in 1 .. r <=> s \in 1 .. BatchSize /\ s <= r
      BY <1>1, BatchSizeAssumption
    <3>3. Pad # g
      BY PadAssumption
    <3>. QED
      BY <1>2, <2>2, <3>1, <3>2, <3>3 DEF Holds
  <2>3. CASE b \notin 1 .. m
    BY <1>2, <2>3 DEF Holds
  <2>. QED
    BY <1>1, <2>1, <2>2, <2>3
<1>. QED
  BY <1>3, SamePlaces DEF new

\* The layer the constructors make has no gate in it.
LEMMA EmptyPlaces == \A g : Places(EmptyLayer, g) = {}
<1>1. ASSUME NEW g, NEW b, NEW s PROVE ~Holds(EmptyLayer, b, s, g)
  BY DEF Holds, EmptyLayer
<1>. QED
  BY <1>1, PlacesMembers

\* A gate that is created is the last one; the others stay what they are.
LEMMA CreateOf ==
  ASSUME NEW S, NEW gs \in Seq(S), NEW gate \in S
  PROVE  /\ Len(Append(gs, gate)) = Len(gs) + 1
         /\ Append(gs, gate)[Len(gs) + 1] = gate
         /\ \A g \in 1 .. Len(gs) : Append(gs, gate)[g] = gs[g]
         /\ \A kind, g : Of(Append(gs, gate), kind, g) <=>
              Of(gs, kind, g) \/ (g = Len(gs) + 1 /\ kind = gate.kind)
<1>1. /\ Len(Append(gs, gate)) = Len(gs) + 1 /\ Append(gs, gate)[Len(gs) + 1] = gate
      /\ \A g \in 1 .. Len(gs) : Append(gs, gate)[g] = gs[g]
      /\ Len(gs) \in Nat
  OBVIOUS
<1> DEFINE new == Append(gs, gate)
<1> HIDE DEF new
<1>2. ASSUME NEW kind, NEW g
      PROVE  Of(new, kind, g) <=> Of(gs, kind, g) \/ (g = Len(gs) + 1 /\ kind = gate.kind)
  <2>1. g \in 1 .. Len(gs) + 1 <=> g \in 1 .. Len(gs) \/ g = Len(gs) + 1
    BY <1>1
  <2>2. Len(gs) + 1 \notin 1 .. Len(gs)
    BY <1>1
  <2>. QED
    BY <1>1, <2>1, <2>2 DEF new, Of
<1>. QED
  BY <1>1, <1>2 DEF new

\* Creating a gate of another kind does not touch what clients own of this one.
LEMMA OthersOwned ==
  ASSUME NEW S, NEW gs \in Seq(S), NEW gate \in S, NEW kind, gate.kind # kind,
         NEW layers, OwnedOnce(gs, kind, layers)
  PROVE  OwnedOnce(Append(gs, gate), kind, layers)
<1> DEFINE new == Append(gs, gate)
<1>1. ASSUME NEW g PROVE Of(new, kind, g) <=> Of(gs, kind, g)
  BY CreateOf
<1>2. ASSUME NEW g, Of(gs, kind, g) PROVE new[g] = gs[g]
  BY <1>2, CreateOf DEF Of
<1> HIDE DEF new
<1>. QED
  BY <1>1, <1>2 DEF OwnedOnce, new

\* Appending a gate to the layer of its owner gives it its place there.
LEMMA AddOwned ==
  ASSUME NEW S, NEW gs \in Seq(S), NEW gate \in S, gate.owner \in Clients, Len(gs) < MaxGates,
         NEW layers \in [Clients -> Layer], \A c \in Clients : Shaped(layers[c]),
         OwnedOnce(gs, gate.kind, layers)
  PROVE  OwnedOnce(Append(gs, gate), gate.kind,
                   [layers EXCEPT ![gate.owner] = LayerAppend(layers[gate.owner], Len(gs) + 1)])
<1> DEFINE new == Append(gs, gate)
           last == Len(gs) + 1
           o == gate.owner
           more == [layers EXCEPT ![o] = LayerAppend(layers[o], last)]
           kind == gate.kind
<1>1. last \in Nat /\ last \in 1 .. MaxGates /\ last \notin 1 .. Len(gs)
  BY BoundsAssumption
<1>2. /\ \A g : Of(new, kind, g) <=> Of(gs, kind, g) \/ g = last
      /\ \A g : Of(gs, kind, g) => new[g] = gs[g] /\ g # last
      /\ new[last] = gate
  BY <1>1, CreateOf DEF Of
<1>3. /\ \A c \in Clients : c # o => more[c] = layers[c]
      /\ more[o] = LayerAppend(layers[o], last)
  OBVIOUS
<1>4. layers[o] \in Layer /\ Shaped(layers[o])
  OBVIOUS
<1>5. \A h : h # last => Places(more[o], h) = Places(layers[o], h)
  BY <1>1, <1>3, <1>4, AppendPlaces DEF Gains
<1>6. \A c \in Clients : Places(layers[c], last) = {}
  BY <1>1, <1>2 DEF OwnedOnce
<1>7. \E p : Places(more[o], last) = {p}
  <2>1. Places(layers[o], last) = {}
    BY <1>6
  <2>2. \E p : Places(LayerAppend(layers[o], last), last) = {p}
    BY <1>1, <1>4, <2>1, AppendPlaces DEF Gains
  <2> HIDE DEF more, last
  <2>. QED
    BY <1>3, <2>2
<1> HIDE DEF new, last, more, o, kind
<1>8. ASSUME NEW c \in Clients, NEW g \in 1 .. MaxGates
      PROVE  IF Of(new, kind, g) /\ new[g].owner = c
             THEN \E p \in Places(more[c], g) : Places(more[c], g) = {p}
             ELSE Places(more[c], g) = {}
  <2>1. CASE g = last
    <3>1. Of(new, kind, g) /\ new[g].owner = o
      BY <1>2, <2>1 DEF o
    <3>2. CASE c = o
      BY <1>7, <2>1, <3>1, <3>2
    <3>3. CASE c # o
      BY <1>3, <1>6, <2>1, <3>1, <3>3
    <3>. QED
      BY <3>2, <3>3
  <2>2. CASE g # last
    <3>1. Places(more[c], g) = Places(layers[c], g)
      BY <1>3, <1>5, <2>2
    <3>2. (Of(new, kind, g) <=> Of(gs, kind, g)) /\ (Of(gs, kind, g) => new[g] = gs[g])
      BY <1>2, <2>2
    <3>. QED
      BY <3>1, <3>2 DEF OwnedOnce, kind
  <2>. QED
    BY <2>1, <2>2
<1>. QED
  BY <1>8 DEF OwnedOnce, new, more, o, last, kind

\* Closing the layers of all clients moves no gate.
LEMMA CloseOwned ==
  ASSUME NEW gs, NEW kind, NEW layers \in [Clients -> Layer],
         \A c \in Clients : Shaped(layers[c]), OwnedOnce(gs, kind, layers)
  PROVE  OwnedOnce(gs, kind, [c \in Clients |-> LayerClose(layers[c])])
<1> DEFINE closed == [c \in Clients |-> LayerClose(layers[c])]
<1>1. ASSUME NEW c \in Clients, NEW g \in 1 .. MaxGates
      PROVE  Places(closed[c], g) = Places(layers[c], g)
  BY ClosePlaces
<1> HIDE DEF closed
<1>. QED
  BY <1>1 DEF OwnedOnce, closed

\* The same gates in the same places of as many layers.
LEMMA SameSpread ==
  ASSUME NEW gs, NEW new, \A g : Of(new, "mult", g) <=> Of(gs, "mult", g),
         NEW layers, NEW more, Len(more) = Len(layers),
         \A k \in 1 .. Len(layers), g \in 1 .. MaxGates : Places(more[k], g) = Places(layers[k], g),
         SpreadOnce(gs, layers)
  PROVE  SpreadOnce(new, more)
<1>1. ASSUME NEW g \in 1 .. MaxGates, Of(gs, "mult", g)
      PROVE  \E l \in 1 .. Len(more) :
               /\ \E p \in Places(more[l], g) : Places(more[l], g) = {p}
               /\ \A k \in 1 .. Len(more) : k # l => Places(more[k], g) = {}
  <2>1. PICK l \in 1 .. Len(layers) :
               /\ \E p \in Places(layers[l], g) : Places(layers[l], g) = {p}
               /\ \A k \in 1 .. Len(layers) : k # l => Places(layers[k], g) = {}
    BY <1>1 DEF SpreadOnce
  <2>. QED
    BY <2>1
<1>2. ASSUME NEW g \in 1 .. MaxGates, ~Of(gs, "mult", g)
      PROVE  \A k \in 1 .. Len(more) : Places(more[k], g) = {}
  BY <1>2 DEF SpreadOnce
<1>. QED
  BY <1>1, <1>2 DEF SpreadOnce

\* The multiplication gates of new are those of gs and this one.
OneGateMore(new, gs, last) ==
  \A g : Of(new, "mult", g) <=> Of(gs, "mult", g) \/ g = last

\* Appending a multiplication gate to the last layer gives it its one place.
LEMMA AddSpread ==
  ASSUME NEW gs, NEW new, NEW last \in 1 .. MaxGates, ~Of(gs, "mult", last),
         OneGateMore(new, gs, last),
         NEW layers, NEW more, Len(more) = Len(layers), NEW n \in 1 .. Len(layers),
         \A k \in 1 .. Len(layers) : k # n => more[k] = layers[k],
         Gains(more[n], layers[n], last),
         SpreadOnce(gs, layers)
  PROVE  SpreadOnce(new, more)
<1>1. \A k \in 1 .. Len(layers) : Places(layers[k], last) = {}
  BY DEF SpreadOnce
<1>2. \A g : \A k \in 1 .. Len(layers) : g # last => Places(more[k], g) = Places(layers[k], g)
  BY DEF Gains
<1>3. ASSUME NEW g \in 1 .. MaxGates, Of(gs, "mult", g)
      PROVE  \E l \in 1 .. Len(more) :
               /\ \E p \in Places(more[l], g) : Places(more[l], g) = {p}
               /\ \A k \in 1 .. Len(more) : k # l => Places(more[k], g) = {}
  <2>1. PICK l \in 1 .. Len(layers) :
               /\ \E p \in Places(layers[l], g) : Places(layers[l], g) = {p}
               /\ \A k \in 1 .. Len(layers) : k # l => Places(layers[k], g) = {}
    BY <1>3 DEF SpreadOnce
  <2>2. g # last
    BY <1>3
  <2>3. \A k \in 1 .. Len(layers) : Places(more[k], g) = Places(layers[k], g)
    BY <1>2, <2>2
  <2>4. l \in 1 .. Len(more) /\ \E p \in Places(more[l], g) : Places(more[l], g) = {p}
    BY <2>1, <2>3
  <2>5. \A k \in 1 .. Len(more) : k # l => Places(more[k], g) = {}
    BY <2>1, <2>3
  <2>. QED
    BY <2>4, <2>5
<1>4. /\ n \in 1 .. Len(more)
      /\ \E p \in Places(more[n], last) : Places(more[n], last) = {p}
      /\ \A k \in 1 .. Len(more) : k # n => Places(more[k], last) = {}
  BY <1>1 DEF Gains
<1>5. ASSUME NEW g \in 1 .. MaxGates, ~Of(gs, "mult", g), g # last
      PROVE  \A k \in 1 .. Len(more) : Places(more[k], g) = {}
  BY <1>2, <1>5 DEF SpreadOnce
<1>6. ASSUME NEW g \in 1 .. MaxGates
      PROVE  IF Of(new, "mult", g)
             THEN \E l \in 1 .. Len(more) :
                    /\ \E p \in Places(more[l], g) : Places(more[l], g) = {p}
                    /\ \A k \in 1 .. Len(more) : k # l => Places(more[k], g) = {}
             ELSE \A k \in 1 .. Len(more) : Places(more[k], g) = {}
  <2>1. CASE Of(gs, "mult", g)
    BY <1>3, <2>1 DEF OneGateMore
  <2>2. CASE g = last
    <3>1. Of(new, "mult", g)
      BY <2>2 DEF OneGateMore
    <3>. QED
      BY <1>4, <2>2, <3>1, Zenon
  <2>3. CASE ~Of(gs, "mult", g) /\ g # last
    BY <1>5, <2>3 DEF OneGateMore
  <2>. QED
    BY <2>1, <2>2, <2>3
<1>. QED
  BY <1>6 DEF SpreadOnce

\* A further layer that holds no gate changes nothing.
LEMMA GrowSpread ==
  ASSUME NEW gs, NEW layers, NEW more, Len(layers) \in Nat, Len(more) = Len(layers) + 1,
         \A k \in 1 .. Len(layers) : more[k] = layers[k],
         \A g : Places(more[Len(layers) + 1], g) = {},
         SpreadOnce(gs, layers)
  PROVE  SpreadOnce(gs, more)
<1>1. PICK n : n = Len(layers)
  OBVIOUS
<1>2. PICK z : z = n + 1
  OBVIOUS
<1>3. /\ \A k : k \in 1 .. Len(more) <=> k \in 1 .. n \/ k = z
      /\ z \notin 1 .. n
  BY <1>1, <1>2
<1>4. /\ \A k \in 1 .. n : more[k] = layers[k]
      /\ \A g : Places(more[z], g) = {}
  BY <1>1, <1>2
<1>5. ASSUME NEW g \in 1 .. MaxGates, Of(gs, "mult", g)
      PROVE  \E l \in 1 .. Len(more) :
               /\ \E p \in Places(more[l], g) : Places(more[l], g) = {p}
               /\ \A k \in 1 .. Len(more) : k # l => Places(more[k], g) = {}
  <2>1. PICK l \in 1 .. n :
               /\ \E p \in Places(layers[l], g) : Places(layers[l], g) = {p}
               /\ \A k \in 1 .. n : k # l => Places(layers[k], g) = {}
    BY <1>1, <1>5 DEF SpreadOnce
  <2>. QED
    BY <1>3, <1>4, <2>1, ZenonT(60)
<1>6. ASSUME NEW g \in 1 .. MaxGates, ~Of(gs, "mult", g)
      PROVE  \A k \in 1 .. Len(more) : Places(more[k], g) = {}
  <2>1. \A k \in 1 .. n : Places(layers[k], g) = {}
    BY <1>1, <1>6 DEF SpreadOnce
  <2>. QED
    BY <1>3, <1>4, <2>1, Zenon
<1>. QED
  BY <1>5, <1>6 DEF SpreadOnce

\* The constructor's circuit has no gate and every layer empty.
LEMMA InitPlaced == Init => Placed
<1> SUFFICES ASSUME Init PROVE Placed
  OBVIOUS
<1>1. Len(gates) = 0 /\ \A kind, g : ~Of(gates, kind, g)
  BY DEF Init, Of
<1>2. Len(gates) <= MaxGates
  BY <1>1, BoundsAssumption
<1>3. OwnedOnce(gates, "input", inputLayers) /\ OwnedOnce(gates, "output", outputLayers)
  BY <1>1, EmptyPlaces DEF Init, OwnedOnce
<1>4. \A k \in 1 .. Len(multLayers) : multLayers[k] = EmptyLayer
  BY DEF Init
<1>5. SpreadOnce(gates, multLayers)
  BY <1>1, <1>4, EmptyPlaces DEF SpreadOnce
<1>. QED
  BY <1>2, <1>3, <1>5 DEF Placed

\* What creating a gate of another kind leaves alone.
LEMMA CreateOthers ==
  ASSUME TypeOK, Placed, NEW gate \in InputGates \cup OutputGates \cup AddGates \cup MultGates,
         Create(gate)
  PROVE  /\ Len(gates') <= MaxGates
         /\ gate.kind # "input" => OwnedOnce(gates', "input", inputLayers)
         /\ gate.kind # "output" => OwnedOnce(gates', "output", outputLayers)
         /\ gate.kind # "mult" => SpreadOnce(gates', multLayers)
<1> DEFINE S == InputGates \cup OutputGates \cup AddGates \cup MultGates
<1>1. gates \in Seq(S) /\ gate \in S /\ gates' = Append(gates, gate) /\ Len(gates) < MaxGates
  BY DEF TypeOK, Create
<1> HIDE DEF S
<1>2. Len(gates') <= MaxGates
  <2>1. Len(gates') = Len(gates) + 1 /\ Len(gates) \in Nat
    BY <1>1
  <2>. QED
    BY <1>1, <2>1, BoundsAssumption
<1>3. gate.kind # "input" => OwnedOnce(gates', "input", inputLayers)
  BY <1>1, OthersOwned DEF Placed
<1>4. gate.kind # "output" => OwnedOnce(gates', "output", outputLayers)
  BY <1>1, OthersOwned DEF Placed
<1>5. ASSUME gate.kind # "mult" PROVE SpreadOnce(gates', multLayers)
  <2>1. \A g : Of(gates', "mult", g) <=> Of(gates, "mult", g)
    BY <1>1, <1>5, CreateOf
  <2>2. SpreadOnce(gates, multLayers)
    BY DEF Placed
  <2>. QED
    BY <2>1, <2>2, SameSpread
<1>. QED
  BY <1>2, <1>3, <1>4, <1>5

\* Closing the current multiplication layer moves no gate.
LEMMA CurrentClosedSpread ==
  ASSUME Structure, SpreadOnce(gates, multLayers)
  PROVE  /\ Len(CurrentLayerClosed) = Len(multLayers) /\ CurrentLayerClosed \in Seq(Layer)
         /\ SpreadOnce(gates, CurrentLayerClosed)
<1> DEFINE m == Len(multLayers)
<1>1. m \in Nat \ {0} /\ multLayers[m] \in Layer /\ Shaped(multLayers[m]) /\ multLayers \in Seq(Layer)
  BY DEF Structure, TypeOK, BatchesShaped
<1>2. LayerClose(multLayers[m]) \in Layer
  BY <1>1, CloseStructure
<1>3. /\ CurrentLayerClosed \in Seq(Layer) /\ Len(CurrentLayerClosed) = m
      /\ CurrentLayerClosed[m] = LayerClose(multLayers[m])
      /\ \A k \in 1 .. m : k # m => CurrentLayerClosed[k] = multLayers[k]
  BY <1>1, <1>2 DEF CurrentLayerClosed
<1>4. ASSUME NEW k \in 1 .. m, NEW g \in 1 .. MaxGates
      PROVE  Places(CurrentLayerClosed[k], g) = Places(multLayers[k], g)
  <2>1. g \in Nat
    BY BoundsAssumption
  <2>2. CASE k = m
    BY <1>1, <1>3, <2>1, <2>2, ClosePlaces
  <2>3. CASE k # m
    BY <1>3, <2>3
  <2>. QED
    BY <2>2, <2>3
<1>. QED
  BY <1>3, <1>4, SameSpread

\* Every call keeps every gate in its place, in any order.
LEMMA NextPlaced == Structure /\ Placed /\ [Next]_vars => Placed'
<1> SUFFICES ASSUME Structure, Placed, [Next]_vars PROVE Placed'
  OBVIOUS
<1> DEFINE S == InputGates \cup OutputGates \cup AddGates \cup MultGates
<1>0. TypeOK /\ gates \in Seq(S) /\ Wires \subseteq Nat
  BY DEF Structure, TypeOK, Wires
<1>1. ASSUME NEW c \in Clients, Input(c)
      PROVE  Placed'
  <2> DEFINE gate == [kind |-> "input", owner |-> c]
  <2>1. gate \in S /\ gate.kind = "input" /\ gate.owner = c /\ Create(gate)
    BY <1>1 DEF Input, InputGates
  <2>2. inputLayers' = [inputLayers EXCEPT ![c] = LayerAppend(inputLayers[c], Len(gates) + 1)]
    BY <1>1 DEF Input, NextGate
  <2>3. gates' = Append(gates, gate) /\ Len(gates) < MaxGates
    BY <2>1 DEF Create
  <2>4. /\ inputLayers \in [Clients -> Layer] /\ \A d \in Clients : Shaped(inputLayers[d])
        /\ OwnedOnce(gates, "input", inputLayers)
    BY DEF Structure, TypeOK, BatchesShaped, Placed
  <2>5. /\ Len(gates') <= MaxGates /\ OwnedOnce(gates', "output", outputLayers)
        /\ SpreadOnce(gates', multLayers)
    BY <1>0, <2>1, CreateOthers
  <2>6. outputLayers' = outputLayers /\ multLayers' = multLayers
    BY <1>1 DEF Input, multVars
  <2> HIDE DEF gate, S
  <2>7. OwnedOnce(gates', "input", inputLayers')
    BY <1>0, <2>1, <2>2, <2>3, <2>4, AddOwned, ZenonT(60)
  <2>. QED
    BY <2>5, <2>6, <2>7 DEF Placed
<1>2. ASSUME NEW c \in Clients, NEW w \in Wires, Output(c, w)
      PROVE  Placed'
  <2> DEFINE gate == [kind |-> "output", owner |-> c, left |-> w]
  <2>1. gate \in S /\ gate.kind = "output" /\ gate.owner = c /\ Create(gate)
    BY <1>0, <1>2 DEF Output, OutputGates
  <2>2. outputLayers' = [outputLayers EXCEPT ![c] = LayerAppend(outputLayers[c], Len(gates) + 1)]
    BY <1>2 DEF Output, NextGate
  <2>3. gates' = Append(gates, gate) /\ Len(gates) < MaxGates
    BY <2>1 DEF Create
  <2>4. /\ outputLayers \in [Clients -> Layer] /\ \A d \in Clients : Shaped(outputLayers[d])
        /\ OwnedOnce(gates, "output", outputLayers)
    BY DEF Structure, TypeOK, BatchesShaped, Placed
  <2>5. /\ Len(gates') <= MaxGates /\ OwnedOnce(gates', "input", inputLayers)
        /\ SpreadOnce(gates', multLayers)
    BY <1>0, <2>1, CreateOthers
  <2>6. inputLayers' = inputLayers /\ multLayers' = multLayers
    BY <1>2 DEF Output, multVars
  <2> HIDE DEF gate, S
  <2>7. OwnedOnce(gates', "output", outputLayers')
    BY <1>0, <2>1, <2>2, <2>3, <2>4, AddOwned, ZenonT(60)
  <2>. QED
    BY <2>5, <2>6, <2>7 DEF Placed
<1>3. ASSUME NEW l \in Wires, NEW r \in Wires, Add(l, r)
      PROVE  Placed'
  <2> DEFINE gate == [kind |-> "add", left |-> l, right |-> r]
  <2>1. gate \in S /\ gate.kind = "add" /\ Create(gate)
    BY <1>0, <1>3 DEF Add, AddGates
  <2>2. inputLayers' = inputLayers /\ outputLayers' = outputLayers /\ multLayers' = multLayers
    BY <1>3 DEF Add, ioVars, multVars
  <2>. QED
    BY <1>0, <2>1, <2>2, CreateOthers DEF Placed
<1>4. ASSUME NEW l \in Wires, NEW r \in Wires, Mult(l, r)
      PROVE  Placed'
  <2> DEFINE gate == [kind |-> "mult", left |-> l, right |-> r]
             m == Len(multLayers)
             last == Len(gates) + 1
  <2>1. gate \in S /\ gate.kind = "mult" /\ Create(gate)
    BY <1>0, <1>4 DEF Mult, MultGates
  <2>2. gates' = Append(gates, gate) /\ last \in 1 .. MaxGates /\ last \notin 1 .. Len(gates)
    <3>1. gates' = Append(gates, gate) /\ Len(gates) < MaxGates /\ Len(gates) \in Nat
      BY <1>0, <2>1 DEF Create
    <3>. QED
      BY <3>1, BoundsAssumption
  <2>3. m \in 1 .. m /\ multLayers[m] \in Layer /\ Shaped(multLayers[m]) /\ multLayers \in Seq(Layer)
    BY DEF Structure, TypeOK, BatchesShaped
  <2>4. LayerAppend(multLayers[m], last) \in Layer
    BY <1>0, <2>3, AppendStructure
  <2>5. multLayers' = [multLayers EXCEPT ![m] = LayerAppend(multLayers[m], last)]
    BY <1>4 DEF Mult, NextGate
  <2>6. /\ Len(multLayers') = m
        /\ multLayers'[m] = LayerAppend(multLayers[m], last)
        /\ \A k \in 1 .. m : k # m => multLayers'[k] = multLayers[k]
    BY <2>3, <2>4, <2>5
  <2>7. last \in Nat /\ ~Of(gates, "mult", last)
    BY <2>2 DEF Of
  <2>8. Gains(multLayers'[m], multLayers[m], last)
    <3>1. Gains(LayerAppend(multLayers[m], last), multLayers[m], last)
      BY <2>3, <2>7, AppendPlaces
    <3> HIDE DEF m, last
    <3>. QED
      BY <2>6, <3>1, Zenon
  <2>9. /\ Len(gates') <= MaxGates /\ OwnedOnce(gates', "input", inputLayers)
        /\ OwnedOnce(gates', "output", outputLayers)
    BY <1>0, <2>1, CreateOthers
  <2>10. inputLayers' = inputLayers /\ outputLayers' = outputLayers
    BY <1>4 DEF Mult, ioVars
  <2> HIDE DEF gate, S
  <2>11. OneGateMore(gates', gates, last)
    BY <1>0, <2>1, <2>2, CreateOf DEF OneGateMore
  <2>12. SpreadOnce(gates, multLayers)
    BY DEF Placed
  <2>13. SpreadOnce(gates', multLayers')
    <3>1. PICK old, more, new :
             old = multLayers /\ more = multLayers' /\ new = gates'
      OBVIOUS
    <3>2. PICK n : n = m
      OBVIOUS
    <3>3. n \in 1 .. Len(old) /\ Len(more) = Len(old) /\ SpreadOnce(gates, old)
      BY <2>3, <2>6, <2>12, <3>1, <3>2
    <3>4. \A k \in 1 .. Len(old) : k # n => more[k] = old[k]
      BY <2>6, <3>1, <3>2
    <3>5. Gains(more[n], old[n], last)
      BY <2>8, <3>1, <3>2, Zenon
    <3>6. OneGateMore(new, gates, last)
      BY <2>11, <3>1
    <3> HIDE DEF m, last
    <3>7. last \in 1 .. MaxGates /\ ~Of(gates, "mult", last)
      BY <2>2, <2>7
    <3>8. SpreadOnce(new, more)
      BY <3>3, <3>4, <3>5, <3>6, <3>7, AddSpread
    <3>. QED
      BY <3>1, <3>8
  <2>. QED
    BY <2>9, <2>10, <2>13 DEF Placed
<1>5. Len(gates) <= MaxGates /\ SpreadOnce(gates, CurrentLayerClosed)
  BY CurrentClosedSpread DEF Placed
<1>6. CASE NewLayer
  <2>1. CurrentLayerClosed \in Seq(Layer) /\ EmptyLayer \in Layer
    BY CurrentClosedSpread, EmptyLayerOpen DEF Placed
  <2>2. multLayers' = Append(CurrentLayerClosed, EmptyLayer)
    BY <1>6 DEF NewLayer
  <2>3. /\ Len(multLayers') = Len(CurrentLayerClosed) + 1
        /\ \A k \in 1 .. Len(CurrentLayerClosed) : multLayers'[k] = CurrentLayerClosed[k]
        /\ multLayers'[Len(CurrentLayerClosed) + 1] = EmptyLayer
    BY <2>1, <2>2, AppendFacts
  <2>4. Len(CurrentLayerClosed) \in Nat
    BY <2>1
  <2>5. \A g : Places(multLayers'[Len(CurrentLayerClosed) + 1], g) = {}
    BY <2>3, EmptyPlaces
  <2>6. SpreadOnce(gates, multLayers')
    BY <1>5, <2>3, <2>4, <2>5, GrowSpread
  <2>. QED
    BY <1>5, <1>6, <2>6 DEF NewLayer, Placed, ioVars
<1>7. CASE LastLayer
  BY <1>5, <1>7 DEF LastLayer, Placed, ioVars
<1>8. CASE CloseInputs
  <2>1. OwnedOnce(gates, "input", [c \in Clients |-> LayerClose(inputLayers[c])])
    BY CloseOwned DEF Structure, TypeOK, BatchesShaped, Placed
  <2>. QED
    BY <1>8, <2>1 DEF CloseInputs, Placed, multVars
<1>9. CASE CloseOutputs
  <2>1. OwnedOnce(gates, "output", [c \in Clients |-> LayerClose(outputLayers[c])])
    BY CloseOwned DEF Structure, TypeOK, BatchesShaped, Placed
  <2>. QED
    BY <1>9, <2>1 DEF CloseOutputs, Placed, multVars
<1>10. CASE SetNetwork
  BY <1>10 DEF SetNetwork, Placed, ioVars, multVars
<1>11. CASE UNCHANGED vars
  BY <1>11 DEF vars, Placed, ioVars, multVars
<1>. QED
  BY <1>1, <1>2, <1>3, <1>4, <1>6, <1>7, <1>8, <1>9, <1>10, <1>11 DEF Next

\* The places of a gate in a family of layers.
PlacesOfAll(C, layers, g) == UNION { { << c, q >> : q \in Places(layers[c], g) } : c \in C }

\* One of the layers alone has the gate, in one place.
Sole(C, layers, g, o, p) ==
  /\ o \in C /\ Places(layers[o], g) = {p}
  /\ \A c \in C : c # o => Places(layers[c], g) = {}

\* Then the gate has one place in the whole family.
LEMMA PlacesTogether ==
  ASSUME NEW C, NEW layers, NEW g, NEW o, NEW p, Sole(C, layers, g, o, p)
  PROVE  PlacesOfAll(C, layers, g) = { << o, p >> }
<1> DEFINE all == UNION { { << c, q >> : q \in Places(layers[c], g) } : c \in C }
<1>1. ASSUME NEW x \in all PROVE x = << o, p >>
  <2>1. PICK c \in C : x \in { << c, q >> : q \in Places(layers[c], g) }
    OBVIOUS
  <2>2. PICK q \in Places(layers[c], g) : x = << c, q >>
    BY <2>1
  <2>3. c = o
    BY <2>2 DEF Sole
  <2>. QED
    BY <2>2, <2>3 DEF Sole
<1>2. << o, p >> \in all
  <2>1. << o, p >> \in { << o, q >> : q \in Places(layers[o], g) }
    BY DEF Sole
  <2>. QED
    BY <2>1 DEF Sole
<1>. QED
  BY <1>1, <1>2 DEF PlacesOfAll

\* Every gate has one place in what the layers of its kind hold, and a gate that
\* only adds has none.
LEMMA PlacedBatchesOnce == TypeOK /\ Placed => EveryGateBatchedOnce
<1> SUFFICES ASSUME TypeOK, Placed, NEW g \in 1 .. Len(gates)
             PROVE  CASE gates[g].kind = "input" ->
                           (\E x \in PlacesOfAll(Clients, inputLayers, g) :
                              PlacesOfAll(Clients, inputLayers, g) = {x})
                           /\ Places(inputLayers[gates[g].owner], g) # {}
                      [] gates[g].kind = "output" ->
                           (\E x \in PlacesOfAll(Clients, outputLayers, g) :
                              PlacesOfAll(Clients, outputLayers, g) = {x})
                           /\ Places(outputLayers[gates[g].owner], g) # {}
                      [] gates[g].kind = "mult" ->
                           (\E x \in PlacesOfAll(1 .. Len(multLayers), multLayers, g) :
                              PlacesOfAll(1 .. Len(multLayers), multLayers, g) = {x})
                      [] OTHER ->
                           /\ PlacesOfAll(Clients, inputLayers, g) = {}
                           /\ PlacesOfAll(Clients, outputLayers, g) = {}
                           /\ PlacesOfAll(1 .. Len(multLayers), multLayers, g) = {}
  BY DEF EveryGateBatchedOnce, PlacesOfAll
<1>1. g \in 1 .. MaxGates /\ \A kind : Of(gates, kind, g) <=> gates[g].kind = kind
  BY BoundsAssumption DEF TypeOK, Placed, Of
<1>2. /\ gates[g].kind \in {"input", "output", "add", "mult"}
      /\ gates[g].kind \in {"input", "output"} => gates[g].owner \in Clients
  BY DEF TypeOK, InputGates, OutputGates, AddGates, MultGates
<1>3. CASE gates[g].kind = "input"
  <2>1. PICK o \in Clients : o = gates[g].owner
    BY <1>2, <1>3
  <2>2. /\ \E p \in Places(inputLayers[o], g) : Places(inputLayers[o], g) = {p}
        /\ \A c \in Clients : c # o => Places(inputLayers[c], g) = {}
    BY <1>1, <1>3, <2>1 DEF Placed, OwnedOnce
  <2>3. PICK p : Places(inputLayers[o], g) = {p}
    BY <2>2
  <2>4. Sole(Clients, inputLayers, g, o, p)
    BY <2>2, <2>3 DEF Sole
  <2>5. PlacesOfAll(Clients, inputLayers, g) = { << o, p >> }
    BY <2>4, PlacesTogether
  <2>. QED
    BY <1>3, <2>1, <2>3, <2>5
<1>4. CASE gates[g].kind = "output"
  <2>1. PICK o \in Clients : o = gates[g].owner
    BY <1>2, <1>4
  <2>2. /\ \E p \in Places(outputLayers[o], g) : Places(outputLayers[o], g) = {p}
        /\ \A c \in Clients : c # o => Places(outputLayers[c], g) = {}
    BY <1>1, <1>4, <2>1 DEF Placed, OwnedOnce
  <2>3. PICK p : Places(outputLayers[o], g) = {p}
    BY <2>2
  <2>4. Sole(Clients, outputLayers, g, o, p)
    BY <2>2, <2>3 DEF Sole
  <2>5. PlacesOfAll(Clients, outputLayers, g) = { << o, p >> }
    BY <2>4, PlacesTogether
  <2>. QED
    BY <1>4, <2>1, <2>3, <2>5
<1>5. CASE gates[g].kind = "mult"
  <2>1. PICK l \in 1 .. Len(multLayers) :
               /\ \E p \in Places(multLayers[l], g) : Places(multLayers[l], g) = {p}
               /\ \A k \in 1 .. Len(multLayers) : k # l => Places(multLayers[k], g) = {}
    BY <1>1, <1>5 DEF Placed, SpreadOnce
  <2>2. PICK p : Places(multLayers[l], g) = {p}
    BY <2>1
  <2>3. Sole(1 .. Len(multLayers), multLayers, g, l, p)
    BY <2>1, <2>2 DEF Sole
  <2>4. PlacesOfAll(1 .. Len(multLayers), multLayers, g) = { << l, p >> }
    BY <2>3, PlacesTogether
  <2>. QED
    BY <1>5, <2>4
<1>6. CASE gates[g].kind = "add"
  <2>1. \A c \in Clients : Places(inputLayers[c], g) = {} /\ Places(outputLayers[c], g) = {}
    BY <1>1, <1>6 DEF Placed, OwnedOnce
  <2>2. \A l \in 1 .. Len(multLayers) : Places(multLayers[l], g) = {}
    <3>1. ~Of(gates, "mult", g) /\ SpreadOnce(gates, multLayers)
      BY <1>1, <1>6 DEF Placed
    <3>. QED
      BY <1>1, <3>1 DEF SpreadOnce
  <2>3. /\ PlacesOfAll(Clients, inputLayers, g) = {}
        /\ PlacesOfAll(Clients, outputLayers, g) = {}
    BY <2>1 DEF PlacesOfAll
  <2>4. PlacesOfAll(1 .. Len(multLayers), multLayers, g) = {}
    BY <2>2 DEF PlacesOfAll
  <2>. QED
    BY <1>6, <2>3, <2>4
<1>. QED
  BY <1>2, <1>3, <1>4, <1>5, <1>6

\* Whatever the order of the calls, every input, output and multiplication gate is
\* in one slot of one batch, of its owner's where it has one: no close or new
\* layer between two appends drops a gate or batches it twice.
THEOREM GatesBatchedOnce == Spec => []EveryGateBatchedOnce
<1>1. Spec => []Placed
  BY InitPlaced, NextPlaced, StructureInvariant, PTL DEF Spec
<1>. QED
  BY <1>1, PlacedBatchesOnce, TypeCorrect, PTL

-----------------------------------------------------------------------------
(* Circuit::FromConfig.                                                     *)

\* The first layer is built whatever the depth: a configuration of depth 0
\* has its gates before the outputs in common with one of depth 1.
Plan(cf) ==
  [n |-> cf.n, inp |-> cf.inp, out |-> cf.out, width |-> cf.width,
   depth |-> IF cf.depth = 0 THEN 1 ELSE cf.depth]

Valid(cf) == NInputs(cf) # 0 /\ cf.width % NInputs(cf) = 0 /\ NInputs(cf) % 2 = 0

Labels == {"validate", "inputs", "add", "multX", "multY", "outputs", "built", "ready",
           "thrown", "undefined"}
Building == Labels \ {"validate", "thrown", "undefined"}
InLayer == {"add", "multX", "multY"}
Finished == {"built", "ready"}

LocalTypes ==
  /\ config \in Configs /\ pc \in Labels
  /\ party \in Nat /\ item \in Nat /\ depth \in Nat /\ ctr \in Nat

\* A loop over n parties and their gates that is at gate i of party p, counting
\* both from 0, has come past so many of them.
InLoop(n, counts, p, i, past) ==
  /\ p <= n
  /\ i <= (IF p = n THEN 0 ELSE counts[p + 1])
  /\ past = UpTo(counts)[p] + i

\* Gates of the group of the current layer that there are.
OfGroup == CASE pc = "add" -> 0 [] pc = "multX" -> 1 [] OTHER -> 2

\* Every gate is the one of the plan, and as many are there as the loops have
\* come past.
GatesAsPlanned ==
  /\ \A g \in 1 .. Len(gates) : gates[g] = SyntheticGate(Plan(config), g)
  /\ pc \in {"inputs"} \cup InLayer => ctr = 0
  /\ pc = "inputs" => InLoop(config.n, config.inp, party, item, Len(gates))
  /\ pc \in InLayer =>
       /\ depth < Plan(config).depth /\ party = 0
       /\ item <= Groups(config) /\ (pc # "add" => item < Groups(config))
       /\ Len(gates) = GroupBase(config, depth, item) + OfGroup - 1
  /\ pc = "outputs" => InLoop(config.n, config.out, party, item, ctr)
  /\ pc \in {"outputs"} \cup Finished => Len(gates) = FirstOutput(Plan(config)) - 1 + ctr
  /\ pc \in Finished => ctr = NOutputs(config)

\* A layer of the flat view that has come so far.
LayerUpTo(cf, flat, d, n) ==
  Len(flat) = n /\ \A j \in 1 .. n : flat[j] = MultAt(cf, d, j - 1)

LayersAsPlanned ==
  /\ pc = "inputs" => flatMult = << << >> >> /\ depth = 0
  /\ pc \in InLayer =>
       /\ Len(flatMult) = depth + 1
       /\ \A d \in 0 .. depth - 1 : LayerUpTo(config, flatMult[d + 1], d, 2 * Groups(config))
       /\ LayerUpTo(config, flatMult[depth + 1], depth,
                    2 * item + (IF pc = "multY" THEN 1 ELSE 0))
  /\ pc \in {"outputs"} \cup Finished =>
       /\ Len(flatMult) = Plan(config).depth + 1
       /\ \A d \in 0 .. Plan(config).depth - 1 :
            LayerUpTo(config, flatMult[d + 1], d, 2 * Groups(config))
       /\ flatMult[Plan(config).depth + 1] = << >>

\* What the parties own when the loop over them is at party t and its item i:
\* "first" is the first of these gates.
OwnedUpTo(flat, counts, first, t, i) ==
  \A p \in Clients :
    /\ Len(flat[p]) = (IF p < t THEN counts[p + 1] ELSE IF p = t THEN i ELSE 0)
    /\ \A j \in 1 .. Len(flat[p]) : flat[p][j] = first + UpTo(counts)[p] + j - 1

OwnedAsPlanned ==
  /\ pc = "inputs" => OwnedUpTo(flatInputs, config.inp, 1, party, item)
  /\ pc # "inputs" => OwnedUpTo(flatInputs, config.inp, 1, config.n, 0)
  /\ pc \in {"inputs"} \cup InLayer => OwnedUpTo(flatOutputs, config.out, 1, 0, 0)
  /\ pc = "outputs" => OwnedUpTo(flatOutputs, config.out, FirstOutput(Plan(config)), party, item)
  /\ pc \in Finished =>
       isClosed /\ OwnedUpTo(flatOutputs, config.out, FirstOutput(Plan(config)), config.n, 0)

AsPlanned ==
  pc \in Building =>
    /\ Valid(config) /\ Len(config.inp) = config.n /\ Len(config.out) = config.n
    /\ GatesAsPlanned /\ LayersAsPlanned /\ OwnedAsPlanned

AtTheStart == pc = "validate" => Init /\ party = 0 /\ item = 0 /\ depth = 0 /\ ctr = 0

FromConfigInv == LocalTypes /\ AtTheStart /\ AsPlanned /\ UndefinedOnlyWhenEmpty

-----------------------------------------------------------------------------
(* What the first parties own together.                                     *)

\* g adds up the first k numbers, one after the other.
SumsTo(g, counts, k) ==
  /\ g[0] = 0
  /\ \A i \in 1 .. k : g[i] = g[i - 1] + counts[i]

HasSums(counts, k) == \E g \in [0 .. k -> Nat] : SumsTo(g, counts, k)

\* There are such sums of every sequence of numbers.
LEMMA SumsExist ==
  ASSUME NEW counts \in Seq(Nat)
  PROVE  HasSums(counts, Len(counts))
<1> DEFINE T == { k \in Nat : k <= Len(counts) => HasSums(counts, k) }
<1>1. HasSums(counts, 0)
  <2> DEFINE g == [i \in 0 .. 0 |-> 0]
  <2>1. g \in [0 .. 0 -> Nat] /\ SumsTo(g, counts, 0)
    BY DEF SumsTo
  <2>. QED
    BY <2>1 DEF HasSums
<1>2. ASSUME NEW k \in Nat, k + 1 <= Len(counts), HasSums(counts, k)
      PROVE  HasSums(counts, k + 1)
  <2>1. PICK g \in [0 .. k -> Nat] : SumsTo(g, counts, k)
    BY <1>2 DEF HasSums
  <2> DEFINE h == [i \in 0 .. k + 1 |-> IF i <= k THEN g[i] ELSE g[k] + counts[k + 1]]
  <2>2. counts[k + 1] \in Nat /\ g[k] \in Nat
    BY <1>2, <2>1
  <2>3. h \in [0 .. k + 1 -> Nat]
    BY <2>1, <2>2
  <2>4. h[0] = 0
    BY <2>1 DEF SumsTo
  <2>5. ASSUME NEW i \in 1 .. k + 1 PROVE h[i] = h[i - 1] + counts[i]
    <3>1. CASE i <= k
      <4>1. i \in 1 .. k /\ g[i] = g[i - 1] + counts[i]
        BY <2>1, <3>1 DEF SumsTo
      <4>. QED
        BY <4>1
    <3>2. CASE i = k + 1
      BY <3>2
    <3>. QED
      BY <3>1, <3>2
  <2> HIDE DEF h
  <2>. QED
    BY <2>3, <2>4, <2>5 DEF HasSums, SumsTo
<1>3. Len(counts) \in T
  <2>1. 0 \in T /\ \A k \in Nat : k \in T => k + 1 \in T
    BY <1>1, <1>2
  <2> HIDE DEF T
  <2>2. Nat \subseteq T
    BY <2>1, InductiveSet
  <2>. QED
    BY <2>2
<1>. QED
  BY <1>3

IsUpTo(f, counts) == f = [p \in 0 .. Len(counts) |-> IF p = 0 THEN 0 ELSE f[p - 1] + counts[p]]

\* UpTo is these sums.
LEMMA UpToSums ==
  ASSUME NEW counts \in Seq(Nat)
  PROVE  /\ UpTo(counts) \in [0 .. Len(counts) -> Nat]
         /\ SumsTo(UpTo(counts), counts, Len(counts))
<1> DEFINE c == CHOOSE f : IsUpTo(f, counts)
           T == { k \in Nat : k <= Len(counts) => c[k] \in Nat }
<1>1. UpTo(counts) = c
  BY DEF UpTo, IsUpTo
<1>2. PICK g \in [0 .. Len(counts) -> Nat] : SumsTo(g, counts, Len(counts))
  BY SumsExist DEF HasSums
<1>3. IsUpTo(g, counts)
  <2>1. ASSUME NEW p \in 0 .. Len(counts)
        PROVE  g[p] = IF p = 0 THEN 0 ELSE g[p - 1] + counts[p]
    BY <1>2 DEF SumsTo
  <2>. QED
    BY <1>2, <2>1 DEF IsUpTo
<1>4. IsUpTo(c, counts)
  BY <1>3
<1> HIDE DEF c
<1>5. c = [p \in 0 .. Len(counts) |-> IF p = 0 THEN 0 ELSE c[p - 1] + counts[p]]
  BY <1>4 DEF IsUpTo
<1>6. SumsTo(c, counts, Len(counts))
  <2> HIDE DEF T
  <2>1. 0 \in 0 .. Len(counts)
    OBVIOUS
  <2>2. c[0] = 0
    BY <1>5, <2>1
  <2>3. ASSUME NEW i \in 1 .. Len(counts) PROVE c[i] = c[i - 1] + counts[i]
    <3>1. i \in 0 .. Len(counts) /\ i # 0
      OBVIOUS
    <3>. QED
      BY <1>5, <3>1
  <2>. QED
    BY <2>2, <2>3 DEF SumsTo
<1>7. ASSUME NEW k \in Nat, k + 1 <= Len(counts), c[k] \in Nat PROVE c[k + 1] \in Nat
  <2>1. counts[k + 1] \in Nat /\ c[k + 1] = c[k] + counts[k + 1]
    BY <1>6, <1>7 DEF SumsTo
  <2>. QED
    BY <1>7, <2>1
<1>8. 0 \in T /\ \A k \in Nat : k \in T => k + 1 \in T
  BY <1>6, <1>7 DEF SumsTo
<1>9. \A k \in 0 .. Len(counts) : c[k] \in Nat
  <2> HIDE DEF T
  <2>1. Nat \subseteq T
    BY <1>8, InductiveSet
  <2>. QED
    BY <2>1 DEF T
<1>. QED
  BY <1>1, <1>5, <1>6, <1>9

\* One more party.
LEMMA OneParty ==
  ASSUME NEW counts \in Seq(Nat), NEW p \in 1 .. Len(counts)
  PROVE  /\ UpTo(counts)[p - 1] \in Nat /\ UpTo(counts)[p] \in Nat /\ counts[p] \in Nat
         /\ UpTo(counts)[p] = UpTo(counts)[p - 1] + counts[p]
<1>1. p - 1 \in 0 .. Len(counts) /\ p \in 0 .. Len(counts) /\ counts[p] \in Nat
  OBVIOUS
<1>2. PICK s \in [0 .. Len(counts) -> Nat] : s = UpTo(counts) /\ SumsTo(s, counts, Len(counts))
  BY UpToSums
<1>3. s[p] = s[p - 1] + counts[p]
  BY <1>2 DEF SumsTo
<1>. QED
  BY <1>1, <1>2, <1>3

\* More parties own no less.
LEMMA UpToGrows ==
  ASSUME NEW counts \in Seq(Nat), NEW p \in 0 .. Len(counts), NEW q \in p .. Len(counts)
  PROVE  UpTo(counts)[p] \in Nat /\ UpTo(counts)[q] \in Nat /\ UpTo(counts)[p] <= UpTo(counts)[q]
<1> DEFINE s == UpTo(counts)
           T == { k \in Nat : p + k <= Len(counts) => s[p] <= s[p + k] }
<1>1. s \in [0 .. Len(counts) -> Nat]
  BY UpToSums
<1>2. ASSUME NEW k \in Nat, p + (k + 1) <= Len(counts), s[p] <= s[p + k]
      PROVE  s[p] <= s[p + (k + 1)]
  <2>1. PICK r \in 1 .. Len(counts) : r = p + (k + 1) /\ r - 1 = p + k
    BY <1>2
  <2>2. s[r] = s[r - 1] + counts[r] /\ counts[r] \in Nat /\ s[r - 1] \in Nat /\ s[p] \in Nat
    BY <1>1, <2>1, OneParty
  <2> HIDE DEF s
  <2>. QED
    BY <1>2, <2>1, <2>2
<1> HIDE DEF s
<1>3. 0 \in T /\ \A k \in Nat : k \in T => k + 1 \in T
  <2>1. 0 \in T
    BY <1>1
  <2>2. ASSUME NEW k \in Nat, k \in T PROVE k + 1 \in T
    BY <1>2, <2>2
  <2>. QED
    BY <2>1, <2>2
<1>4. PICK k \in Nat : k = q - p /\ p + k = q
  OBVIOUS
<1>5. k \in T
  <2> HIDE DEF T
  <2>1. Nat \subseteq T
    BY <1>3, InductiveSet
  <2>. QED
    BY <2>1
<1>6. s[p] <= s[q] /\ s[p] \in Nat /\ s[q] \in Nat
  BY <1>1, <1>4, <1>5
<1>. QED
  BY <1>6 DEF s

\* The owner of gate j of party p is party p.
LEMMA OwnerIs ==
  ASSUME NEW counts \in Seq(Nat), NEW p \in 1 .. Len(counts), NEW j \in 1 .. counts[p]
  PROVE  /\ OwnerAt(counts, UpTo(counts)[p - 1] + j) = p
         /\ UpTo(counts)[p - 1] + j \in 1 .. Total(counts)
<1> DEFINE s == UpTo(counts)
           k == s[p - 1] + j
           Owns(q) == s[q - 1] < k /\ k <= s[q]
<1>1. s[p - 1] \in Nat /\ counts[p] \in Nat /\ s[p] = s[p - 1] + counts[p]
  BY OneParty
<1>2. Owns(p)
  BY <1>1
<1>3. ASSUME NEW q \in 1 .. Len(counts), Owns(q) PROVE q = p
  <2>0. s[q - 1] \in Nat /\ s[q] \in Nat /\ s[p] \in Nat
    BY <1>1, OneParty
  <2>3. s[q - 1] < k /\ k <= s[q] /\ s[p - 1] < k /\ k <= s[p] /\ k \in Nat
    <3>1. k \in Nat
      BY <1>1
    <3>. QED
      BY <1>2, <1>3, <3>1
  <2>1. CASE q < p
    <3>1. q \in 0 .. Len(counts) /\ p - 1 \in q .. Len(counts)
      BY <2>1
    <3>2. s[q] <= s[p - 1]
      BY <3>1, UpToGrows
    <3> HIDE DEF s, k, Owns
    <3>. QED
      BY <1>1, <2>0, <2>3, <3>2
  <2>2. CASE p < q
    <3>1. p \in 0 .. Len(counts) /\ q - 1 \in p .. Len(counts)
      BY <2>2
    <3>2. s[p] <= s[q - 1]
      BY <3>1, UpToGrows
    <3> HIDE DEF s, k, Owns
    <3>. QED
      BY <1>1, <2>0, <2>3, <3>2
  <2>. QED
    BY <2>1, <2>2
<1>4. OwnerAt(counts, k) = CHOOSE q \in DOMAIN counts : Owns(q)
  BY DEF OwnerAt
<1>5. DOMAIN counts = 1 .. Len(counts)
  OBVIOUS
<1>6. s[p] <= s[Len(counts)] /\ s[Len(counts)] \in Nat
  <2>1. p \in 0 .. Len(counts) /\ Len(counts) \in p .. Len(counts)
    OBVIOUS
  <2>. QED
    BY <2>1, UpToGrows
<1>7. k \in 1 .. Total(counts)
  <2> HIDE DEF s
  <2>. QED
    BY <1>1, <1>6 DEF Total, s
<1>8. OwnerAt(counts, k) = p
  <2> HIDE DEF Owns, k
  <2>. QED
    BY <1>2, <1>3, <1>4, <1>5
<1>. QED
  BY <1>7, <1>8

-----------------------------------------------------------------------------
(* Where the gates of the plan are.                                         *)

Sized(cf) ==
  /\ NInputs(cf) \in Nat /\ NOutputs(cf) \in Nat
  /\ cf.n \in Nat /\ cf.width \in Nat /\ cf.depth \in Nat
  /\ cf.inp \in Seq(Nat) /\ cf.out \in Seq(Nat)

\* A layer has a whole number of groups.
LEMMA GroupsNumber ==
  ASSUME NEW cf, Sized(cf)
  PROVE  Groups(cf) \in Nat
BY DEF Sized, Groups

\* Products of numbers, three of them at a time.
LEMMA Thrice == \A a, b \in Nat : a * b \in Nat /\ (3 * a) * b = 3 * (a * b) /\ b * (3 * a) = 3 * (a * b)
OBVIOUS

\* Groups follow one another, and so do layers, between the inputs and the
\* outputs.
LEMMA GroupPlaces ==
  ASSUME NEW cf, Sized(cf), NEW d \in Nat, NEW i \in Nat
  PROVE  /\ GroupBase(cf, d, i) \in Nat /\ NInputs(cf) < GroupBase(cf, d, i)
         /\ GroupBase(cf, d, i + 1) = GroupBase(cf, d, i) + 3
         /\ GroupBase(cf, d + 1, 0) = GroupBase(cf, d, Groups(cf))
         /\ GroupBase(cf, 0, 0) = NInputs(cf) + 1
         /\ FirstOutput(cf) = GroupBase(cf, cf.depth, 0)
<1>1. PICK n \in Nat, m \in Nat : n = NInputs(cf) /\ m = Groups(cf)
  BY GroupsNumber DEF Sized
<1>2. PICK x \in Nat : x = m * d
  OBVIOUS
<1>3. m * (d + 1) = x + m /\ m * 0 = 0
  BY <1>2
<1>4. \A j \in Nat : GroupBase(cf, d, j) = n + 3 * (x + j) + 1
  BY <1>1, <1>2 DEF GroupBase
<1>5. GroupBase(cf, d + 1, 0) = n + 3 * (x + m + 0) + 1
  BY <1>1, <1>3 DEF GroupBase
<1>6. GroupBase(cf, 0, 0) = n + 1
  BY <1>1, <1>3 DEF GroupBase
<1>7. FirstOutput(cf) = GroupBase(cf, cf.depth, 0)
  <2>1. PICK e \in Nat, y \in Nat : e = cf.depth /\ y = m * e /\ (3 * m) * e = 3 * y
    BY Thrice DEF Sized
  <2>2. FirstOutput(cf) = n + 3 * y + 1
    BY <1>1, <2>1 DEF FirstOutput
  <2>3. GroupBase(cf, cf.depth, 0) = n + 3 * (y + 0) + 1
    BY <1>1, <2>1 DEF GroupBase
  <2>. QED
    BY <2>2, <2>3
<1>8. GroupBase(cf, d, i) = n + 3 * (x + i) + 1 /\ GroupBase(cf, d, i + 1) = n + 3 * (x + (i + 1)) + 1
      /\ GroupBase(cf, d, m) = n + 3 * (x + m) + 1
  BY <1>4
<1>. QED
  BY <1>1, <1>5, <1>6, <1>7, <1>8

\* The groups of all layers come before the outputs.
LEMMA GroupBefore ==
  ASSUME NEW cf, Sized(cf), NEW d \in Nat, d < cf.depth, NEW i \in Nat, i < Groups(cf)
  PROVE  GroupBase(cf, d, i) + 2 < FirstOutput(cf) /\ FirstOutput(cf) \in Nat
<1>1. PICK n \in Nat, m \in Nat, e \in Nat : n = NInputs(cf) /\ m = Groups(cf) /\ e = cf.depth
  BY GroupsNumber DEF Sized
<1>2. PICK x \in Nat, y \in Nat : x = m * d /\ y = m * e /\ (3 * m) * e = 3 * y /\ x = d * m /\ y = e * m
  BY Thrice
<1>3. (d + 1) * m = x + m /\ d + 1 <= e /\ d + 1 \in Nat
  BY <1>1, <1>2, OneMore
<1>4. x + m <= y
  BY <1>2, <1>3, NoFewer
<1>5. GroupBase(cf, d, i) = n + 3 * (x + i) + 1 /\ FirstOutput(cf) = n + 3 * y + 1
  BY <1>1, <1>2 DEF GroupBase, FirstOutput
<1>. QED
  BY <1>1, <1>4, <1>5

\* The place the plan works out for a gate behind the inputs.
PlaceIs(cf, g, d, i, r) ==
  /\ (g - NInputs(cf) - 1) \div (3 * Groups(cf)) = d
  /\ ((g - NInputs(cf) - 1) \div 3) % Groups(cf) = i
  /\ (g - NInputs(cf) - 1) % 3 = r

\* It is the layer, the group and the gate of the group.
LEMMA InnerPlace ==
  ASSUME NEW cf, Sized(cf), NEW d \in Nat, NEW i \in Nat, i < Groups(cf), NEW r \in 0 .. 2
  PROVE  PlaceIs(cf, GroupBase(cf, d, i) + r, d, i, r)
<1>1. PICK n \in Nat, m \in Nat \ {0} : n = NInputs(cf) /\ m = Groups(cf)
  BY GroupsNumber DEF Sized
<1>2. PICK x \in Nat : x = m * d /\ x = d * m /\ d * (3 * m) = 3 * x
  BY Thrice
<1>3. PICK z \in Nat : z = GroupBase(cf, d, i) + r - NInputs(cf) - 1 /\ z = 3 * (x + i) + r
  BY <1>1, <1>2 DEF GroupBase
<1>4. PICK y \in Nat : y = x + i /\ Divided(z, 3, y, r)
  BY <1>3 DEF Divided
<1>5. z \div 3 = y /\ z % 3 = r
  <2>1. 3 \in Nat \ {0} /\ r \in 0 .. 3 - 1
    OBVIOUS
  <2>. QED
    BY <1>4, <2>1, OneQuotient
<1>6. y % m = i
  <2>1. Divided(y, m, d, i) /\ i \in 0 .. m - 1
    BY <1>1, <1>2, <1>4 DEF Divided
  <2>. QED
    BY <2>1, OneQuotient
<1>7. z \div (3 * m) = d
  <2>1. PICK w \in Nat \ {0}, q \in Nat : w = 3 * m /\ q = 3 * i + r /\ q \in 0 .. w - 1
    BY <1>1
  <2>2. Divided(z, w, d, q)
    BY <1>2, <1>3, <2>1 DEF Divided
  <2>. QED
    BY <2>1, <2>2, OneQuotient
<1>8. PICK b \in Nat : b = GroupBase(cf, d, i)
  BY GroupPlaces
<1>9. (b + r) - NInputs(cf) - 1 = z
  BY <1>1, <1>3, <1>8
<1>10. z \div (3 * Groups(cf)) = d /\ (z \div 3) % Groups(cf) = i /\ z % 3 = r
  BY <1>1, <1>5, <1>6, <1>7
<1>11. PlaceIs(cf, b + r, d, i, r)
  BY <1>9, <1>10, Zenon DEF PlaceIs
<1>. QED
  BY <1>8, <1>11

\* The multiplications of a group are behind its addition.
LEMMA MultPlaces ==
  ASSUME NEW cf, NEW d, NEW i \in Nat
  PROVE  MultAt(cf, d, 2 * i) = GroupBase(cf, d, i) + 1 + 0 /\ MultAt(cf, d, 2 * i + 1) = GroupBase(cf, d, i) + 1 + 1
<1>1. (2 * i) \div 2 = i /\ (2 * i) % 2 = 0 /\ (2 * i + 1) \div 2 = i /\ (2 * i + 1) % 2 = 1
  OBVIOUS
<1>. QED
  BY <1>1 DEF MultAt

\* The first output is behind the inputs.
LEMMA OutputsBehind ==
  ASSUME NEW cf, Sized(cf)
  PROVE  NInputs(cf) \in Nat /\ FirstOutput(cf) \in Nat /\ NInputs(cf) < FirstOutput(cf)
<1>1. PICK d \in Nat, i \in Nat : d = cf.depth /\ i = 0
  BY DEF Sized
<1>2. GroupBase(cf, d, i) \in Nat /\ NInputs(cf) < GroupBase(cf, d, i) /\ FirstOutput(cf) = GroupBase(cf, d, i)
  BY <1>1, GroupPlaces
<1>. QED
  BY <1>2 DEF Sized

-----------------------------------------------------------------------------
(* The gates of the plan.                                                   *)

\* The gates of party p that come first are the inputs of the plan.
LEMMA PlanInput ==
  ASSUME NEW cf, Sized(cf), NEW p \in 1 .. Len(cf.inp), NEW j \in 1 .. cf.inp[p]
  PROVE  SyntheticGate(cf, UpTo(cf.inp)[p - 1] + j) = [kind |-> "input", owner |-> p - 1]
<1> DEFINE g == UpTo(cf.inp)[p - 1] + j
<1>1. OwnerAt(cf.inp, g) = p /\ g \in 1 .. NInputs(cf) /\ NInputs(cf) \in Nat
  BY OwnerIs DEF Sized, NInputs
<1>2. NInputs(cf) < FirstOutput(cf) /\ FirstOutput(cf) \in Nat
  BY OutputsBehind
<1> HIDE DEF g
<1>3. g <= NInputs(cf) /\ ~(g >= FirstOutput(cf)) /\ ~(g > NInputs(cf))
  BY <1>1, <1>2
<1>4. SyntheticGate(cf, g) = [kind |-> "input", owner |-> OwnerAt(cf.inp, g) - 1]
  BY <1>3 DEF SyntheticGate
<1>. QED
  BY <1>1, <1>4 DEF g

\* A group of the plan.
LEMMA PlanGroup ==
  ASSUME NEW cf, Sized(cf), NEW d \in Nat, d < cf.depth, NEW i \in Nat, i < Groups(cf)
  PROVE  /\ SyntheticGate(cf, GroupBase(cf, d, i)) =
              [kind |-> "add", left |-> WireAt(cf, d, 2 * i), right |-> WireAt(cf, d, 2 * i + 1)]
         /\ SyntheticGate(cf, GroupBase(cf, d, i) + 1) =
              [kind |-> "mult", left |-> WireAt(cf, d, 2 * i), right |-> GroupBase(cf, d, i)]
         /\ SyntheticGate(cf, GroupBase(cf, d, i) + 2) =
              [kind |-> "mult", left |-> WireAt(cf, d, 2 * i + 1), right |-> GroupBase(cf, d, i)]
<1> DEFINE b == GroupBase(cf, d, i)
           n == NInputs(cf)
           f == FirstOutput(cf)
           Inner(g) == g - n - 1
           D(g) == Inner(g) \div (3 * Groups(cf))
           I(g) == (Inner(g) \div 3) % Groups(cf)
           R(g) == Inner(g) % 3
<1>1. n \in Nat /\ b \in Nat /\ f \in Nat /\ n < b /\ b + 2 < f
  BY GroupPlaces, GroupBefore DEF Sized
<1>2. ASSUME NEW r \in 0 .. 2 PROVE D(b + r) = d /\ I(b + r) = i /\ R(b + r) = r
  <2>1. PlaceIs(cf, b + r, d, i, r)
    BY InnerPlace
  <2> HIDE DEF b
  <2>. QED
    BY <2>1 DEF PlaceIs
<1>3. ASSUME NEW g, ~(g <= n), ~(g >= f), g > n, g < f
      PROVE  SyntheticGate(cf, g) =
               IF R(g) = 0
                 THEN [kind |-> "add", left |-> WireAt(cf, D(g), 2 * I(g)),
                       right |-> WireAt(cf, D(g), 2 * I(g) + 1)]
                 ELSE [kind |-> "mult", left |-> WireAt(cf, D(g), 2 * I(g) + R(g) - 1),
                       right |-> GroupBase(cf, D(g), I(g))]
  BY <1>3 DEF SyntheticGate
<1>4. \A r \in 0 .. 2 : ~(b + r <= n) /\ ~(b + r >= f) /\ b + r > n /\ b + r < f
  <2> HIDE DEF b, n, f
  <2>. QED
    BY <1>1
<1> HIDE DEF D, I, R
<1>5. SyntheticGate(cf, b + 0) =
        [kind |-> "add", left |-> WireAt(cf, d, 2 * i), right |-> WireAt(cf, d, 2 * i + 1)]
  <2>1. D(b + 0) = d /\ I(b + 0) = i /\ R(b + 0) = 0
    BY <1>2
  <2> HIDE DEF b, n, f
  <2>. QED
    BY <1>3, <1>4, <2>1
<1>6. SyntheticGate(cf, b + 1) =
        [kind |-> "mult", left |-> WireAt(cf, d, 2 * i + 1 - 1), right |-> b]
  <2>1. D(b + 1) = d /\ I(b + 1) = i /\ R(b + 1) = 1 /\ b = GroupBase(cf, d, i)
    BY <1>2
  <2> HIDE DEF b, n, f
  <2>. QED
    BY <1>3, <1>4, <2>1
<1>7. SyntheticGate(cf, b + 2) =
        [kind |-> "mult", left |-> WireAt(cf, d, 2 * i + 2 - 1), right |-> b]
  <2>1. D(b + 2) = d /\ I(b + 2) = i /\ R(b + 2) = 2 /\ b = GroupBase(cf, d, i)
    BY <1>2
  <2> HIDE DEF b, n, f
  <2>. QED
    BY <1>3, <1>4, <2>1
<1>8. b + 0 = b /\ 2 * i + 1 - 1 = 2 * i /\ 2 * i + 2 - 1 = 2 * i + 1
  BY <1>1
<1>. QED
  BY <1>5, <1>6, <1>7, <1>8

\* Output number k of the plan, of party p.
LEMMA PlanOutput ==
  ASSUME NEW cf, Sized(cf), NEW p \in 1 .. Len(cf.out), NEW j \in 1 .. cf.out[p],
         NEW k, k = UpTo(cf.out)[p - 1] + j
  PROVE  SyntheticGate(cf, FirstOutput(cf) - 1 + k) =
           [kind |-> "output", owner |-> p - 1,
            left |-> MultAt(cf, cf.depth - 1, (k - 1) % (2 * Groups(cf)))]
<1> DEFINE g == FirstOutput(cf) - 1 + k
<1>1. OwnerAt(cf.out, k) = p /\ k \in 1 .. NOutputs(cf) /\ k \in Nat
  <2>1. UpTo(cf.out)[p - 1] \in Nat
    BY OneParty DEF Sized
  <2>2. OwnerAt(cf.out, k) = p /\ k \in 1 .. Total(cf.out) /\ NOutputs(cf) \in Nat
    BY OwnerIs DEF Sized
  <2>3. k \in 1 .. NOutputs(cf)
    BY <2>2 DEF NOutputs
  <2>. QED
    BY <2>2, <2>3
<1>2. NInputs(cf) < FirstOutput(cf) /\ FirstOutput(cf) \in Nat /\ NInputs(cf) \in Nat
  BY OutputsBehind
<1>3. g >= FirstOutput(cf) /\ ~(g <= NInputs(cf)) /\ ~(g < FirstOutput(cf)) /\ g - FirstOutput(cf) + 1 = k
  BY <1>1, <1>2
<1> HIDE DEF g
<1>4. SyntheticGate(cf, g) =
        [kind |-> "output", owner |-> OwnerAt(cf.out, k) - 1,
         left |-> MultAt(cf, cf.depth - 1, (k - 1) % (2 * Groups(cf)))]
  BY <1>3 DEF SyntheticGate
<1>. QED
  BY <1>1, <1>4 DEF g

-----------------------------------------------------------------------------
(* The configuration and its plan.                                          *)

\* A configuration has its numbers, and so has the plan, which differs in the
\* depth only, and in that only if it is 0.
LEMMA ConfigFacts ==
  ASSUME NEW cf \in Configs
  PROVE  /\ Sized(cf) /\ Clients = 0 .. cf.n - 1
         /\ Sized(Plan(cf)) /\ Plan(cf).depth \in Nat \ {0}
         /\ cf.depth # 0 => Plan(cf) = cf
         /\ cf.depth = 0 => Plan(cf).depth = 1
<1>1. /\ cf \in [n : Nat, inp : Seq(Nat), out : Seq(Nat), width : Nat, depth : Nat]
      /\ Clients = 0 .. cf.n - 1
  BY ConfigsAssumption
<1>2. ASSUME NEW counts \in Seq(Nat) PROVE Total(counts) \in Nat
  <2>1. Len(counts) \in 0 .. Len(counts)
    OBVIOUS
  <2>. QED
    BY <2>1, UpToSums DEF Total
<1>3. Sized(cf)
  BY <1>1, <1>2 DEF Sized, NInputs, NOutputs
<1>4. Plan(cf).inp = cf.inp /\ Plan(cf).out = cf.out /\ Plan(cf).n = cf.n /\ Plan(cf).width = cf.width
  BY DEF Plan
<1>5. Plan(cf).depth \in Nat \ {0} /\ (cf.depth = 0 => Plan(cf).depth = 1)
  BY <1>1 DEF Plan
<1>6. cf.depth # 0 => Plan(cf) = cf
  BY <1>1 DEF Plan
<1>. QED
  BY <1>1, <1>3, <1>4, <1>5, <1>6 DEF Sized, NInputs, NOutputs

\* Inputs, groups and wires do not depend on the depth.
LEMMA PlanSame ==
  ASSUME NEW cf
  PROVE  /\ Plan(cf).n = cf.n /\ Plan(cf).inp = cf.inp /\ Plan(cf).out = cf.out
         /\ Plan(cf).width = cf.width
         /\ NInputs(Plan(cf)) = NInputs(cf) /\ NOutputs(Plan(cf)) = NOutputs(cf)
         /\ Groups(Plan(cf)) = Groups(cf)
         /\ \A d, i : GroupBase(Plan(cf), d, i) = GroupBase(cf, d, i)
         /\ \A d, j : MultAt(Plan(cf), d, j) = MultAt(cf, d, j)
         /\ \A d, j : WireAt(Plan(cf), d, j) = WireAt(cf, d, j)
<1>1. Plan(cf).n = cf.n /\ Plan(cf).inp = cf.inp /\ Plan(cf).out = cf.out /\ Plan(cf).width = cf.width
  BY DEF Plan
<1>2. NInputs(Plan(cf)) = NInputs(cf) /\ NOutputs(Plan(cf)) = NOutputs(cf) /\ Groups(Plan(cf)) = Groups(cf)
  BY <1>1 DEF NInputs, NOutputs, Groups
<1>3. \A d, i : GroupBase(Plan(cf), d, i) = GroupBase(cf, d, i)
  BY <1>2 DEF GroupBase
<1>4. \A d, j : MultAt(Plan(cf), d, j) = MultAt(cf, d, j)
  BY <1>3 DEF MultAt
<1>5. \A d, j : WireAt(Plan(cf), d, j) = WireAt(cf, d, j)
  BY <1>2, <1>4 DEF WireAt
<1>. QED
  BY <1>1, <1>2, <1>3, <1>4, <1>5

\* What validation accepts has an even width.
LEMMA ValidWidth ==
  ASSUME NEW cf, Sized(cf), Valid(cf)
  PROVE  cf.width = 2 * Groups(cf) /\ NInputs(cf) \in Nat \ {0}
<1>1. PICK n \in Nat \ {0}, w \in Nat : n = NInputs(cf) /\ w = cf.width /\ w % n = 0 /\ n % 2 = 0
  BY DEF Sized, Valid
<1>2. PICK q \in Nat, r \in 0 .. n - 1 : w = q * n + r /\ r = w % n
  BY Quotient
<1>3. PICK h \in Nat : n = 2 * h
  BY <1>1
<1>4. PICK x \in Nat : x = q * h /\ q * (2 * h) = 2 * x
  OBVIOUS
<1>5. w = 2 * x
  BY <1>1, <1>2, <1>3, <1>4
<1>6. Groups(cf) = x
  BY <1>1, <1>5 DEF Groups
<1>. QED
  BY <1>1, <1>5, <1>6

\* A group further on in the layer has its gates further on, and so has a
\* multiplication.
LEMMA GroupFurther ==
  ASSUME NEW cf, Sized(cf), NEW d \in Nat, NEW i \in Nat, NEW k \in Nat, i <= k
  PROVE  GroupBase(cf, d, i) <= GroupBase(cf, d, k)
<1>1. PICK n \in Nat, x \in Nat : n = NInputs(cf) /\ x = Groups(cf) * d
  BY GroupsNumber DEF Sized
<1>2. GroupBase(cf, d, i) = n + 3 * (x + i) + 1 /\ GroupBase(cf, d, k) = n + 3 * (x + k) + 1
  BY <1>1 DEF GroupBase
<1>. QED
  BY <1>2

\* The multiplications of a layer are behind the inputs and before the next layer.
LEMMA MultBefore ==
  ASSUME NEW cf, Sized(cf), NEW d \in Nat, NEW j \in Nat, j < 2 * Groups(cf)
  PROVE  /\ MultAt(cf, d, j) \in Nat /\ NInputs(cf) < MultAt(cf, d, j)
         /\ MultAt(cf, d, j) < GroupBase(cf, d + 1, 0)
<1>1. PICK i \in Nat, r \in 0 .. 1 : i = j \div 2 /\ r = j % 2 /\ j = 2 * i + r
  OBVIOUS
<1>2. MultAt(cf, d, j) = GroupBase(cf, d, i) + 1 + r
  BY <1>1 DEF MultAt
<1>3. Groups(cf) \in Nat /\ i + 1 <= Groups(cf)
  BY <1>1, GroupsNumber
<1>4. PICK k \in Nat : k = Groups(cf) /\ i + 1 <= k
  BY <1>3
<1>6. GroupBase(cf, d, i + 1) <= GroupBase(cf, d, k)
  BY <1>3, <1>4, GroupFurther
<1>7. /\ GroupBase(cf, d, Groups(cf)) = GroupBase(cf, d + 1, 0)
      /\ GroupBase(cf, d, i + 1) = GroupBase(cf, d, i) + 3
      /\ GroupBase(cf, d, i) \in Nat /\ NInputs(cf) < GroupBase(cf, d, i)
  BY GroupPlaces
<1>8. GroupBase(cf, d, k) \in Nat
  BY <1>4, GroupPlaces
<1>5. NInputs(cf) \in Nat
  BY DEF Sized
<1>. QED
  BY <1>1, <1>2, <1>4, <1>5, <1>6, <1>7, <1>8

\* What kind of gate is where in the plan.
LEMMA PlanKinds ==
  ASSUME NEW cf, Sized(cf), NEW g \in Nat, g < FirstOutput(cf)
  PROVE  /\ g <= NInputs(cf) => SyntheticGate(cf, g).kind = "input"
         /\ g > NInputs(cf) => SyntheticGate(cf, g).kind \in {"add", "mult"}
<1>1. NInputs(cf) \in Nat /\ FirstOutput(cf) \in Nat
  BY OutputsBehind
<1>3. ~(g >= FirstOutput(cf)) /\ (g <= NInputs(cf) <=> ~(g > NInputs(cf)))
  BY <1>1
<1>4. ASSUME g <= NInputs(cf) PROVE SyntheticGate(cf, g).kind = "input"
  <2>1. SyntheticGate(cf, g) = [kind |-> "input", owner |-> OwnerAt(cf.inp, g) - 1]
    BY <1>3, <1>4 DEF SyntheticGate
  <2>. QED
    BY <2>1
<1>5. ASSUME g > NInputs(cf) PROVE SyntheticGate(cf, g).kind \in {"add", "mult"}
  <2>1. \E l, r : SyntheticGate(cf, g) = [kind |-> "add", left |-> l, right |-> r]
                  \/ SyntheticGate(cf, g) = [kind |-> "mult", left |-> l, right |-> r]
    BY <1>3, <1>5 DEF SyntheticGate
  <2>. QED
    BY <2>1
<1>. QED
  BY <1>4, <1>5

-----------------------------------------------------------------------------
(* How the flat lists grow.                                                 *)

\* A gate that is the plan's next.
LEMMA PlannedAppend ==
  ASSUME NEW S, NEW gs \in Seq(S), NEW gate \in S, NEW cf,
         \A g \in 1 .. Len(gs) : gs[g] = SyntheticGate(cf, g),
         gate = SyntheticGate(cf, Len(gs) + 1)
  PROVE  /\ Len(Append(gs, gate)) = Len(gs) + 1
         /\ \A g \in 1 .. Len(Append(gs, gate)) : Append(gs, gate)[g] = SyntheticGate(cf, g)
<1>1. /\ Len(Append(gs, gate)) = Len(gs) + 1
      /\ \A g \in 1 .. Len(gs) : Append(gs, gate)[g] = gs[g]
      /\ Append(gs, gate)[Len(gs) + 1] = gate
  BY AppendFacts
<1>2. \A g \in 1 .. Len(gs) + 1 : g \in 1 .. Len(gs) \/ g = Len(gs) + 1
  OBVIOUS
<1>. QED
  BY <1>1, <1>2

\* The next multiplication of a layer.
LEMMA LayerAppended ==
  ASSUME NEW flat \in Seq(Nat), NEW cf, NEW d, NEW n \in Nat, LayerUpTo(cf, flat, d, n),
         NEW g \in Nat, g = MultAt(cf, d, n)
  PROVE  LayerUpTo(cf, Append(flat, g), d, n + 1)
<1>1. /\ Len(Append(flat, g)) = Len(flat) + 1
      /\ \A i \in 1 .. Len(flat) : Append(flat, g)[i] = flat[i]
      /\ Append(flat, g)[Len(flat) + 1] = g
  BY AppendFacts
<1>2. Len(flat) = n /\ \A j \in 1 .. n : flat[j] = MultAt(cf, d, j - 1)
  BY DEF LayerUpTo
<1>3. ASSUME NEW j \in 1 .. n + 1 PROVE Append(flat, g)[j] = MultAt(cf, d, j - 1)
  <2>1. CASE j \in 1 .. n
    BY <1>1, <1>2, <2>1
  <2>2. CASE j = n + 1
    <3>1. j - 1 = n
      BY <2>2
    <3>. QED
      BY <1>1, <1>2, <2>2, <3>1
  <2>3. j \in 1 .. n \/ j = n + 1
    OBVIOUS
  <2>. QED
    BY <2>1, <2>2, <2>3, Zenon
<1>. QED
  BY <1>1, <1>2, <1>3 DEF LayerUpTo

\* The next gate of a party.
LEMMA OwnedAppend ==
  ASSUME NEW flat \in [Clients -> Seq(Nat)], NEW counts, NEW first \in Nat,
         NEW t \in Clients, NEW i \in Nat, OwnedUpTo(flat, counts, first, t, i),
         Clients \subseteq Nat, UpTo(counts)[t] \in Nat,
         NEW g \in Nat, g = first + UpTo(counts)[t] + i
  PROVE  OwnedUpTo([flat EXCEPT ![t] = Append(flat[t], g)], counts, first, t, i + 1)
<1> DEFINE new == [flat EXCEPT ![t] = Append(flat[t], g)]
<1>1. /\ Len(Append(flat[t], g)) = Len(flat[t]) + 1
      /\ \A j \in 1 .. Len(flat[t]) : Append(flat[t], g)[j] = flat[t][j]
      /\ Append(flat[t], g)[Len(flat[t]) + 1] = g
  BY AppendFacts
<1>2. new[t] = Append(flat[t], g) /\ \A p \in Clients : p # t => new[p] = flat[p]
  OBVIOUS
<1> HIDE DEF new
<1>3. ASSUME NEW p \in Clients
      PROVE  /\ Len(flat[p]) = (IF p < t THEN counts[p + 1] ELSE IF p = t THEN i ELSE 0)
             /\ \A j \in 1 .. Len(flat[p]) : flat[p][j] = first + UpTo(counts)[p] + j - 1
  BY DEF OwnedUpTo
<1>4. ~(t < t) /\ Len(flat[t]) = i
  BY <1>3
<1>5. ASSUME NEW p \in Clients, p # t
      PROVE  /\ Len(new[p]) = (IF p < t THEN counts[p + 1] ELSE IF p = t THEN i + 1 ELSE 0)
             /\ \A j \in 1 .. Len(new[p]) : new[p][j] = first + UpTo(counts)[p] + j - 1
  BY <1>2, <1>3, <1>5
<1>6. Len(new[t]) = i + 1
  BY <1>1, <1>2, <1>4
<1>7. ASSUME NEW j \in 1 .. i + 1 PROVE new[t][j] = first + UpTo(counts)[t] + j - 1
  <2>1. CASE j \in 1 .. i
    BY <1>1, <1>2, <1>3, <1>4, <2>1
  <2>2. CASE j = i + 1
    <3>1. new[t][j] = g
      BY <1>1, <1>2, <1>4, <2>2
    <3>. QED
      BY <2>2, <3>1
  <2>. QED
    BY <2>1, <2>2
<1>8. OwnedUpTo(new, counts, first, t, i + 1)
  <2>1. ASSUME NEW p \in Clients
        PROVE  /\ Len(new[p]) = (IF p < t THEN counts[p + 1] ELSE IF p = t THEN i + 1 ELSE 0)
               /\ \A j \in 1 .. Len(new[p]) : new[p][j] = first + UpTo(counts)[p] + j - 1
    BY <1>4, <1>5, <1>6, <1>7
  <2>. QED
    BY <2>1 DEF OwnedUpTo
<1>. QED
  BY <1>8 DEF new

\* From one party to the next.
LEMMA OwnedNext ==
  ASSUME NEW flat, NEW counts, NEW first, NEW t \in Nat, Clients \subseteq Nat,
         OwnedUpTo(flat, counts, first, t, counts[t + 1])
  PROVE  OwnedUpTo(flat, counts, first, t + 1, 0)
<1>1. ASSUME NEW p \in Clients
      PROVE  (IF p < t THEN counts[p + 1] ELSE IF p = t THEN counts[t + 1] ELSE 0)
               = (IF p < t + 1 THEN counts[p + 1] ELSE IF p = t + 1 THEN 0 ELSE 0)
  OBVIOUS
<1>. QED
  BY <1>1 DEF OwnedUpTo

\* Nobody owns anything at first, so it does not matter which comes first.
LEMMA OwnedNone ==
  ASSUME NEW flat, NEW counts, NEW first, NEW other, Clients \subseteq Nat
  PROVE  /\ (\A p \in Clients : flat[p] = << >>) => OwnedUpTo(flat, counts, first, 0, 0)
         /\ OwnedUpTo(flat, counts, other, 0, 0) => OwnedUpTo(flat, counts, first, 0, 0)
<1>1. \A p \in Clients : ~(p < 0) /\ (IF p < 0 THEN counts[p + 1] ELSE IF p = 0 THEN 0 ELSE 0) = 0
  OBVIOUS
<1>2. OwnedUpTo(flat, counts, other, 0, 0) => \A p \in Clients : Len(flat[p]) = 0
  BY <1>1 DEF OwnedUpTo
<1>3. (\A p \in Clients : Len(flat[p]) = 0) => OwnedUpTo(flat, counts, first, 0, 0)
  BY <1>1 DEF OwnedUpTo
<1>4. Len(<< >>) = 0
  OBVIOUS
<1>. QED
  BY <1>2, <1>3, <1>4

-----------------------------------------------------------------------------
(* The loops over the parties.                                              *)

\* Where a loop that has come past i gates of party p goes on, counted from 1.
LEMMA PlaceInCounts ==
  ASSUME NEW counts \in Seq(Nat), NEW p \in Nat, p < Len(counts),
         NEW i \in Nat, i < counts[p + 1]
  PROVE  p + 1 \in 1 .. Len(counts) /\ (p + 1) - 1 = p /\ i + 1 \in 1 .. counts[p + 1]
<1>1. p + 1 \in 1 .. Len(counts) /\ (p + 1) - 1 = p
  OBVIOUS
<1>2. counts[p + 1] \in Nat
  BY <1>1
<1>3. i + 1 \in 1 .. counts[p + 1]
  BY <1>2
<1>. QED
  BY <1>1, <1>2, <1>3

\* A loop over the parties begins before the first gate.
LEMMA LoopStart ==
  ASSUME NEW n \in Nat, NEW counts \in Seq(Nat), Len(counts) = n
  PROVE  InLoop(n, counts, 0, 0, 0)
<1>1. UpTo(counts)[0] = 0
  BY UpToSums DEF SumsTo
<1>2. 0 <= (IF 0 = n THEN 0 ELSE counts[0 + 1])
  OBVIOUS
<1>. QED
  BY <1>1, <1>2 DEF InLoop

\* One gate more.
LEMMA LoopItem ==
  ASSUME NEW n \in Nat, NEW counts \in Seq(Nat), Len(counts) = n,
         NEW p \in Nat, p < n, NEW i \in Nat, i < counts[p + 1], NEW past, InLoop(n, counts, p, i, past)
  PROVE  InLoop(n, counts, p, i + 1, past + 1)
<1>1. counts[p + 1] \in Nat /\ UpTo(counts)[p] \in Nat
  <2>1. p \in 0 .. Len(counts) /\ p + 1 \in 1 .. Len(counts)
    OBVIOUS
  <2>. QED
    BY <2>1, UpToSums
<1>2. past = UpTo(counts)[p] + i /\ p <= n /\ ~(p = n)
  BY DEF InLoop
<1>3. PICK u \in Nat, c \in Nat : u = UpTo(counts)[p] /\ c = counts[p + 1]
  BY <1>1
<1>4. past = u + i /\ i < c
  BY <1>2, <1>3
<1>5. past + 1 = u + (i + 1) /\ i + 1 <= c
  BY <1>4
<1>. QED
  BY <1>2, <1>3, <1>5 DEF InLoop

\* One party more.
LEMMA LoopParty ==
  ASSUME NEW n \in Nat, NEW counts \in Seq(Nat), Len(counts) = n,
         NEW p \in Nat, p < n, NEW past, InLoop(n, counts, p, counts[p + 1], past)
  PROVE  InLoop(n, counts, p + 1, 0, past)
<1>1. PICK q \in 1 .. Len(counts) : q = p + 1 /\ q - 1 = p
  OBVIOUS
<1>2. UpTo(counts)[q] = UpTo(counts)[q - 1] + counts[q] /\ UpTo(counts)[q] \in Nat
  BY <1>1, OneParty
<1>3. past = UpTo(counts)[p] + counts[p + 1]
  BY DEF InLoop
<1>4. past = UpTo(counts)[p + 1] + 0
  BY <1>1, <1>2, <1>3
<1>5. p + 1 <= n /\ 0 <= (IF p + 1 = n THEN 0 ELSE counts[p + 1 + 1])
  OBVIOUS
<1>. QED
  BY <1>4, <1>5 DEF InLoop

\* The loop is over when it has come past all.
LEMMA LoopEnd ==
  ASSUME NEW n \in Nat, NEW counts \in Seq(Nat), Len(counts) = n, NEW i \in Nat, NEW past,
         InLoop(n, counts, n, i, past)
  PROVE  i = 0 /\ past = Total(counts) /\ past \in Nat
<1>1. i = 0
  BY DEF InLoop
<1>2. past = UpTo(counts)[n] + 0
  BY <1>1 DEF InLoop
<1>3. UpTo(counts)[n] \in Nat
  BY UpToSums
<1>. QED
  BY <1>1, <1>2, <1>3 DEF Total

\* A party with a gate still to come is one of those that own any.
LEMMA LoopAny ==
  ASSUME NEW counts \in Seq(Nat), NEW p \in Nat, p < Len(counts), NEW i \in Nat, i < counts[p + 1]
  PROVE  Total(counts) > 0
<1>1. PICK q \in 1 .. Len(counts) : q = p + 1
  OBVIOUS
<1>2. i + 1 \in 1 .. counts[q] /\ UpTo(counts)[q - 1] \in Nat
  BY <1>1, OneParty
<1>3. UpTo(counts)[q - 1] + (i + 1) \in 1 .. Total(counts)
  BY <1>2, OwnerIs
<1>4. Total(counts) \in Nat
  <2>1. Len(counts) \in 0 .. Len(counts)
    OBVIOUS
  <2>. QED
    BY <2>1, UpToSums DEF Total
<1>. QED
  BY <1>2, <1>3, <1>4

-----------------------------------------------------------------------------
(* What the loops read.                                                     *)

\* While the inputs are the first gates, the input at an index is the next
\* number.
LEMMA InputAt ==
  ASSUME NEW n \in Nat, Inputs = 1 .. n, NEW k \in Nat, k < n
  PROVE  k < Cardinality(Inputs) /\ GetInputGate(k) = k + 1
<1>1. Cardinality(Inputs) = n
  BY FS_Interval
<1>2. ASSUME NEW g \in 1 .. n PROVE Cardinality({ h \in Inputs : h < g }) = g - 1
  <2>1. { h \in Inputs : h < g } = 1 .. g - 1
    OBVIOUS
  <2>2. Cardinality(1 .. g - 1) = g - 1
    <3>1. 1 \in Int /\ g - 1 \in Int
      OBVIOUS
    <3>. QED
      BY <3>1, FS_Interval
  <2>. QED
    BY <2>1, <2>2
<1>3. k + 1 \in 1 .. n /\ (k + 1) - 1 = k
  OBVIOUS
<1>4. Cardinality({ h \in Inputs : h < k + 1 }) = k
  BY <1>2, <1>3
<1>5. ASSUME NEW g \in Inputs, Cardinality({ h \in Inputs : h < g }) = k PROVE g = k + 1
  <2>1. g \in 1 .. n
    OBVIOUS
  <2>2. Cardinality({ h \in Inputs : h < g }) = g - 1
    BY <1>2, <2>1
  <2>. QED
    BY <1>5, <2>1, <2>2
<1>. QED
  BY <1>1, <1>3, <1>4, <1>5 DEF GetInputGate

\* The invariant, as far as the layers go.
InGroup == pc \in InLayer /\ item < Groups(config)

\* The inputs are the first gates, and all gates are wires.
LEMMA GroupWires ==
  ASSUME FromConfigInv, Structure, InGroup
  PROVE  /\ Inputs = 1 .. NInputs(config) /\ Wires = 1 .. Len(gates)
         /\ NInputs(config) <= GroupBase(config, depth, 0) - 1
         /\ GroupBase(config, depth, 0) - 1 <= Len(gates)
<1>1. /\ pc \in InLayer /\ pc \in Building /\ config \in Configs /\ depth \in Nat /\ item \in Nat
      /\ item < Groups(config)
  BY DEF FromConfigInv, LocalTypes, InGroup, InLayer, Building, Labels
<1>2. /\ \A g \in 1 .. Len(gates) : gates[g] = SyntheticGate(Plan(config), g)
      /\ depth < Plan(config).depth
      /\ Len(gates) = GroupBase(config, depth, item) + OfGroup - 1
  BY <1>1 DEF FromConfigInv, AsPlanned, GatesAsPlanned
<1>3. OfGroup \in 0 .. 2 /\ Len(gates) \in Nat
  BY <1>1 DEF OfGroup, InLayer, Structure, TypeOK
<1>4. Sized(config) /\ Sized(Plan(config))
  BY <1>1, ConfigFacts
<1>5. /\ NInputs(Plan(config)) = NInputs(config) /\ Groups(Plan(config)) = Groups(config)
      /\ GroupBase(Plan(config), depth, item) = GroupBase(config, depth, item)
  BY PlanSame
<1>6. GroupBase(Plan(config), depth, item) + 2 < FirstOutput(Plan(config)) /\ FirstOutput(Plan(config)) \in Nat
  BY <1>1, <1>2, <1>4, <1>5, GroupBefore
<1>7. /\ GroupBase(config, depth, item) \in Nat /\ GroupBase(config, depth, 0) \in Nat
      /\ NInputs(config) < GroupBase(config, depth, 0)
  BY <1>1, <1>4, GroupPlaces
<1>8. GroupBase(config, depth, 0) <= GroupBase(config, depth, item)
  BY <1>1, <1>4, GroupFurther
<1>9. NInputs(config) \in Nat
  BY <1>4 DEF Sized
<1>10. Len(gates) < FirstOutput(Plan(config)) /\ NInputs(config) <= Len(gates)
       /\ GroupBase(config, depth, 0) - 1 <= Len(gates)
  BY <1>2, <1>3, <1>5, <1>6, <1>7, <1>8, <1>9
<1>11. ASSUME NEW g \in 1 .. Len(gates)
       PROVE  /\ g <= NInputs(config) => gates[g].kind = "input"
              /\ g > NInputs(config) => gates[g].kind \in {"add", "mult"}
  <2>1. g \in Nat /\ g < FirstOutput(Plan(config))
    BY <1>3, <1>6, <1>10
  <2>. QED
    BY <1>2, <1>4, <1>5, <2>1, PlanKinds
<1>12. DOMAIN gates = 1 .. Len(gates)
  BY DEF Structure, TypeOK
<1>13. Inputs = 1 .. NInputs(config)
  <2>1. ASSUME NEW g \in 1 .. Len(gates) PROVE gates[g].kind = "input" <=> g <= NInputs(config)
    BY <1>3, <1>9, <1>11
  <2>2. \A g : g \in 1 .. NInputs(config) <=> g \in 1 .. Len(gates) /\ g <= NInputs(config)
    BY <1>3, <1>9, <1>10
  <2>. QED
    BY <1>12, <2>1, <2>2 DEF Inputs
<1>14. Wires = 1 .. Len(gates)
  <2>1. \A g \in 1 .. Len(gates) : gates[g].kind # "output"
    BY <1>3, <1>9, <1>11
  <2>. QED
    BY <2>1 DEF Wires
<1>. QED
  BY <1>7, <1>9, <1>10, <1>13, <1>14

\* The wires the next group reads are there, and are those of the plan.
LEMMA GroupReads ==
  ASSUME FromConfigInv, Structure, InGroup, NEW j \in {2 * item, 2 * item + 1}
  PROVE  Readable(j) /\ Read(j) = WireAt(config, depth, j) /\ Read(j) \in Wires
<1>1. /\ pc \in InLayer /\ pc \in Building /\ config \in Configs /\ depth \in Nat /\ item \in Nat
      /\ item < Groups(config)
  BY DEF FromConfigInv, LocalTypes, InGroup, InLayer, Building, Labels
<1>2. Valid(config) /\ Sized(config)
  BY <1>1, ConfigFacts DEF FromConfigInv, AsPlanned
<1>3. NInputs(config) \in Nat \ {0} /\ Groups(config) \in Nat
  BY <1>2, ValidWidth, GroupsNumber
<1>4. /\ Inputs = 1 .. NInputs(config) /\ Wires = 1 .. Len(gates) /\ Len(gates) \in Nat
      /\ NInputs(config) <= GroupBase(config, depth, 0) - 1
      /\ GroupBase(config, depth, 0) - 1 <= Len(gates) /\ GroupBase(config, depth, 0) \in Nat
  <2>1. Len(gates) \in Nat
    BY DEF Structure, TypeOK
  <2>2. 0 \in Nat /\ depth \in Nat
    BY <1>1
  <2>3. GroupBase(config, depth, 0) \in Nat
    BY <1>2, <2>2, GroupPlaces
  <2>. QED
    BY <2>1, <2>3, GroupWires
<1>5. j \in Nat /\ j < 2 * Groups(config)
  BY <1>1, <1>3
<1>6. CASE depth = 0
  <2>1. PICK k \in Nat : k = j % NInputs(config) /\ k < NInputs(config)
    BY <1>3, <1>5
  <2>2. k < Cardinality(Inputs) /\ GetInputGate(k) = k + 1
    BY <1>3, <1>4, <2>1, InputAt
  <2>3. k + 1 \in 1 .. Len(gates)
    BY <1>3, <1>4, <2>1
  <2>. QED
    BY <1>4, <1>6, <2>1, <2>2, <2>3 DEF Readable, Read, WireAt
<1>7. CASE depth # 0
  <2>1. PICK d \in Nat : d = depth - 1 /\ d + 1 = depth /\ d \in 0 .. depth - 1
    BY <1>1, <1>7
  <2>2. LayerUpTo(config, flatMult[d + 1], d, 2 * Groups(config))
    BY <1>1, <2>1 DEF FromConfigInv, AsPlanned, LayersAsPlanned
  <2>3. flatMult[depth] \in Seq(Nat)
    <3>1. Len(flatMult) = depth + 1
      BY <1>1 DEF FromConfigInv, AsPlanned, LayersAsPlanned
    <3>. QED
      BY <1>1, <1>7, <3>1 DEF Structure, TypeOK
  <2>4. j + 1 \in 1 .. 2 * Groups(config) /\ (j + 1) - 1 = j
    BY <1>3, <1>5
  <2>5. Len(flatMult[depth]) = 2 * Groups(config) /\ flatMult[depth][j + 1] = MultAt(config, d, j)
    BY <2>1, <2>2, <2>4 DEF LayerUpTo
  <2>6. Readable(j) /\ Read(j) = MultAt(config, d, j) /\ WireAt(config, depth, j) = MultAt(config, d, j)
    BY <1>7, <2>1, <2>3, <2>4, <2>5 DEF Readable, Read, WireAt
  <2>7. /\ MultAt(config, d, j) \in Nat /\ NInputs(config) < MultAt(config, d, j)
        /\ MultAt(config, d, j) < GroupBase(config, d + 1, 0)
    BY <1>2, <1>5, MultBefore
  <2>8. MultAt(config, d, j) \in 1 .. Len(gates)
    BY <1>3, <1>4, <2>1, <2>7
  <2>. QED
    BY <1>4, <2>6, <2>8
<1>. QED
  BY <1>6, <1>7

-----------------------------------------------------------------------------
(* One step of FromConfig.                                                  *)

\* The parts of the invariant a step has to establish while it builds.
LEMMA StillBuilding ==
  ASSUME LocalTypes', pc' \in Building, AsPlanned'
  PROVE  FromConfigInv'
<1>1. pc' # "validate" /\ pc' # "undefined"
  BY DEF Building, Labels
<1>. QED
  BY <1>1 DEF FromConfigInv, AtTheStart, UndefinedOnlyWhenEmpty

\* What the invariant says of a configuration that is built.
LEMMA BuildingFacts ==
  ASSUME FromConfigInv, Structure, pc \in Building
  PROVE  /\ config \in Configs /\ config.n \in Nat
         /\ config.inp \in Seq(Nat) /\ config.out \in Seq(Nat)
         /\ Len(config.inp) = config.n /\ Len(config.out) = config.n
         /\ Clients = 0 .. config.n - 1 /\ Clients \subseteq Nat
         /\ party \in Nat /\ item \in Nat /\ depth \in Nat /\ ctr \in Nat
         /\ Valid(config) /\ Sized(config) /\ Sized(Plan(config))
         /\ Len(gates) \in Nat /\ flatInputs \in [Clients -> Seq(Nat)]
         /\ flatOutputs \in [Clients -> Seq(Nat)] /\ flatMult \in Seq(Seq(Nat))
         /\ flatMult # << >>
         /\ GatesAsPlanned /\ LayersAsPlanned /\ OwnedAsPlanned
<1>1. config \in Configs /\ party \in Nat /\ item \in Nat /\ depth \in Nat /\ ctr \in Nat
  BY DEF FromConfigInv, LocalTypes
<1>2. /\ Sized(config) /\ Sized(Plan(config)) /\ Clients = 0 .. config.n - 1 /\ config.n \in Nat
      /\ config.inp \in Seq(Nat) /\ config.out \in Seq(Nat)
  BY <1>1, ConfigFacts DEF Sized
<1>3. Clients \subseteq Nat
  BY <1>2
<1>4. /\ Valid(config) /\ Len(config.inp) = config.n /\ Len(config.out) = config.n
      /\ GatesAsPlanned /\ LayersAsPlanned /\ OwnedAsPlanned
  BY DEF FromConfigInv, AsPlanned
<1>. QED
  BY <1>1, <1>2, <1>3, <1>4 DEF Structure, TypeOK

\* Validation lets through what can be built, and nothing is built yet.
LEMMA ValidateStep ==
  ASSUME FromConfigInv, Structure, Validate
  PROVE  UNCHANGED vars /\ FromConfigInv'
<1>1. /\ pc = "validate" /\ Init /\ party = 0 /\ item = 0 /\ depth = 0 /\ ctr = 0
      /\ config \in Configs
  BY DEF Validate, FromConfigInv, AtTheStart, LocalTypes
<1>2. /\ config' = config /\ party' = party /\ item' = item /\ depth' = depth /\ ctr' = ctr
      /\ UNCHANGED vars
  BY DEF Validate, Goto
<1>3. /\ pc' \in {"thrown", "undefined", "inputs"}
      /\ pc' = "undefined" => NInputs(config) = 0
      /\ pc' = "inputs" => /\ Valid(config)
                           /\ Len(config.inp) = config.n /\ Len(config.out) = config.n
  BY DEF Validate, Goto, Valid
<1>4. LocalTypes'
  BY <1>1, <1>2, <1>3 DEF LocalTypes, Labels
<1>5. CASE pc' # "inputs"
  <2>1. pc' \notin Building /\ pc' # "validate"
    BY <1>3, <1>5 DEF Building
  <2>2. AsPlanned' /\ AtTheStart'
    BY <2>1 DEF AsPlanned, AtTheStart
  <2>3. UndefinedOnlyWhenEmpty'
    BY <1>2, <1>3 DEF UndefinedOnlyWhenEmpty
  <2>. QED
    BY <1>2, <1>4, <2>2, <2>3 DEF FromConfigInv
<1>6. CASE pc' = "inputs"
  <2>1. Sized(config) /\ Clients = 0 .. config.n - 1 /\ Clients \subseteq Nat
    BY <1>1, ConfigFacts DEF Sized
  <2>2. /\ gates' = << >> /\ flatMult' = << << >> >> /\ Len(gates') = 0
        /\ \A c \in Clients : flatInputs'[c] = << >> /\ flatOutputs'[c] = << >>
    BY <1>1, <1>2 DEF Init, vars, ioVars, multVars
  <2>3. InLoop(config.n, config.inp, 0, 0, 0)
    BY <1>3, <1>6, <2>1, LoopStart DEF Sized
  <2>4. GatesAsPlanned'
    BY <1>1, <1>2, <1>6, <2>2, <2>3 DEF GatesAsPlanned, InLayer, Finished
  <2>5. LayersAsPlanned'
    BY <1>1, <1>2, <1>6, <2>2 DEF LayersAsPlanned, InLayer, Finished
  <2>6. OwnedUpTo(flatInputs', config.inp, 1, 0, 0) /\ OwnedUpTo(flatOutputs', config.out, 1, 0, 0)
    BY <2>1, <2>2, OwnedNone
  <2>7. OwnedAsPlanned'
    BY <1>1, <1>2, <1>6, <2>6 DEF OwnedAsPlanned, InLayer, Finished
  <2>8. AsPlanned'
    BY <1>2, <1>3, <1>6, <2>4, <2>5, <2>7 DEF AsPlanned
  <2>9. pc' \in Building
    BY <1>6 DEF Building, Labels
  <2>. QED
    BY <1>2, <1>4, <2>8, <2>9, StillBuilding
<1>. QED
  BY <1>2, <1>5, <1>6

\* Input gates, party by party.
LEMMA InputStep ==
  ASSUME FromConfigInv, Structure, BuildInput
  PROVE  [Next]_vars /\ FromConfigInv'
<1>1. pc = "inputs" /\ pc \in Building
  BY DEF BuildInput, Building, Labels
<1>2. /\ config \in Configs /\ config.n \in Nat
      /\ config.inp \in Seq(Nat) /\ config.out \in Seq(Nat)
      /\ Len(config.inp) = config.n /\ Len(config.out) = config.n
      /\ Clients = 0 .. config.n - 1 /\ Clients \subseteq Nat
      /\ party \in Nat /\ item \in Nat /\ depth \in Nat /\ ctr \in Nat
      /\ Valid(config) /\ Sized(config) /\ Sized(Plan(config))
      /\ Len(gates) \in Nat /\ flatInputs \in [Clients -> Seq(Nat)]
  BY <1>1, BuildingFacts
<1>3. /\ \A g \in 1 .. Len(gates) : gates[g] = SyntheticGate(Plan(config), g)
      /\ InLoop(config.n, config.inp, party, item, Len(gates))
      /\ flatMult = << << >> >> /\ depth = 0 /\ ctr = 0
      /\ OwnedUpTo(flatInputs, config.inp, 1, party, item)
      /\ OwnedUpTo(flatOutputs, config.out, 1, 0, 0)
  BY <1>1, BuildingFacts DEF GatesAsPlanned, LayersAsPlanned, OwnedAsPlanned
<1>4. ASSUME party < config.n, item < config.inp[party + 1], Input(party), item' = item + 1,
             UNCHANGED << config, pc, party, depth, ctr >>
      PROVE  [Next]_vars /\ FromConfigInv'
  <2>1. party \in Clients
    BY <1>2, <1>4
  <2>2. Next
    BY <1>4, <2>1 DEF Next
  <2> DEFINE gate == [kind |-> "input", owner |-> party]
             S == InputGates \cup OutputGates \cup AddGates \cup MultGates
  <2>3. gate \in S /\ gates \in Seq(S) /\ gates' = Append(gates, gate)
    BY <1>4, <2>1 DEF Input, Create, InputGates, Structure, TypeOK
  <2>4. PICK p \in 1 .. Len(config.inp), j \in Nat :
          p = party + 1 /\ p - 1 = party /\ j = item + 1 /\ j \in 1 .. config.inp[p]
    <3>1. /\ config.inp \in Seq(Nat) /\ party \in Nat /\ item \in Nat
          /\ party < Len(config.inp) /\ item < config.inp[party + 1]
      BY <1>2, <1>4
    <3>2. /\ party + 1 \in 1 .. Len(config.inp) /\ (party + 1) - 1 = party
          /\ item + 1 \in 1 .. config.inp[party + 1] /\ item + 1 \in Nat
      BY <3>1, PlaceInCounts
    <3>. QED
      BY <3>2
  <2>5. /\ SyntheticGate(Plan(config), UpTo(config.inp)[party] + j) = gate
        /\ UpTo(config.inp)[party] \in Nat
    <3>1. PICK cf : cf = Plan(config) /\ cf.inp = config.inp /\ Sized(cf)
      BY <1>2, PlanSame
    <3>2. SyntheticGate(cf, UpTo(cf.inp)[p - 1] + j) = [kind |-> "input", owner |-> p - 1]
      BY <2>4, <3>1, PlanInput
    <3>3. UpTo(config.inp)[p - 1] \in Nat
      BY <1>2, OneParty
    <3>. QED
      BY <2>4, <3>1, <3>2, <3>3
  <2>6. PICK u \in Nat : u = UpTo(config.inp)[party] /\ Len(gates) = u + item
    BY <1>3, <2>5 DEF InLoop
  <2>7. Len(gates) + 1 = UpTo(config.inp)[party] + j
    <3>1. item \in Nat /\ j = item + 1
      BY <1>2, <2>4
    <3>2. Len(gates) + 1 = u + j
      BY <2>6, <3>1, SMTT(30)
    <3>. QED
      BY <2>6, <3>2
  <2>8. /\ Len(gates') = Len(gates) + 1
        /\ \A g \in 1 .. Len(gates') : gates'[g] = SyntheticGate(Plan(config), g)
    <3> HIDE DEF gate, S
    <3>1. gate = SyntheticGate(Plan(config), Len(gates) + 1)
      BY <2>5, <2>7
    <3>. QED
      BY <1>3, <2>3, <3>1, PlannedAppend
  <2>9. InLoop(config.n, config.inp, party, item + 1, Len(gates) + 1)
    BY <1>2, <1>3, <1>4, LoopItem
  <2>10. GatesAsPlanned'
    BY <1>1, <1>3, <1>4, <2>8, <2>9 DEF GatesAsPlanned, InLayer, Finished
  <2>11. flatMult' = flatMult /\ flatOutputs' = flatOutputs /\ isClosed' = isClosed
         /\ flatInputs' = [flatInputs EXCEPT ![party] = Append(flatInputs[party], Len(gates) + 1)]
    BY <1>4 DEF Input, NextGate, multVars, flags
  <2>12. LayersAsPlanned'
    BY <1>1, <1>3, <1>4, <2>11 DEF LayersAsPlanned, InLayer, Finished
  <2>13. OwnedUpTo(flatInputs', config.inp, 1, party, item + 1)
    <3>1. PICK g \in Nat : g = Len(gates) + 1 /\ g = 1 + UpTo(config.inp)[party] + item
      <4>1. item \in Nat
        BY <1>2
      <4>2. PICK g \in Nat : g = Len(gates) + 1 /\ g = 1 + u + item
        BY <2>6, <4>1
      <4>. QED
        BY <2>6, <4>2
    <3>2. flatInputs' = [flatInputs EXCEPT ![party] = Append(flatInputs[party], g)]
      BY <2>11, <3>1
    <3>3. 1 \in Nat
      OBVIOUS
    <3>. QED
      BY <1>2, <1>3, <2>1, <2>5, <3>1, <3>2, <3>3, OwnedAppend
  <2>14. OwnedAsPlanned'
    BY <1>1, <1>3, <1>4, <2>11, <2>13 DEF OwnedAsPlanned, InLayer, Finished
  <2>15. pc' \in Building /\ pc' \in Labels
    BY <1>1, <1>4 DEF Building, Labels
  <2>16. LocalTypes'
    <3>1. config \in Configs /\ party \in Nat /\ item \in Nat /\ depth \in Nat /\ ctr \in Nat
      BY <1>2
    <3>2. config' \in Configs /\ party' \in Nat /\ item' \in Nat /\ depth' \in Nat /\ ctr' \in Nat
      BY <1>4, <3>1
    <3>. QED
      BY <2>15, <3>2 DEF LocalTypes
  <2>17. Valid(config') /\ Len(config'.inp) = config'.n /\ Len(config'.out) = config'.n
    BY <1>2, <1>4
  <2>18. AsPlanned'
    BY <2>10, <2>12, <2>14, <2>17 DEF AsPlanned
  <2>. QED
    BY <2>2, <2>15, <2>16, <2>18, StillBuilding
<1>5. ASSUME party < config.n, item = config.inp[party + 1], party' = party + 1, item' = 0,
             UNCHANGED << config, pc, depth, ctr, vars >>
      PROVE  [Next]_vars /\ FromConfigInv'
  <2>1. InLoop(config.n, config.inp, party + 1, 0, Len(gates))
    BY <1>2, <1>3, <1>5, LoopParty
  <2>2. OwnedUpTo(flatInputs, config.inp, 1, party + 1, 0)
    BY <1>2, <1>3, <1>5, OwnedNext
  <2>3. gates' = gates /\ flatMult' = flatMult /\ flatOutputs' = flatOutputs /\ flatInputs' = flatInputs
    BY <1>5 DEF vars, ioVars, multVars
  <2>4. GatesAsPlanned'
    BY <1>1, <1>3, <1>5, <2>1, <2>3 DEF GatesAsPlanned, InLayer, Finished
  <2>5. LayersAsPlanned'
    BY <1>1, <1>3, <1>5, <2>3 DEF LayersAsPlanned, InLayer, Finished
  <2>6. OwnedAsPlanned'
    BY <1>1, <1>3, <1>5, <2>2, <2>3 DEF OwnedAsPlanned, InLayer, Finished
  <2>7. AsPlanned' /\ LocalTypes' /\ pc' \in Building
    BY <1>1, <1>2, <1>5, <2>4, <2>5, <2>6 DEF AsPlanned, LocalTypes, Building, Labels
  <2>. QED
    BY <1>5, <2>7, StillBuilding
<1>6. ASSUME party = config.n, CloseInputs, pc' = "add", party' = 0,
             UNCHANGED << config, item, depth, ctr >>
      PROVE  [Next]_vars /\ FromConfigInv'
  <2>1. item = 0 /\ Len(gates) = NInputs(config)
    BY <1>2, <1>3, <1>6, LoopEnd DEF NInputs
  <2>2. /\ gates' = gates /\ flatMult' = flatMult /\ flatOutputs' = flatOutputs
        /\ flatInputs' = flatInputs
    BY <1>6 DEF CloseInputs, multVars
  <2>3. GroupBase(config, 0, 0) = NInputs(config) + 1 /\ NInputs(config) \in Nat
    <3>1. 0 \in Nat
      OBVIOUS
    <3>. QED
      BY <1>2, <3>1, GroupPlaces DEF Sized
  <2>4. Plan(config).depth \in Nat \ {0} /\ Groups(config) \in Nat
    BY <1>2, ConfigFacts, GroupsNumber
  <2>5. OfGroup' = 0
    BY <1>6 DEF OfGroup
  <2>6. GatesAsPlanned'
    <3>1. Len(gates) = GroupBase(config, 0, 0) + 0 - 1 /\ 0 < Plan(config).depth /\ 0 <= Groups(config)
      BY <2>1, <2>3, <2>4
    <3>. QED
      BY <1>3, <1>6, <2>1, <2>2, <2>5, <3>1 DEF GatesAsPlanned, InLayer, Finished
  <2>7. LayersAsPlanned'
    <3>1. LayerUpTo(config, flatMult[0 + 1], 0, 2 * 0 + 0) /\ Len(flatMult) = 0 + 1
      BY <1>3 DEF LayerUpTo
    <3>2. \A d \in 0 .. 0 - 1 : LayerUpTo(config, flatMult[d + 1], d, 2 * Groups(config))
      OBVIOUS
    <3>. QED
      BY <1>3, <1>6, <2>1, <2>2, <3>1, <3>2 DEF LayersAsPlanned, InLayer, Finished
  <2>8. OwnedAsPlanned'
    BY <1>3, <1>6, <2>1, <2>2 DEF OwnedAsPlanned, InLayer, Finished
  <2>9. AsPlanned' /\ LocalTypes' /\ pc' \in Building
    BY <1>1, <1>2, <1>6, <2>6, <2>7, <2>8 DEF AsPlanned, LocalTypes, Building, Labels
  <2>10. Next
    BY <1>6 DEF Next
  <2>. QED
    BY <2>9, <2>10, StillBuilding
<1>. QED
  BY <1>4, <1>5, <1>6 DEF BuildInput

\* What the invariant says while a layer is built.
LEMMA LayerFacts ==
  ASSUME FromConfigInv, Structure, pc \in InLayer
  PROVE  /\ ctr = 0 /\ party = 0 /\ depth < Plan(config).depth /\ item <= Groups(config)
         /\ pc # "add" => item < Groups(config)
         /\ Len(gates) = GroupBase(config, depth, item) + OfGroup - 1
         /\ \A g \in 1 .. Len(gates) : gates[g] = SyntheticGate(Plan(config), g)
         /\ Len(flatMult) = depth + 1
         /\ \A d \in 0 .. depth - 1 : LayerUpTo(config, flatMult[d + 1], d, 2 * Groups(config))
         /\ LayerUpTo(config, flatMult[depth + 1], depth, 2 * item + (IF pc = "multY" THEN 1 ELSE 0))
         /\ OwnedUpTo(flatInputs, config.inp, 1, config.n, 0)
         /\ OwnedUpTo(flatOutputs, config.out, 1, 0, 0)
         /\ GroupBase(config, depth, item) \in Nat /\ Groups(config) \in Nat
<1>1. pc \in Building /\ pc # "inputs"
  BY DEF InLayer, Building, Labels
<1>2. GroupBase(config, depth, item) \in Nat /\ Groups(config) \in Nat
  BY <1>1, BuildingFacts, GroupPlaces, GroupsNumber
<1>. QED
  BY <1>1, <1>2, BuildingFacts DEF GatesAsPlanned, LayersAsPlanned, OwnedAsPlanned

\* A step within the layers leaves the inputs and outputs alone.
LEMMA StillInLayer ==
  ASSUME FromConfigInv, Structure, pc \in InLayer, pc' \in InLayer,
         UNCHANGED << config, party, ctr, flatInputs, flatOutputs >>,
         item' \in Nat, depth' \in Nat, GatesAsPlanned', LayersAsPlanned'
  PROVE  FromConfigInv'
<1>1. pc \in Building /\ pc' \in Building /\ pc' \in Labels /\ pc' # "inputs" /\ pc' # "outputs"
      /\ pc' \notin Finished
  BY DEF InLayer, Building, Labels, Finished
<1>2. LocalTypes'
  BY <1>1, BuildingFacts DEF LocalTypes
<1>3. OwnedAsPlanned'
  BY <1>1, LayerFacts DEF OwnedAsPlanned
<1>4. AsPlanned'
  BY <1>1, <1>3, BuildingFacts DEF AsPlanned
<1>. QED
  BY <1>1, <1>2, <1>4, StillBuilding

\* The gates of the group that is built are those of the plan.
LEMMA GroupPlanned ==
  ASSUME FromConfigInv, Structure, InGroup
  PROVE  /\ SyntheticGate(Plan(config), GroupBase(config, depth, item)) =
              [kind |-> "add", left |-> Read(2 * item), right |-> Read(2 * item + 1)]
         /\ SyntheticGate(Plan(config), GroupBase(config, depth, item) + 1) =
              [kind |-> "mult", left |-> Read(2 * item), right |-> GroupBase(config, depth, item)]
         /\ SyntheticGate(Plan(config), GroupBase(config, depth, item) + 2) =
              [kind |-> "mult", left |-> Read(2 * item + 1), right |-> GroupBase(config, depth, item)]
<1>1. pc \in InLayer /\ pc \in Building /\ item < Groups(config)
  BY DEF InGroup, InLayer, Building, Labels
<1>2. /\ depth < Plan(config).depth /\ depth \in Nat /\ item \in Nat /\ Sized(Plan(config))
  BY <1>1, LayerFacts, BuildingFacts
<1>3. PICK cf : cf = Plan(config)
  OBVIOUS
<1>4. /\ Groups(cf) = Groups(config) /\ GroupBase(cf, depth, item) = GroupBase(config, depth, item)
      /\ WireAt(cf, depth, 2 * item) = Read(2 * item)
      /\ WireAt(cf, depth, 2 * item + 1) = Read(2 * item + 1)
  BY <1>3, PlanSame, GroupReads
<1>. QED
  BY <1>1, <1>2, <1>3, <1>4, PlanGroup

\* The addition of a group.  The wires it reads are always there.
LEMMA AddStep ==
  ASSUME FromConfigInv, Structure, BuildAdd
  PROVE  [Next]_vars /\ FromConfigInv'
<1>1. pc = "add" /\ pc \in InLayer /\ InGroup /\ pc \in Building
  BY DEF BuildAdd, InGroup, InLayer, Groups, Building, Labels
<1>2. PICK x \in Wires, y \in Wires :
        x = Read(2 * item) /\ y = Read(2 * item + 1) /\ Readable(2 * item) /\ Readable(2 * item + 1)
  BY <1>1, GroupReads
<1>3. Add(x, y) /\ Goto("multX")
  BY <1>2 DEF BuildAdd
<1>4. Next
  BY <1>3 DEF Next
<1> DEFINE gate == [kind |-> "add", left |-> x, right |-> y]
           S == InputGates \cup OutputGates \cup AddGates \cup MultGates
<1>5. gate \in S /\ gates \in Seq(S) /\ gates' = Append(gates, gate)
  BY <1>3 DEF Add, Create, AddGates, Wires, Structure, TypeOK
<1>6. /\ flatMult' = flatMult /\ UNCHANGED << config, party, item, depth, ctr, flatInputs, flatOutputs >>
      /\ pc' = "multX"
  BY <1>3 DEF Add, Goto, ioVars, multVars
<1>7. OfGroup = 0 /\ OfGroup' = 1
  BY <1>1, <1>6 DEF OfGroup
<1>8. Len(gates) + 1 = GroupBase(config, depth, item) /\ Len(gates) \in Nat /\ item \in Nat /\ depth \in Nat
  <2>1. Len(gates) = GroupBase(config, depth, item) + OfGroup - 1
    BY <1>1, LayerFacts
  <2>2. PICK b \in Nat : b = GroupBase(config, depth, item)
    BY <1>1, LayerFacts
  <2>3. Len(gates) \in Nat /\ item \in Nat /\ depth \in Nat
    BY <1>1, BuildingFacts
  <2>. QED
    BY <1>7, <2>1, <2>2, <2>3
<1>9. /\ Len(gates') = Len(gates) + 1
      /\ \A g \in 1 .. Len(gates') : gates'[g] = SyntheticGate(Plan(config), g)
  <2>1. gate = SyntheticGate(Plan(config), Len(gates) + 1)
    BY <1>1, <1>2, <1>8, GroupPlanned
  <2> HIDE DEF gate, S
  <2>. QED
    BY <1>1, <1>5, <2>1, LayerFacts, PlannedAppend
<1>10. Len(gates') = GroupBase(config, depth, item) + OfGroup' - 1
  BY <1>7, <1>8, <1>9
<1>11. GatesAsPlanned'
  BY <1>1, <1>6, <1>9, <1>10, LayerFacts DEF GatesAsPlanned, InLayer, InGroup, Finished
<1>12. LayersAsPlanned'
  BY <1>1, <1>6, LayerFacts DEF LayersAsPlanned, InLayer, Finished
<1>13. pc' \in InLayer /\ item' \in Nat /\ depth' \in Nat
  BY <1>6, <1>8 DEF InLayer
<1>. QED
  BY <1>1, <1>4, <1>6, <1>11, <1>12, <1>13, StillInLayer

\* A multiplication of a group, the first or the second, put behind those that
\* its layer has.
LEMMA MultAppended ==
  ASSUME FromConfigInv, Structure, InGroup, pc # "add", NEW x \in Wires,
         Mult(x, GroupBase(config, depth, item)),
         [kind |-> "mult", left |-> x, right |-> GroupBase(config, depth, item)]
           = SyntheticGate(Plan(config), Len(gates) + 1),
         NEW n \in Nat, LayerUpTo(config, flatMult[depth + 1], depth, n),
         Len(gates) + 1 = MultAt(config, depth, n)
  PROVE  /\ Len(gates') = Len(gates) + 1
         /\ \A g \in 1 .. Len(gates') : gates'[g] = SyntheticGate(Plan(config), g)
         /\ Len(flatMult') = depth + 1
         /\ \A d \in 0 .. depth - 1 : LayerUpTo(config, flatMult'[d + 1], d, 2 * Groups(config))
         /\ LayerUpTo(config, flatMult'[depth + 1], depth, n + 1)
         /\ flatInputs' = flatInputs /\ flatOutputs' = flatOutputs
<1>1. pc \in InLayer /\ pc \in Building
  BY DEF InGroup, InLayer, Building, Labels
<1> DEFINE gate == [kind |-> "mult", left |-> x, right |-> GroupBase(config, depth, item)]
           S == InputGates \cup OutputGates \cup AddGates \cup MultGates
<1>2. gate \in S /\ gates \in Seq(S) /\ gates' = Append(gates, gate)
  BY <1>1, LayerFacts DEF Mult, Create, MultGates, Wires, Structure, TypeOK
<1>3. /\ Len(gates') = Len(gates) + 1
      /\ \A g \in 1 .. Len(gates') : gates'[g] = SyntheticGate(Plan(config), g)
  <2>1. gate = SyntheticGate(Plan(config), Len(gates) + 1)
    OBVIOUS
  <2> HIDE DEF gate, S
  <2>. QED
    BY <1>1, <1>2, <2>1, LayerFacts, PlannedAppend
<1>4. /\ flatMult' = [flatMult EXCEPT ![depth + 1] = Append(flatMult[depth + 1], Len(gates) + 1)]
      /\ flatInputs' = flatInputs /\ flatOutputs' = flatOutputs
  BY <1>1, LayerFacts DEF Mult, NextGate, ioVars
<1>5. depth \in Nat /\ flatMult \in Seq(Seq(Nat)) /\ Len(flatMult) = depth + 1 /\ Len(gates) + 1 \in Nat
  BY <1>1, LayerFacts, BuildingFacts
<1>6. depth + 1 \in 1 .. Len(flatMult) /\ flatMult[depth + 1] \in Seq(Nat)
  BY <1>5
<1>7. /\ flatMult'[depth + 1] = Append(flatMult[depth + 1], Len(gates) + 1)
      /\ \A d \in 0 .. depth - 1 : flatMult'[d + 1] = flatMult[d + 1]
      /\ Len(flatMult') = Len(flatMult)
  BY <1>4, <1>5, <1>6
<1>8. LayerUpTo(config, flatMult'[depth + 1], depth, n + 1)
  BY <1>5, <1>6, <1>7, LayerAppended
<1>9. \A d \in 0 .. depth - 1 : LayerUpTo(config, flatMult'[d + 1], d, 2 * Groups(config))
  BY <1>1, <1>7, LayerFacts
<1>. QED
  BY <1>3, <1>4, <1>5, <1>7, <1>8, <1>9

\* x * add.
LEMMA MultXStep ==
  ASSUME FromConfigInv, Structure, BuildMultX
  PROVE  [Next]_vars /\ FromConfigInv'
<1>1. pc = "multX" /\ pc \in InLayer /\ pc \in Building
  BY DEF BuildMultX, InLayer, Building, Labels
<1>2. InGroup /\ item \in Nat /\ depth \in Nat /\ Len(gates) \in Nat
  BY <1>1, LayerFacts, BuildingFacts DEF InGroup
<1>3. OfGroup = 1
  BY <1>1 DEF OfGroup
<1>4. Len(gates) = GroupBase(config, depth, item) /\ GroupBase(config, depth, item) \in Nat
  BY <1>1, <1>3, LayerFacts
<1>5. Mult(Read(2 * item), GroupBase(config, depth, item)) /\ Goto("multY")
  BY <1>4 DEF BuildMultX
<1>6. Read(2 * item) \in Wires
  BY <1>2, GroupReads
<1>7. GroupBase(config, depth, item) \in Wires
  <2>1. Wires = 1 .. Len(gates)
    BY <1>2, GroupWires
  <2>2. GroupBase(config, depth, item) > 0
    <3>1. NInputs(config) < GroupBase(config, depth, item) /\ NInputs(config) \in Nat
      BY <1>1, <1>2, BuildingFacts, GroupPlaces DEF Sized
    <3>. QED
      BY <1>4, <3>1
  <2>. QED
    BY <1>4, <2>1, <2>2
<1>8. Next
  BY <1>5, <1>6, <1>7 DEF Next
<1>9. Len(gates) + 1 = MultAt(config, depth, 2 * item)
  BY <1>2, <1>4, MultPlaces
<1>10. LayerUpTo(config, flatMult[depth + 1], depth, 2 * item) /\ 2 * item \in Nat
  BY <1>1, <1>2, LayerFacts
<1>11. [kind |-> "mult", left |-> Read(2 * item), right |-> GroupBase(config, depth, item)]
         = SyntheticGate(Plan(config), Len(gates) + 1)
  BY <1>2, <1>4, GroupPlanned
<1>12. /\ Len(gates') = Len(gates) + 1
       /\ \A g \in 1 .. Len(gates') : gates'[g] = SyntheticGate(Plan(config), g)
       /\ Len(flatMult') = depth + 1
       /\ \A d \in 0 .. depth - 1 : LayerUpTo(config, flatMult'[d + 1], d, 2 * Groups(config))
       /\ LayerUpTo(config, flatMult'[depth + 1], depth, 2 * item + 1)
       /\ flatInputs' = flatInputs /\ flatOutputs' = flatOutputs
  BY <1>1, <1>2, <1>5, <1>6, <1>9, <1>10, <1>11, MultAppended
<1>13. pc' = "multY" /\ UNCHANGED << config, party, item, depth, ctr >>
  BY <1>5 DEF Goto
<1>14. Len(gates') = GroupBase(config, depth, item) + OfGroup' - 1
  BY <1>4, <1>12, <1>13 DEF OfGroup
<1>15. GatesAsPlanned'
  BY <1>1, <1>12, <1>13, <1>14, LayerFacts DEF GatesAsPlanned, InLayer, Finished
<1>16. LayersAsPlanned'
  BY <1>1, <1>12, <1>13 DEF LayersAsPlanned, InLayer, Finished
<1>17. pc' \in InLayer /\ item' \in Nat /\ depth' \in Nat
  BY <1>2, <1>13 DEF InLayer
<1>. QED
  BY <1>1, <1>8, <1>12, <1>13, <1>15, <1>16, <1>17, StillInLayer

\* y * add, and on to the next group.
LEMMA MultYStep ==
  ASSUME FromConfigInv, Structure, BuildMultY
  PROVE  [Next]_vars /\ FromConfigInv'
<1>1. pc = "multY" /\ pc \in InLayer /\ pc \in Building
  BY DEF BuildMultY, InLayer, Building, Labels
<1>2. InGroup /\ item \in Nat /\ depth \in Nat /\ Len(gates) \in Nat
  BY <1>1, LayerFacts, BuildingFacts DEF InGroup
<1>3. OfGroup = 2
  BY <1>1 DEF OfGroup
<1>4. Len(gates) = GroupBase(config, depth, item) + 1 /\ GroupBase(config, depth, item) \in Nat
  BY <1>1, <1>3, LayerFacts
<1>5. /\ Mult(Read(2 * item + 1), GroupBase(config, depth, item))
      /\ pc' = "add" /\ item' = item + 1 /\ UNCHANGED << config, party, depth, ctr >>
  <2>1. SumOfGroup = GroupBase(config, depth, item)
    BY <1>4 DEF SumOfGroup
  <2>. QED
    BY <2>1 DEF BuildMultY, GroupDone
<1>6. Read(2 * item + 1) \in Wires
  BY <1>2, GroupReads
<1>7. GroupBase(config, depth, item) \in Wires
  <2>1. Wires = 1 .. Len(gates)
    BY <1>2, GroupWires
  <2>2. GroupBase(config, depth, item) > 0
    <3>1. NInputs(config) < GroupBase(config, depth, item) /\ NInputs(config) \in Nat
      BY <1>1, <1>2, BuildingFacts, GroupPlaces DEF Sized
    <3>. QED
      BY <1>4, <3>1
  <2>. QED
    BY <1>4, <2>1, <2>2
<1>8. Next
  BY <1>5, <1>6, <1>7 DEF Next
<1>9. Len(gates) + 1 = MultAt(config, depth, 2 * item + 1) /\ Len(gates) + 1 = GroupBase(config, depth, item) + 2
  BY <1>2, <1>4, MultPlaces
<1>10. LayerUpTo(config, flatMult[depth + 1], depth, 2 * item + 1) /\ 2 * item + 1 \in Nat
  BY <1>1, <1>2, LayerFacts
<1>11. [kind |-> "mult", left |-> Read(2 * item + 1), right |-> GroupBase(config, depth, item)]
         = SyntheticGate(Plan(config), Len(gates) + 1)
  BY <1>2, <1>9, GroupPlanned
<1>12. /\ Len(gates') = Len(gates) + 1
       /\ \A g \in 1 .. Len(gates') : gates'[g] = SyntheticGate(Plan(config), g)
       /\ Len(flatMult') = depth + 1
       /\ \A d \in 0 .. depth - 1 : LayerUpTo(config, flatMult'[d + 1], d, 2 * Groups(config))
       /\ LayerUpTo(config, flatMult'[depth + 1], depth, (2 * item + 1) + 1)
       /\ flatInputs' = flatInputs /\ flatOutputs' = flatOutputs
  BY <1>1, <1>2, <1>5, <1>6, <1>9, <1>10, <1>11, MultAppended
<1>13. item + 1 \in Nat /\ item + 1 <= Groups(config) /\ (2 * item + 1) + 1 = 2 * (item + 1) + 0
  BY <1>1, <1>2, LayerFacts DEF InGroup
<1>14. Len(gates') = GroupBase(config, depth, item + 1) + 0 - 1
  <2>1. GroupBase(config, depth, item + 1) = GroupBase(config, depth, item) + 3
    BY <1>1, <1>2, BuildingFacts, GroupPlaces
  <2>. QED
    BY <1>4, <1>12, <2>1
<1>15. OfGroup' = 0
  BY <1>5 DEF OfGroup
<1>16. GatesAsPlanned'
  BY <1>1, <1>5, <1>12, <1>13, <1>14, <1>15, LayerFacts DEF GatesAsPlanned, InLayer, Finished
<1>17. LayersAsPlanned'
  BY <1>5, <1>12, <1>13 DEF LayersAsPlanned, InLayer, Finished
<1>18. pc' \in InLayer /\ item' \in Nat /\ depth' \in Nat
  BY <1>2, <1>5, <1>13 DEF InLayer
<1>. QED
  BY <1>1, <1>5, <1>8, <1>12, <1>16, <1>17, <1>18, StillInLayer

\* A layer that has all its groups, and the empty one opened behind it.
LEMMA LayerOpened ==
  ASSUME FromConfigInv, Structure, pc = "add", item = Groups(config),
         flatMult' = Append(flatMult, << >>)
  PROVE  /\ Len(gates) = GroupBase(config, depth + 1, 0) - 1
         /\ GroupBase(config, depth + 1, 0) \in Nat
         /\ Len(flatMult') = depth + 2
         /\ \A d \in 0 .. depth : LayerUpTo(config, flatMult'[d + 1], d, 2 * Groups(config))
         /\ flatMult'[depth + 2] = << >>
<1>1. pc \in InLayer /\ pc \in Building
  BY DEF InLayer, Building, Labels
<1>2. depth \in Nat /\ flatMult \in Seq(Seq(Nat)) /\ Len(flatMult) = depth + 1 /\ Sized(config)
  BY <1>1, LayerFacts, BuildingFacts
<1>3. OfGroup = 0
  BY DEF OfGroup
<1>4. Len(gates) = GroupBase(config, depth, Groups(config)) - 1
  BY <1>1, <1>3, LayerFacts
<1>5. GroupBase(config, depth + 1, 0) = GroupBase(config, depth, Groups(config))
      /\ GroupBase(config, depth + 1, 0) \in Nat
  <2>1. 0 \in Nat /\ depth + 1 \in Nat
    BY <1>2
  <2>. QED
    BY <1>2, <2>1, GroupPlaces
<1>6. << >> \in Seq(Nat)
  OBVIOUS
<1>7. /\ Len(flatMult') = Len(flatMult) + 1
      /\ \A l \in 1 .. Len(flatMult) : flatMult'[l] = flatMult[l]
      /\ flatMult'[Len(flatMult) + 1] = << >>
  BY <1>2, <1>6, AppendFacts
<1>8. ASSUME NEW d \in 0 .. depth
      PROVE  LayerUpTo(config, flatMult'[d + 1], d, 2 * Groups(config))
  <2>1. flatMult'[d + 1] = flatMult[d + 1]
    BY <1>2, <1>7
  <2>2. CASE d = depth
    <3>1. LayerUpTo(config, flatMult[depth + 1], depth, 2 * Groups(config) + 0) /\ Groups(config) \in Nat
      BY <1>1, LayerFacts
    <3>2. 2 * Groups(config) + 0 = 2 * Groups(config)
      BY <3>1
    <3>. QED
      BY <2>1, <2>2, <3>1, <3>2
  <2>3. CASE d # depth
    <3>1. d \in 0 .. depth - 1
      BY <1>2, <2>3
    <3>. QED
      BY <1>1, <2>1, <3>1, LayerFacts
  <2>. QED
    BY <2>2, <2>3
<1>9. Len(flatMult) + 1 = depth + 2
  BY <1>2
<1>. QED
  BY <1>4, <1>5, <1>7, <1>8, <1>9

\* The next layer.
LEMMA NextLayerStep ==
  ASSUME FromConfigInv, Structure, BuildNextLayer
  PROVE  [Next]_vars /\ FromConfigInv'
<1>1. pc = "add" /\ pc \in InLayer /\ pc \in Building
  BY DEF BuildNextLayer, InLayer, Building, Labels
<1>2. /\ depth \in Nat /\ config \in Configs /\ Groups(config) \in Nat
      /\ item = Groups(config) /\ depth + 1 < config.depth
  BY <1>1, BuildingFacts, LayerFacts DEF BuildNextLayer, Groups
<1>3. /\ flatMult' = Append(flatMult, << >>) /\ gates' = gates
      /\ UNCHANGED << config, pc, party, ctr, flatInputs, flatOutputs >>
      /\ depth' = depth + 1 /\ item' = 0
  BY DEF BuildNextLayer, NewLayer, LoopReset, ioVars
<1>4. Next
  BY DEF BuildNextLayer, Next
<1>5. depth + 1 < Plan(config).depth
  BY <1>2 DEF Plan
<1>6. /\ Len(gates) = GroupBase(config, depth + 1, 0) - 1 /\ GroupBase(config, depth + 1, 0) \in Nat
      /\ Len(flatMult') = depth + 2
      /\ \A d \in 0 .. depth : LayerUpTo(config, flatMult'[d + 1], d, 2 * Groups(config))
      /\ flatMult'[depth + 2] = << >>
  BY <1>1, <1>2, <1>3, LayerOpened
<1>7. OfGroup' = 0 /\ Len(gates') = GroupBase(config, depth + 1, 0) + 0 - 1
  BY <1>1, <1>3, <1>6 DEF OfGroup
<1>8. GatesAsPlanned'
  BY <1>1, <1>2, <1>3, <1>5, <1>7, LayerFacts DEF GatesAsPlanned, InLayer, Finished
<1>9. LayersAsPlanned'
  <2>1. depth + 2 = (depth + 1) + 1 /\ (depth + 1) - 1 = depth
    BY <1>2
  <2>2. LayerUpTo(config, flatMult'[(depth + 1) + 1], depth + 1, 2 * 0 + 0)
    BY <1>6, <2>1 DEF LayerUpTo
  <2>. QED
    BY <1>1, <1>3, <1>6, <2>1, <2>2 DEF LayersAsPlanned, InLayer, Finished
<1>10. pc' \in InLayer /\ item' \in Nat /\ depth' \in Nat
  BY <1>1, <1>2, <1>3
<1>. QED
  BY <1>1, <1>3, <1>4, <1>8, <1>9, <1>10, StillInLayer

\* The last layer: the outputs start where the plan has them.
LEMMA LastLayerStep ==
  ASSUME FromConfigInv, Structure, BuildLastLayer
  PROVE  [Next]_vars /\ FromConfigInv'
<1>1. pc = "add" /\ pc \in InLayer /\ pc \in Building
  BY DEF BuildLastLayer, InLayer, Building, Labels
<1>2. /\ depth \in Nat /\ config \in Configs /\ Groups(config) \in Nat
      /\ item = Groups(config) /\ depth + 1 >= config.depth
  BY <1>1, BuildingFacts, LayerFacts DEF BuildLastLayer, Groups
<1>3. /\ flatMult' = Append(flatMult, << >>) /\ gates' = gates
      /\ UNCHANGED << config, party, depth, ctr, flatInputs, flatOutputs >>
      /\ pc' = "outputs" /\ item' = 0
  BY DEF BuildLastLayer, LastLayer, LoopReset, ioVars
<1>4. Next
  BY DEF BuildLastLayer, Next
<1>5. Plan(config).depth = depth + 1 /\ Sized(Plan(config)) /\ Sized(config)
  <2>1. depth < Plan(config).depth
    BY <1>1, LayerFacts
  <2>2. config.depth \in Nat /\ Sized(Plan(config)) /\ Sized(config)
    BY <1>2, ConfigFacts DEF Sized
  <2>. QED
    BY <1>2, <2>1, <2>2 DEF Plan
<1>6. /\ Len(gates) = GroupBase(config, depth + 1, 0) - 1 /\ GroupBase(config, depth + 1, 0) \in Nat
      /\ Len(flatMult') = depth + 2
      /\ \A d \in 0 .. depth : LayerUpTo(config, flatMult'[d + 1], d, 2 * Groups(config))
      /\ flatMult'[depth + 2] = << >>
  BY <1>1, <1>2, <1>3, LayerOpened
<1>7. FirstOutput(Plan(config)) = GroupBase(config, depth + 1, 0)
  <2>1. 0 \in Nat
    OBVIOUS
  <2>2. FirstOutput(Plan(config)) = GroupBase(Plan(config), Plan(config).depth, 0)
    BY <1>2, <1>5, <2>1, GroupPlaces
  <2>. QED
    BY <1>5, <2>2, PlanSame
<1>8. Len(gates') = FirstOutput(Plan(config)) - 1 + ctr
  BY <1>1, <1>3, <1>6, <1>7, LayerFacts
<1>9. /\ config.n \in Nat /\ config.out \in Seq(Nat) /\ Len(config.out) = config.n /\ Clients \subseteq Nat
      /\ ctr = 0 /\ party = 0
  BY <1>1, BuildingFacts, LayerFacts
<1>10. InLoop(config.n, config.out, party, 0, ctr)
  BY <1>9, LoopStart
<1>11. GatesAsPlanned'
  BY <1>1, <1>3, <1>8, <1>10, LayerFacts DEF GatesAsPlanned, InLayer, Finished
<1>12. LayersAsPlanned'
  <2>1. depth + 2 = (depth + 1) + 1 /\ (depth + 1) - 1 = depth
    BY <1>2
  <2>. QED
    BY <1>3, <1>5, <1>6, <2>1 DEF LayersAsPlanned, InLayer, Finished
<1>13. OwnedAsPlanned'
  <2>1. OwnedUpTo(flatOutputs, config.out, FirstOutput(Plan(config)), 0, 0)
    BY <1>1, <1>9, LayerFacts, OwnedNone
  <2>. QED
    BY <1>1, <1>3, <1>9, <2>1, LayerFacts DEF OwnedAsPlanned, InLayer, Finished
<1>14. AsPlanned' /\ LocalTypes' /\ pc' \in Building
  BY <1>1, <1>3, <1>11, <1>12, <1>13, BuildingFacts DEF AsPlanned, LocalTypes, Building, Labels
<1>. QED
  BY <1>4, <1>14, StillBuilding

\* What the invariant says while the outputs are made.
LEMMA OutputFacts ==
  ASSUME FromConfigInv, Structure, pc = "outputs"
  PROVE  /\ \A g \in 1 .. Len(gates) : gates[g] = SyntheticGate(Plan(config), g)
         /\ InLoop(config.n, config.out, party, item, ctr)
         /\ Len(gates) = FirstOutput(Plan(config)) - 1 + ctr /\ FirstOutput(Plan(config)) \in Nat
         /\ Len(flatMult) = Plan(config).depth + 1
         /\ \A d \in 0 .. Plan(config).depth - 1 :
              LayerUpTo(config, flatMult[d + 1], d, 2 * Groups(config))
         /\ flatMult[Plan(config).depth + 1] = << >>
         /\ OwnedUpTo(flatInputs, config.inp, 1, config.n, 0)
         /\ OwnedUpTo(flatOutputs, config.out, FirstOutput(Plan(config)), party, item)
<1>1. pc \in Building
  BY DEF Building, Labels
<1>2. FirstOutput(Plan(config)) \in Nat
  BY <1>1, BuildingFacts, OutputsBehind
<1>. QED
  BY <1>1, <1>2, BuildingFacts DEF GatesAsPlanned, LayersAsPlanned, OwnedAsPlanned

\* With layers that are not empty every output has a gate to come from: the
\* multiplication of the last layer that the plan has for it.
LEMMA OutputSource ==
  ASSUME FromConfigInv, Structure, pc = "outputs", config.width # 0, config.depth # 0
  PROVE  /\ OutputDefined /\ Plan(config) = config
         /\ flatMult[config.depth][(ctr % config.width) + 1] =
              MultAt(config, config.depth - 1, ctr % (2 * Groups(config)))
         /\ flatMult[config.depth][(ctr % config.width) + 1] \in Wires
<1>1. pc \in Building
  BY DEF Building, Labels
<1>2. config \in Configs /\ Sized(config) /\ Valid(config) /\ ctr \in Nat /\ Len(gates) \in Nat
      /\ flatMult \in Seq(Seq(Nat))
  BY <1>1, BuildingFacts
<1>3. Plan(config) = config /\ config.depth \in Nat \ {0}
  BY <1>2, ConfigFacts DEF Sized
<1>4. config.width = 2 * Groups(config) /\ Groups(config) \in Nat /\ NInputs(config) \in Nat
  BY <1>2, ValidWidth, GroupsNumber
<1>5. PICK k \in Nat : k = ctr % config.width /\ k < config.width
  BY <1>2, <1>4
<1>6. PICK d \in Nat : d = config.depth - 1 /\ d + 1 = config.depth /\ d \in 0 .. config.depth - 1
  BY <1>3
<1>7. /\ LayerUpTo(config, flatMult[d + 1], d, 2 * Groups(config))
      /\ Len(flatMult) = config.depth + 1
      /\ Len(gates) = FirstOutput(config) - 1 + ctr /\ FirstOutput(config) \in Nat
      /\ \A g \in 1 .. Len(gates) : gates[g] = SyntheticGate(config, g)
  BY <1>3, <1>6, OutputFacts
<1>8. config.depth \in DOMAIN flatMult /\ flatMult[config.depth] \in Seq(Nat)
  <2>1. flatMult \in Seq(Seq(Nat))
    BY <1>2
  <2>2. config.depth \in 1 .. Len(flatMult)
    BY <1>3, <1>7
  <2>. QED
    BY <2>1, <2>2
<1>9. k + 1 \in 1 .. 2 * Groups(config) /\ (k + 1) - 1 = k
  BY <1>4, <1>5
<1>10. Len(flatMult[config.depth]) = 2 * Groups(config)
       /\ flatMult[config.depth][k + 1] = MultAt(config, d, k)
  BY <1>6, <1>7, <1>9 DEF LayerUpTo
<1>11. OutputDefined
  BY <1>5, <1>8, <1>9, <1>10 DEF OutputDefined
<1>12. /\ MultAt(config, d, k) \in Nat /\ NInputs(config) < MultAt(config, d, k)
       /\ MultAt(config, d, k) < GroupBase(config, d + 1, 0)
  BY <1>2, <1>4, <1>5, MultBefore
<1>13. GroupBase(config, d + 1, 0) = FirstOutput(config)
  <2>1. 0 \in Nat
    OBVIOUS
  <2>. QED
    BY <1>2, <1>6, <2>1, GroupPlaces
<1>14. MultAt(config, d, k) \in Wires
  <2>1. MultAt(config, d, k) \in 1 .. Len(gates)
    <3>1. PICK m \in Nat, first \in Nat, n \in Nat :
            m = MultAt(config, d, k) /\ first = FirstOutput(config) /\ n = NInputs(config)
      BY <1>2, <1>7, <1>12 DEF Sized
    <3>2. n < m /\ m < first /\ Len(gates) = first - 1 + ctr /\ ctr \in Nat
      BY <1>2, <1>7, <1>12, <1>13, <3>1
    <3>. QED
      BY <3>1, <3>2
  <2>2. SyntheticGate(config, MultAt(config, d, k)).kind \in {"add", "mult"}
    BY <1>2, <1>12, <1>13, PlanKinds
  <2>. QED
    BY <1>7, <2>1, <2>2 DEF Wires
<1>. QED
  BY <1>3, <1>4, <1>5, <1>6, <1>10, <1>11, <1>14

\* Output gates, party by party.
LEMMA OutputStep ==
  ASSUME FromConfigInv, Structure, BuildOutput
  PROVE  [Next]_vars /\ FromConfigInv'
<1>1. pc = "outputs" /\ pc \in Building
  BY DEF BuildOutput, Building, Labels
<1>2. /\ config \in Configs /\ config.n \in Nat /\ config.out \in Seq(Nat)
      /\ Len(config.out) = config.n /\ Clients = 0 .. config.n - 1 /\ Clients \subseteq Nat
      /\ party \in Nat /\ item \in Nat /\ depth \in Nat /\ ctr \in Nat
      /\ Sized(config) /\ Len(gates) \in Nat /\ flatOutputs \in [Clients -> Seq(Nat)]
  BY <1>1, BuildingFacts
<1> DEFINE first == FirstOutput(Plan(config))
<1>3. /\ InLoop(config.n, config.out, party, item, ctr)
      /\ Len(gates) = first - 1 + ctr /\ first \in Nat
      /\ OwnedUpTo(flatOutputs, config.out, first, party, item)
  BY <1>1, OutputFacts
<1> HIDE DEF first
<1>4. ASSUME party < config.n, item < config.out[party + 1], OutputDefined,
             Output(party, flatMult[config.depth][(ctr % config.width) + 1]),
             item' = item + 1, ctr' = ctr + 1, UNCHANGED << config, pc, party, depth >>
      PROVE  [Next]_vars /\ FromConfigInv'
  <2>1. party \in Clients
    BY <1>2, <1>4
  <2>2. config.width # 0 /\ config.depth # 0
    BY <1>4 DEF OutputDefined, Structure, TypeOK
  <2>3. PICK w \in Wires :
          /\ w = flatMult[config.depth][(ctr % config.width) + 1] /\ Plan(config) = config
          /\ w = MultAt(config, config.depth - 1, ctr % (2 * Groups(config)))
    BY <1>1, <2>2, OutputSource
  <2>4. Output(party, w)
    BY <1>4, <2>3
  <2>5. Next
    BY <2>1, <2>4 DEF Next
  <2> DEFINE gate == [kind |-> "output", owner |-> party, left |-> w]
             S == InputGates \cup OutputGates \cup AddGates \cup MultGates
  <2>6. gate \in S /\ gates \in Seq(S) /\ gates' = Append(gates, gate)
    BY <2>1, <2>4 DEF Output, Create, OutputGates, Wires, Structure, TypeOK
  <2>7. PICK p \in 1 .. Len(config.out), j \in Nat :
          p = party + 1 /\ p - 1 = party /\ j = item + 1 /\ j \in 1 .. config.out[p]
    <3>1. /\ config.out \in Seq(Nat) /\ party \in Nat /\ item \in Nat
          /\ party < Len(config.out) /\ item < config.out[party + 1]
      BY <1>2, <1>4
    <3>2. /\ party + 1 \in 1 .. Len(config.out) /\ (party + 1) - 1 = party
          /\ item + 1 \in 1 .. config.out[party + 1] /\ item + 1 \in Nat
      BY <3>1, PlaceInCounts
    <3>. QED
      BY <3>2
  <2>8. PICK u \in Nat : u = UpTo(config.out)[party] /\ ctr = u + item
    <3>1. UpTo(config.out)[p - 1] \in Nat
      BY <1>2, OneParty
    <3>. QED
      BY <1>3, <2>7, <3>1 DEF InLoop
  <2>9. PICK k \in Nat : k = ctr + 1 /\ k = UpTo(config.out)[p - 1] + j /\ k - 1 = ctr
    <3>1. item \in Nat /\ j = item + 1 /\ u \in Nat
      BY <1>2, <2>7
    <3>2. PICK k \in Nat : k = ctr + 1 /\ k = u + j /\ k - 1 = ctr
      BY <2>8, <3>1
    <3>. QED
      BY <2>7, <2>8, <3>2
  <2>10. SyntheticGate(config, FirstOutput(config) - 1 + k) = gate
    <3>1. SyntheticGate(config, FirstOutput(config) - 1 + k) =
            [kind |-> "output", owner |-> p - 1,
             left |-> MultAt(config, config.depth - 1, (k - 1) % (2 * Groups(config)))]
      BY <1>2, <2>7, <2>9, PlanOutput
    <3>. QED
      BY <2>3, <2>7, <2>9, <3>1
  <2>11. Len(gates) + 1 = first - 1 + k /\ Len(gates) + 1 = first + u + item
         /\ first = FirstOutput(config)
    <3>1. first = FirstOutput(config)
      BY <2>3 DEF first
    <3>2. item \in Nat
      BY <1>2
    <3>3. Len(gates) = first - 1 + ctr /\ first \in Nat /\ ctr = u + item /\ k = ctr + 1
      BY <1>3, <2>8, <2>9
    <3>4. Len(gates) + 1 = first - 1 + k /\ Len(gates) + 1 = first + u + item
      BY <3>2, <3>3
    <3>. QED
      BY <3>1, <3>4
  <2>12. /\ Len(gates') = Len(gates) + 1
         /\ \A g \in 1 .. Len(gates') : gates'[g] = SyntheticGate(Plan(config), g)
    <3> HIDE DEF gate, S
    <3>1. gate = SyntheticGate(Plan(config), Len(gates) + 1)
      BY <2>3, <2>10, <2>11
    <3>. QED
      BY <1>1, <2>6, <3>1, OutputFacts, PlannedAppend
  <2>13. InLoop(config.n, config.out, party, item + 1, ctr + 1)
    BY <1>2, <1>3, <1>4, LoopItem
  <2>14. Len(gates') = first - 1 + (ctr + 1)
    BY <1>2, <1>3, <2>12
  <2>15. GatesAsPlanned'
    BY <1>1, <1>4, <2>12, <2>13, <2>14 DEF GatesAsPlanned, InLayer, Finished, first
  <2>16. flatMult' = flatMult /\ flatInputs' = flatInputs
         /\ flatOutputs' = [flatOutputs EXCEPT ![party] = Append(flatOutputs[party], Len(gates) + 1)]
    BY <2>4 DEF Output, NextGate, multVars
  <2>17. LayersAsPlanned'
    BY <1>1, <1>4, <2>16, OutputFacts DEF LayersAsPlanned, InLayer, Finished
  <2>18. OwnedUpTo(flatOutputs', config.out, first, party, item + 1)
    <3>1. UpTo(config.out)[party] \in Nat
      BY <2>8
    <3>2. PICK g \in Nat : g = Len(gates) + 1 /\ g = first + UpTo(config.out)[party] + item
      BY <1>2, <2>8, <2>11
    <3>3. flatOutputs' = [flatOutputs EXCEPT ![party] = Append(flatOutputs[party], g)]
      BY <2>16, <3>2
    <3>. QED
      BY <1>2, <1>3, <2>1, <3>1, <3>2, <3>3, OwnedAppend
  <2>19. OwnedAsPlanned'
    BY <1>1, <1>4, <2>16, <2>18, OutputFacts DEF OwnedAsPlanned, InLayer, Finished, first
  <2>20. AsPlanned' /\ LocalTypes' /\ pc' \in Building
    BY <1>1, <1>2, <1>4, <2>15, <2>17, <2>19, BuildingFacts DEF AsPlanned, LocalTypes, Building, Labels
  <2>. QED
    BY <2>5, <2>20, StillBuilding
<1>5. ASSUME party < config.n, item < config.out[party + 1], ~OutputDefined,
             Goto("undefined"), UNCHANGED vars
      PROVE  [Next]_vars /\ FromConfigInv'
  <2>1. config.width = 0 \/ config.depth = 0
    BY <1>1, <1>5, OutputSource
  <2>2. NOutputs(config) > 0
    BY <1>2, <1>5, LoopAny DEF NOutputs
  <2>3. pc' = "undefined" /\ UNCHANGED << config, party, item, depth, ctr >>
    BY <1>5 DEF Goto
  <2>4. UndefinedOnlyWhenEmpty' /\ AtTheStart' /\ AsPlanned'
    BY <2>1, <2>2, <2>3 DEF UndefinedOnlyWhenEmpty, AtTheStart, AsPlanned, Building
  <2>5. LocalTypes'
    BY <1>2, <2>3 DEF LocalTypes, Labels
  <2>. QED
    BY <1>5, <2>4, <2>5 DEF FromConfigInv
<1>6. ASSUME party < config.n, item = config.out[party + 1], party' = party + 1, item' = 0,
             UNCHANGED << config, pc, depth, ctr, vars >>
      PROVE  [Next]_vars /\ FromConfigInv'
  <2>1. InLoop(config.n, config.out, party + 1, 0, ctr)
    BY <1>2, <1>3, <1>6, LoopParty
  <2>2. OwnedUpTo(flatOutputs, config.out, first, party + 1, 0)
    BY <1>2, <1>3, <1>6, OwnedNext
  <2>3. gates' = gates /\ flatMult' = flatMult /\ flatOutputs' = flatOutputs /\ flatInputs' = flatInputs
    BY <1>6 DEF vars, ioVars, multVars
  <2>4. GatesAsPlanned'
    BY <1>1, <1>6, <2>1, <2>3, OutputFacts DEF GatesAsPlanned, InLayer, Finished
  <2>5. LayersAsPlanned'
    BY <1>1, <1>6, <2>3, OutputFacts DEF LayersAsPlanned, InLayer, Finished
  <2>6. OwnedAsPlanned'
    BY <1>1, <1>6, <2>2, <2>3, OutputFacts DEF OwnedAsPlanned, InLayer, Finished, first
  <2>7. AsPlanned' /\ LocalTypes' /\ pc' \in Building
    BY <1>1, <1>2, <1>6, <2>4, <2>5, <2>6, BuildingFacts DEF AsPlanned, LocalTypes, Building, Labels
  <2>. QED
    BY <1>6, <2>7, StillBuilding
<1>7. ASSUME party = config.n, CloseOutputs, Goto("built")
      PROVE  [Next]_vars /\ FromConfigInv'
  <2>1. item = 0 /\ ctr = NOutputs(config)
    BY <1>2, <1>3, <1>7, LoopEnd DEF NOutputs
  <2>2. /\ gates' = gates /\ flatMult' = flatMult /\ flatOutputs' = flatOutputs
        /\ flatInputs' = flatInputs /\ isClosed'
    BY <1>7 DEF CloseOutputs, multVars
  <2>3. pc' = "built" /\ UNCHANGED << config, party, item, depth, ctr >>
    BY <1>7 DEF Goto
  <2>4. GatesAsPlanned'
    BY <1>1, <2>1, <2>2, <2>3, OutputFacts DEF GatesAsPlanned, InLayer, Finished
  <2>5. LayersAsPlanned'
    BY <1>1, <2>2, <2>3, OutputFacts DEF LayersAsPlanned, InLayer, Finished
  <2>6. OwnedAsPlanned'
    BY <1>1, <1>3, <1>7, <2>1, <2>2, <2>3, OutputFacts DEF OwnedAsPlanned, InLayer, Finished, first
  <2>7. AsPlanned' /\ LocalTypes' /\ pc' \in Building
    BY <1>1, <1>2, <2>3, <2>4, <2>5, <2>6, BuildingFacts DEF AsPlanned, LocalTypes, Building, Labels
  <2>8. Next
    BY <1>7 DEF Next
  <2>. QED
    BY <2>7, <2>8, StillBuilding
<1>. QED
  BY <1>4, <1>5, <1>6, <1>7 DEF BuildOutput

\* The network is set on what was built.
LEMMA RunStep ==
  ASSUME FromConfigInv, Structure, Run
  PROVE  [Next]_vars /\ FromConfigInv'
<1>1. pc = "built" /\ pc \in Building /\ pc \in Finished /\ pc # "inputs" /\ pc # "outputs"
      /\ pc \notin InLayer
  BY DEF Run, Building, Labels, Finished, InLayer
<1>2. /\ pc' = "ready" /\ UNCHANGED << config, party, item, depth, ctr >>
      /\ gates' = gates /\ flatMult' = flatMult /\ flatOutputs' = flatOutputs
      /\ flatInputs' = flatInputs /\ isClosed' = isClosed
  BY DEF Run, Goto, SetNetwork, ioVars, multVars
<1>3. pc' \in Building /\ pc' \in Finished /\ pc' # "inputs" /\ pc' # "outputs" /\ pc' \notin InLayer
  BY <1>2 DEF Building, Labels, Finished, InLayer
<1>4. Next
  BY DEF Run, Next
<1>5. GatesAsPlanned' /\ LayersAsPlanned' /\ OwnedAsPlanned'
  BY <1>1, <1>2, <1>3, BuildingFacts DEF GatesAsPlanned, LayersAsPlanned, OwnedAsPlanned
<1>6. AsPlanned' /\ LocalTypes'
  BY <1>1, <1>2, <1>3, <1>5, BuildingFacts DEF AsPlanned, LocalTypes, Building
<1>. QED
  BY <1>3, <1>4, <1>6, StillBuilding

\* Nothing is built when validation starts.
LEMMA InitFromConfig == FCInit => Init /\ FromConfigInv
<1> SUFFICES ASSUME FCInit PROVE Init /\ FromConfigInv
  OBVIOUS
<1>1. /\ Init /\ config \in Configs /\ pc = "validate"
      /\ party = 0 /\ item = 0 /\ depth = 0 /\ ctr = 0
  BY DEF FCInit
<1>2. LocalTypes
  BY <1>1 DEF LocalTypes, Labels
<1>3. AtTheStart /\ UndefinedOnlyWhenEmpty /\ AsPlanned
  BY <1>1 DEF AtTheStart, UndefinedOnlyWhenEmpty, AsPlanned, Building
<1>. QED
  BY <1>1, <1>2, <1>3 DEF FromConfigInv

\* Every step of FromConfig is a documented call of the builder or none, and
\* keeps to the plan.
LEMMA NextFromConfig ==
  FromConfigInv /\ Structure /\ [FCNext]_fcVars => [Next]_vars /\ FromConfigInv' /\ Structure'
<1> SUFFICES ASSUME FromConfigInv, Structure, [FCNext]_fcVars
             PROVE  [Next]_vars /\ FromConfigInv' /\ Structure'
  OBVIOUS
<1>1. ASSUME FCNext PROVE [Next]_vars /\ FromConfigInv'
  <2>1. CASE Validate
    BY <2>1, ValidateStep
  <2>2. CASE BuildInput
    BY <2>2, InputStep
  <2>3. CASE BuildAdd
    BY <2>3, AddStep
  <2>4. CASE BuildMultX
    BY <2>4, MultXStep
  <2>5. CASE BuildMultY
    BY <2>5, MultYStep
  <2>6. CASE BuildNextLayer
    BY <2>6, NextLayerStep
  <2>7. CASE BuildLastLayer
    BY <2>7, LastLayerStep
  <2>8. CASE BuildOutput
    BY <2>8, OutputStep
  <2>9. CASE Run
    BY <2>9, RunStep
  <2>. QED
    BY <1>1, <2>1, <2>2, <2>3, <2>4, <2>5, <2>6, <2>7, <2>8, <2>9 DEF FCNext
<1>2. ASSUME UNCHANGED fcVars PROVE [Next]_vars /\ FromConfigInv'
  <2>1. /\ UNCHANGED << gates, flatMult, flatInputs, flatOutputs, isClosed >> /\ UNCHANGED vars
        /\ UNCHANGED << config, pc, party, item, depth, ctr >>
    BY <1>2 DEF fcVars, vars, local, ioVars, multVars, flags
  <2>2. LocalTypes' /\ UndefinedOnlyWhenEmpty'
    BY <2>1 DEF FromConfigInv, LocalTypes, UndefinedOnlyWhenEmpty
  <2>3. AtTheStart'
    BY <2>1 DEF FromConfigInv, AtTheStart, Init, vars, ioVars, multVars, flags
  <2>4. GatesAsPlanned' <=> GatesAsPlanned
    BY <2>1 DEF GatesAsPlanned, OfGroup
  <2>5. LayersAsPlanned' <=> LayersAsPlanned
    BY <2>1 DEF LayersAsPlanned
  <2>6. OwnedAsPlanned' <=> OwnedAsPlanned
    BY <2>1 DEF OwnedAsPlanned
  <2>7. AsPlanned'
    BY <2>1, <2>4, <2>5, <2>6 DEF FromConfigInv, AsPlanned
  <2>. QED
    BY <2>1, <2>2, <2>3, <2>7 DEF FromConfigInv
<1>3. [Next]_vars /\ FromConfigInv'
  BY <1>1, <1>2
<1>4. Structure'
  BY <1>3, NextStructure
<1>. QED
  BY <1>3, <1>4

\* Where FromConfig is tells which lists it has closed.
Phases ==
  /\ pc \in {"validate", "inputs"} => ~inputsDone
  /\ pc \in InLayer \cup {"outputs"} \cup Finished => inputsDone
  /\ pc \in {"validate", "inputs"} \cup InLayer => ~layersDone
  /\ pc \in {"outputs"} \cup Finished => layersDone
  /\ pc \in {"validate", "inputs"} \cup InLayer \cup {"outputs"} => ~isClosed

\* The calls of FromConfig come in the order that the builder asks for.
LEMMA NextPhases ==
  FromConfigInv /\ Structure /\ Phases /\ [FCNext]_fcVars => [Orderly]_vars /\ Phases'
<1> SUFFICES ASSUME FromConfigInv, Structure, Phases, [FCNext]_fcVars
             PROVE  [Orderly]_vars /\ Phases'
  OBVIOUS
<1> USE DEF Phases, InLayer, Finished
<1>1. CASE Validate
  <2>1. pc = "validate" /\ UNCHANGED vars /\ pc' \in {"thrown", "undefined", "inputs"}
    BY <1>1 DEF Validate, Goto
  <2>. QED
    BY <2>1 DEF vars, flags
<1>2. CASE BuildInput
  <2>1. pc = "inputs" /\ ~inputsDone /\ ~layersDone /\ ~isClosed
    BY <1>2 DEF BuildInput
  <2>2. CASE party < config.n /\ Input(party) /\ UNCHANGED pc
    <3>1. party \in Clients
      BY <2>1, <2>2, BuildingFacts DEF Building, Labels
    <3>. QED
      BY <2>1, <2>2, <3>1 DEF Orderly, Input, flags
  <2>3. CASE UNCHANGED << pc, vars >>
    BY <2>1, <2>3 DEF vars, flags
  <2>4. CASE CloseInputs /\ pc' = "add"
    BY <2>1, <2>4 DEF Orderly, CloseInputs
  <2>. QED
    BY <1>2, <2>2, <2>3, <2>4 DEF BuildInput
<1>3. CASE BuildAdd
  <2>1. pc = "add" /\ inputsDone /\ ~layersDone /\ ~isClosed
    BY <1>3 DEF BuildAdd
  <2>2. CASE Add(Read(2 * item), Read(2 * item + 1)) /\ pc' = "multX"
    BY <2>1, <2>2 DEF Orderly, Add, flags
  <2>3. CASE pc' = "undefined" /\ UNCHANGED vars
    BY <2>3
  <2>. QED
    BY <1>3, <2>2, <2>3 DEF BuildAdd, Goto
<1>4. CASE BuildMultX
  <2>1. pc = "multX" /\ inputsDone /\ ~layersDone /\ ~isClosed
    BY <1>4 DEF BuildMultX
  <2>2. Mult(Read(2 * item), Len(gates)) /\ pc' = "multY"
    BY <1>4 DEF BuildMultX, Goto
  <2>. QED
    BY <2>1, <2>2 DEF Orderly, Mult, flags
<1>5. CASE BuildMultY
  <2>1. pc = "multY" /\ inputsDone /\ ~layersDone /\ ~isClosed
    BY <1>5 DEF BuildMultY
  <2>2. Mult(Read(2 * item + 1), SumOfGroup) /\ pc' = "add"
    BY <1>5 DEF BuildMultY
  <2>. QED
    BY <2>1, <2>2 DEF Orderly, Mult, flags
<1>6. CASE BuildNextLayer
  <2>1. pc = "add" /\ inputsDone /\ ~layersDone /\ ~isClosed /\ NewLayer /\ pc' = pc
    BY <1>6 DEF BuildNextLayer
  <2>. QED
    BY <2>1 DEF Orderly, NewLayer, flags
<1>7. CASE BuildLastLayer
  <2>1. pc = "add" /\ inputsDone /\ ~layersDone /\ ~isClosed /\ LastLayer /\ pc' = "outputs"
    BY <1>7 DEF BuildLastLayer
  <2>. QED
    BY <2>1 DEF Orderly, LastLayer
<1>8. CASE BuildOutput
  <2>1. pc = "outputs" /\ inputsDone /\ layersDone /\ ~isClosed
    BY <1>8 DEF BuildOutput
  <2>2. ASSUME NEW w, party < config.n, Output(party, w), UNCHANGED pc
        PROVE  Orderly /\ Phases'
    <3>1. party \in Clients
      BY <2>1, <2>2, BuildingFacts DEF Building, Labels
    <3>. QED
      BY <2>1, <2>2, <3>1 DEF Orderly, Output, flags
  <2>3. CASE pc' = "undefined" /\ UNCHANGED vars
    BY <2>3
  <2>4. CASE UNCHANGED << pc, vars >>
    BY <2>1, <2>4 DEF vars, flags
  <2>5. CASE CloseOutputs /\ pc' = "built"
    BY <2>1, <2>5 DEF Orderly, CloseOutputs
  <2>. QED
    BY <1>8, <2>2, <2>3, <2>4, <2>5 DEF BuildOutput, Goto
<1>9. CASE Run
  <2>1. pc = "built" /\ inputsDone /\ layersDone /\ SetNetwork /\ pc' = "ready"
    BY <1>9 DEF Run, Goto
  <2>. QED
    BY <2>1 DEF Orderly, SetNetwork
<1>10. CASE UNCHANGED fcVars
  BY <1>10 DEF fcVars, local, vars, flags
<1>. QED
  BY <1>1, <1>2, <1>3, <1>4, <1>5, <1>6, <1>7, <1>8, <1>9, <1>10 DEF FCNext

\* At the start nothing is closed.
LEMMA InitPhases == FCInit => Phases
BY DEF FCInit, Init, Phases, InLayer, Finished

\* Whatever the configuration, FromConfig calls the builder in the order the
\* comments of the builder ask for and with clients and wires that exist, also
\* where nothing makes its caller keep to them (Disciplined = FALSE).
THEOREM FromConfigCalls == FCSpec => Init /\ [][Next /\ Orderly]_vars
<1>1. FCInit => Init /\ FromConfigInv /\ Structure /\ Phases
  BY InitFromConfig, InitStructure, InitPhases
<1>2. FromConfigInv /\ Structure /\ Phases /\ [FCNext]_fcVars
        => FromConfigInv' /\ Structure' /\ Phases' /\ [Next /\ Orderly]_vars
  BY NextFromConfig, NextPhases
<1>. QED
  BY <1>1, <1>2, PTL DEF FCSpec

\* Whatever the configuration, circuit and bounds: once validation lets a
\* configuration through, no index leaves its layer unless a layer is empty or
\* there is none.
THEOREM DefinedUnlessEmpty == FCSpec => []UndefinedOnlyWhenEmpty
<1>1. FCInit => FromConfigInv /\ Structure
  BY InitFromConfig, InitStructure
<1>2. FromConfigInv => UndefinedOnlyWhenEmpty
  BY DEF FromConfigInv
<1>. QED
  BY <1>1, <1>2, NextFromConfig, PTL DEF FCSpec

-----------------------------------------------------------------------------
(* What FromConfig has built when it is done.                               *)

\* A sequence is known by its places.
LEMMA SameList ==
  ASSUME NEW S, NEW s \in Seq(S), NEW n, Len(s) = n, NEW f,
         f = [i \in 1 .. n |-> f[i]], \A i \in 1 .. n : s[i] = f[i]
  PROVE  s = f
<1>1. s = [i \in 1 .. n |-> s[i]]
  OBVIOUS
<1>. QED
  BY <1>1

\* As many batches as closing leaves are as many as the gates need.
LEMMA BatchesNeeded ==
  ASSUME NEW l \in Nat \ {0}, NEW n \in Nat \ {0},
         l = 1 \/ Position(l, 0) < n, n <= Position(l, BatchSize)
  PROVE  (n + BatchSize - 1) \div BatchSize = l
<1>1. PICK k \in Nat \ {0}, c \in Nat : k = BatchSize /\ c = l - 1 /\ l = c + 1
  BY BatchSizeAssumption
<1>2. PICK x \in Nat : x = c * k
  BY <1>1
<1>3. Position(l, 0) = x + 0 /\ Position(l, BatchSize) = x + k
  BY <1>1, <1>2 DEF Position
<1>4. x < n
  <2>1. CASE l = 1
    <3>1. c = 0
      BY <1>1, <2>1
    <3>2. 0 * k = 0
      BY <1>1
    <3>. QED
      BY <1>2, <3>1, <3>2
  <2>2. CASE Position(l, 0) < n
    BY <1>2, <1>3, <2>2
  <2>. QED
    BY <2>1, <2>2
<1>5. l * k = x + k
  BY <1>1, <1>2, OneMore
<1>6. PICK r \in 0 .. k - 1, y \in Nat : y = n + k - 1 /\ y = (x + k) + r
  <2>1. n + k - 1 \in Nat /\ n - 1 - x \in 0 .. k - 1
    BY <1>1, <1>2, <1>3, <1>4
  <2>. QED
    BY <1>2, <2>1
<1>7. Divided(y, k, l, r)
  BY <1>5, <1>6 DEF Divided
<1>8. y \div k = l
  <2>1. l \in Nat
    OBVIOUS
  <2>. QED
    BY <1>6, <1>7, <2>1, OneQuotient
<1>. QED
  BY <1>1, <1>6, <1>8

\* A closed layer is its flat list cut into batches and padded.
LEMMA ClosedBatched ==
  ASSUME NEW layer \in Layer, NEW flat \in Seq(Nat), ClosedFor(layer, flat)
  PROVE  layer = Batched(flat)
<1> DEFINE full == (Len(flat) + BatchSize - 1) \div BatchSize
           m == IF flat = << >> THEN 1 ELSE full
           batch(b) == [s \in 1 .. BatchSize |->
                          IF Position(b, s) <= Len(flat) THEN flat[Position(b, s)] ELSE Pad]
<1>1. Len(layer) \in Nat \ {0} /\ Len(flat) \in Nat /\ Shaped(layer) /\ Aligned(layer, flat)
      /\ layer \in Seq(Batch)
  BY DEF ClosedFor, Shaped, Layer
<1>2. Len(layer) = m
  <2>1. CASE flat = << >>
    <3>1. ~(Position(Len(layer), 0) < 0)
      <4>1. PICK c \in Nat : c = Len(layer) - 1
        BY <1>1
      <4>2. c * BatchSize \in Nat
        BY BatchSizeAssumption
      <4>. QED
        BY <4>1, <4>2 DEF Position
    <3>. QED
      BY <2>1, <3>1 DEF ClosedFor
  <2>2. CASE flat # << >>
    <3>1. Len(flat) \in Nat \ {0}
      BY <2>2
    <3>2. full = Len(layer)
      BY <1>1, <3>1, BatchesNeeded DEF ClosedFor
    <3>. QED
      BY <2>2, <3>2
  <2>. QED
    BY <2>1, <2>2
<1>3. ASSUME NEW b \in 1 .. Len(layer) PROVE layer[b] = batch(b)
  <2>1. layer[b] \in Seq(Gate)
    BY <1>1 DEF Batch
  <2>2. Len(layer[b]) = BatchSize
    <3>1. b \in 1 .. Len(layer) - 1 \/ b = Len(layer)
      BY <1>1
    <3>. QED
      BY <1>1, <3>1 DEF Shaped, ClosedFor, LastBatch
  <2>3. \A s \in 1 .. BatchSize : layer[b][s] = batch(b)[s]
    BY <1>1, <2>2 DEF Aligned
  <2>4. batch(b) = [s \in 1 .. BatchSize |-> batch(b)[s]]
    OBVIOUS
  <2> HIDE DEF batch
  <2>. QED
    BY <2>1, <2>2, <2>3, <2>4, SameList
<1>4. Batched(flat) = [b \in 1 .. m |-> batch(b)]
  BY DEF Batched
<1>5. layer = [b \in 1 .. Len(layer) |-> layer[b]]
  BY <1>1
<1> HIDE DEF m, batch
<1>. QED
  BY <1>2, <1>3, <1>4, <1>5

\* What the invariant says when everything is built.
LEMMA FinishedFacts ==
  ASSUME FromConfigInv, Structure, pc \in Finished, config.depth > 0
  PROVE  /\ config \in Configs /\ Sized(config) /\ Valid(config) /\ config.depth \in Nat \ {0}
         /\ config.n \in Nat /\ Clients = 0 .. config.n - 1
         /\ Len(config.inp) = config.n /\ Len(config.out) = config.n
         /\ Groups(config) \in Nat /\ isClosed
         /\ \A g \in 1 .. Len(gates) : gates[g] = SyntheticGate(config, g)
         /\ FirstOutput(config) \in Nat /\ NOutputs(config) \in Nat
         /\ Len(gates) = FirstOutput(config) - 1 + NOutputs(config)
         /\ flatMult \in Seq(Seq(Nat)) /\ Len(flatMult) = config.depth + 1
         /\ \A d \in 0 .. config.depth - 1 :
              LayerUpTo(config, flatMult[d + 1], d, 2 * Groups(config))
         /\ flatMult[config.depth + 1] = << >>
         /\ OwnedUpTo(flatInputs, config.inp, 1, config.n, 0)
         /\ OwnedUpTo(flatOutputs, config.out, FirstOutput(config), config.n, 0)
<1>1. pc \in Building /\ pc # "inputs" /\ pc # "outputs" /\ pc \notin InLayer
  BY DEF Finished, Building, Labels, InLayer
<1>2. config \in Configs /\ Sized(config)
  BY <1>1, BuildingFacts
<1>3. Plan(config) = config /\ config.depth \in Nat \ {0}
  BY <1>2, ConfigFacts DEF Sized
<1>4. FirstOutput(config) \in Nat /\ Groups(config) \in Nat /\ NOutputs(config) \in Nat
  BY <1>2, OutputsBehind, GroupsNumber DEF Sized
<1>. QED
  BY <1>1, <1>3, <1>4, BuildingFacts DEF GatesAsPlanned, LayersAsPlanned, OwnedAsPlanned

\* What every party owns is what the plan gives it.
LEMMA OwnedAll ==
  ASSUME NEW flat \in [Clients -> Seq(Nat)], NEW counts \in Seq(Nat), NEW n \in Nat,
         Clients = 0 .. n - 1, Len(counts) = n, NEW first \in Nat, NEW cf,
         OwnedUpTo(flat, counts, first, n, 0)
  PROVE  \A p \in 0 .. n - 1 : flat[p] = SyntheticFlat(cf, counts, first, p + 1)
<1>1. ASSUME NEW p \in 0 .. n - 1 PROVE flat[p] = SyntheticFlat(cf, counts, first, p + 1)
  <2>1. p \in Clients /\ p < n /\ (p + 1) - 1 = p /\ flat[p] \in Seq(Nat)
    OBVIOUS
  <2>2. /\ Len(flat[p]) = counts[p + 1]
        /\ \A j \in 1 .. counts[p + 1] : flat[p][j] = first + UpTo(counts)[p] + j - 1
    BY <2>1 DEF OwnedUpTo
  <2>3. PICK f : f = [j \in 1 .. counts[p + 1] |-> first + UpTo(counts)[p] + j - 1]
    OBVIOUS
  <2>4. f = SyntheticFlat(cf, counts, first, p + 1)
    BY <2>1, <2>3 DEF SyntheticFlat
  <2>5. f = [j \in 1 .. counts[p + 1] |-> f[j]] /\ \A j \in 1 .. counts[p + 1] : flat[p][j] = f[j]
    BY <2>2, <2>3
  <2>6. flat[p] = f
    <3>1. PICK s \in Seq(Nat), own \in Nat : s = flat[p] /\ own = counts[p + 1]
      BY <2>1
    <3>2. Len(s) = own /\ f = [j \in 1 .. own |-> f[j]] /\ \A j \in 1 .. own : s[j] = f[j]
      BY <2>2, <2>5, <3>1
    <3>3. s = f
      BY <3>2, SameList
    <3>. QED
      BY <3>1, <3>3
  <2>. QED
    BY <2>4, <2>6
<1>. QED
  BY <1>1

\* The flat view is that of the plan.
LEMMA FlatBuilt ==
  ASSUME FromConfigInv, Structure, pc \in Finished, config.depth > 0
  PROVE  /\ gates = SyntheticGates(config)
         /\ flatInputs = SyntheticInputs(config) /\ flatOutputs = SyntheticOutputs(config)
         /\ flatMult = SyntheticMult(config)
<1>1. gates = SyntheticGates(config)
  <2>1. gates \in Seq(InputGates \cup OutputGates \cup AddGates \cup MultGates)
    BY DEF Structure, TypeOK
  <2>2. Len(gates) = FirstOutput(config) + NOutputs(config) - 1
    BY FinishedFacts
  <2>3. SyntheticGates(config) =
          [g \in 1 .. FirstOutput(config) + NOutputs(config) - 1 |-> SyntheticGate(config, g)]
    BY DEF SyntheticGates
  <2>4. \A g \in 1 .. FirstOutput(config) + NOutputs(config) - 1 : gates[g] = SyntheticGate(config, g)
    BY <2>2, FinishedFacts
  <2>. QED
    BY <2>1, <2>2, <2>3, <2>4, SameList
<1>2. flatInputs = SyntheticInputs(config) /\ flatOutputs = SyntheticOutputs(config)
  <2>0. /\ config.n \in Nat /\ Clients = 0 .. config.n - 1 /\ FirstOutput(config) \in Nat
        /\ Len(config.inp) = config.n /\ Len(config.out) = config.n
    BY FinishedFacts, SMTT(30)
  <2>1. config.inp \in Seq(Nat) /\ config.out \in Seq(Nat) /\ 1 \in Nat
    BY FinishedFacts DEF Sized
  <2>2. flatInputs \in [Clients -> Seq(Nat)] /\ flatOutputs \in [Clients -> Seq(Nat)]
    BY DEF Structure, TypeOK
  <2>3. OwnedUpTo(flatInputs, config.inp, 1, config.n, 0)
        /\ OwnedUpTo(flatOutputs, config.out, FirstOutput(config), config.n, 0)
    BY FinishedFacts, SMTT(30)
  <2>4. \A p \in 0 .. config.n - 1 : flatInputs[p] = SyntheticFlat(config, config.inp, 1, p + 1)
    <3>1. PICK flat \in [Clients -> Seq(Nat)], first \in Nat, counts \in Seq(Nat) :
            flat = flatInputs /\ first = 1 /\ counts = config.inp
      BY <2>0, <2>1, <2>2
    <3>2. OwnedUpTo(flat, counts, first, config.n, 0) /\ Len(counts) = config.n
      BY <2>0, <2>3, <3>1
    <3>3. \A p \in 0 .. config.n - 1 : flat[p] = SyntheticFlat(config, counts, first, p + 1)
      BY <2>0, <3>2, OwnedAll
    <3>. QED
      BY <3>1, <3>3
  <2>5. \A p \in 0 .. config.n - 1 :
          flatOutputs[p] = SyntheticFlat(config, config.out, FirstOutput(config), p + 1)
    <3>1. PICK flat \in [Clients -> Seq(Nat)], first \in Nat, counts \in Seq(Nat) :
            flat = flatOutputs /\ first = FirstOutput(config) /\ counts = config.out
      BY <2>0, <2>1, <2>2
    <3>2. OwnedUpTo(flat, counts, first, config.n, 0) /\ Len(counts) = config.n
      BY <2>0, <2>3, <3>1
    <3>3. \A p \in 0 .. config.n - 1 : flat[p] = SyntheticFlat(config, counts, first, p + 1)
      BY <2>0, <3>2, OwnedAll
    <3>. QED
      BY <3>1, <3>3
  <2>. QED
    BY <2>0, <2>2, <2>4, <2>5 DEF SyntheticInputs, SyntheticOutputs
<1>3. flatMult = SyntheticMult(config)
  <2> DEFINE layer(d) == [j \in 1 .. 2 * Groups(config) |-> MultAt(config, d - 1, j - 1)]
  <2>1. SyntheticMult(config) =
          [d \in 1 .. config.depth + 1 |-> IF d <= config.depth THEN layer(d) ELSE << >>]
    BY DEF SyntheticMult
  <2>2. ASSUME NEW d \in 1 .. config.depth PROVE flatMult[d] = layer(d)
    <3>0. config.depth \in Nat /\ flatMult \in Seq(Seq(Nat)) /\ Len(flatMult) = config.depth + 1
      BY FinishedFacts
    <3>1. PICK c \in 0 .. config.depth - 1 : c = d - 1 /\ d = c + 1
      BY <3>0
    <3>2. LayerUpTo(config, flatMult[c + 1], c, 2 * Groups(config)) /\ flatMult[d] \in Seq(Nat)
      <4>1. LayerUpTo(config, flatMult[c + 1], c, 2 * Groups(config))
        BY <3>1, FinishedFacts
      <4>. QED
        BY <3>0, <4>1
    <3>3. /\ Len(flatMult[d]) = 2 * Groups(config)
          /\ \A j \in 1 .. 2 * Groups(config) : flatMult[d][j] = MultAt(config, d - 1, j - 1)
      BY <3>1, <3>2 DEF LayerUpTo
    <3>4. PICK f : f = layer(d)
      OBVIOUS
    <3>5. f = [j \in 1 .. 2 * Groups(config) |-> f[j]]
          /\ \A j \in 1 .. 2 * Groups(config) : flatMult[d][j] = f[j]
      BY <3>3, <3>4
    <3>6. flatMult[d] = f
      <4>1. PICK s \in Seq(Nat), m \in Nat : s = flatMult[d] /\ m = 2 * Groups(config)
        BY <3>2, <3>3
      <4>2. Len(s) = m /\ f = [j \in 1 .. m |-> f[j]] /\ \A j \in 1 .. m : s[j] = f[j]
        BY <3>3, <3>5, <4>1
      <4>3. s = f
        BY <4>2, SameList
      <4>. QED
        BY <4>1, <4>3
    <3>. QED
      BY <3>4, <3>6
  <2> HIDE DEF layer
  <2>3. ASSUME NEW d \in 1 .. config.depth + 1
        PROVE  flatMult[d] = IF d <= config.depth THEN layer(d) ELSE << >>
    <3>1. CASE d <= config.depth
      BY <2>2, <3>1, FinishedFacts
    <3>2. CASE ~(d <= config.depth)
      <4>1. d = config.depth + 1
        <5>1. config.depth \in Nat
          BY FinishedFacts
        <5>. QED
          BY <3>2, <5>1
      <4>. QED
        BY <3>2, <4>1, FinishedFacts
    <3>. QED
      BY <3>1, <3>2
  <2>4. flatMult \in Seq(Seq(Nat)) /\ Len(flatMult) = config.depth + 1
    BY FinishedFacts
  <2>. QED
    BY <2>1, <2>3, <2>4, SameList
<1>. QED
  BY <1>1, <1>2, <1>3

\* The batched view is the flat one, cut and padded.
LEMMA BatchesBuilt ==
  ASSUME FromConfigInv, Structure, ViewsAgree, pc \in Finished, config.depth > 0
  PROVE  /\ inputLayers = [p \in Clients |-> Batched(flatInputs[p])]
         /\ outputLayers = [p \in Clients |-> Batched(flatOutputs[p])]
         /\ multLayers = SyntheticLayers(config)
<1>1. inputsDone /\ layersDone /\ isClosed
  BY FinishedFacts DEF ViewsAgree
<1>2. /\ inputLayers \in [Clients -> Layer] /\ outputLayers \in [Clients -> Layer]
      /\ flatInputs \in [Clients -> Seq(Nat)] /\ flatOutputs \in [Clients -> Seq(Nat)]
      /\ multLayers \in Seq(Layer) /\ multLayers # << >> /\ flatMult \in Seq(Seq(Nat))
  BY DEF Structure, TypeOK
<1>3. ASSUME NEW p \in Clients
      PROVE  inputLayers[p] = Batched(flatInputs[p]) /\ outputLayers[p] = Batched(flatOutputs[p])
  <2>1. ClosedFor(inputLayers[p], flatInputs[p]) /\ ClosedFor(outputLayers[p], flatOutputs[p])
    BY <1>1 DEF ViewsAgree
  <2>. QED
    BY <1>2, <2>1, ClosedBatched
<1>4. Len(multLayers) = config.depth /\ config.depth \in Nat
  <2>1. Len(flatMult) = Len(multLayers) + 1 /\ Len(multLayers) \in Nat
    BY <1>1, <1>2 DEF ViewsAgree
  <2>. QED
    BY <2>1, FinishedFacts
<1>5. ASSUME NEW l \in 1 .. config.depth PROVE multLayers[l] = Batched(SyntheticMult(config)[l])
  <2>1. ClosedFor(multLayers[l], flatMult[l])
    <3>1. l \in 1 .. Len(multLayers) - 1 \/ l = Len(multLayers)
      BY <1>4
    <3>. QED
      BY <1>1, <3>1 DEF ViewsAgree
  <2>2. multLayers[l] \in Layer /\ flatMult[l] \in Seq(Nat)
    <3>1. Len(flatMult) = config.depth + 1
      BY FinishedFacts
    <3>. QED
      BY <1>2, <1>4, <3>1
  <2>3. flatMult = SyntheticMult(config)
    BY FlatBuilt
  <2>. QED
    BY <2>1, <2>2, <2>3, ClosedBatched
<1>6. multLayers = [l \in 1 .. config.depth |-> Batched(SyntheticMult(config)[l])]
  BY <1>2, <1>4, <1>5, SameList
<1>. QED
  BY <1>2, <1>3, <1>6 DEF SyntheticLayers

\* A layer further on has its gates further on.
LEMMA LayerFurther ==
  ASSUME NEW cf, Sized(cf), NEW d \in Nat, NEW e \in Nat, d <= e
  PROVE  GroupBase(cf, d, 0) <= GroupBase(cf, e, 0)
<1>1. PICK n \in Nat, m \in Nat : n = NInputs(cf) /\ m = Groups(cf)
  BY GroupsNumber DEF Sized
<1>2. PICK x \in Nat, y \in Nat : x = m * d /\ y = m * e /\ x = d * m /\ y = e * m
  OBVIOUS
<1>3. x <= y
  BY <1>2, NoFewer
<1>4. GroupBase(cf, d, 0) = n + 3 * (x + 0) + 1 /\ GroupBase(cf, e, 0) = n + 3 * (y + 0) + 1
  BY <1>1, <1>2 DEF GroupBase
<1>. QED
  BY <1>3, <1>4

\* The multiplications of a layer are between its first gate and that of the
\* layer behind it.
LEMMA MultWithin ==
  ASSUME NEW cf, Sized(cf), NEW d \in Nat, NEW j \in Nat, j < 2 * Groups(cf)
  PROVE  /\ MultAt(cf, d, j) \in Nat /\ GroupBase(cf, d, 0) \in Nat /\ GroupBase(cf, d + 1, 0) \in Nat
         /\ GroupBase(cf, d, 0) < MultAt(cf, d, j) /\ MultAt(cf, d, j) < GroupBase(cf, d + 1, 0)
<1>1. PICK i \in Nat, r \in 0 .. 1 : i = j \div 2 /\ r = j % 2
  OBVIOUS
<1>2. MultAt(cf, d, j) = GroupBase(cf, d, i) + 1 + r
  BY <1>1 DEF MultAt
<1>3. PICK o \in Nat : o = 0 /\ o <= i
  OBVIOUS
<1>4. GroupBase(cf, d, o) <= GroupBase(cf, d, i)
  BY <1>3, GroupFurther
<1>5. GroupBase(cf, d, o) \in Nat /\ GroupBase(cf, d, i) \in Nat /\ GroupBase(cf, d + 1, o) \in Nat
  <2>1. d + 1 \in Nat
    OBVIOUS
  <2>. QED
    BY <2>1, GroupPlaces
<1>6. MultAt(cf, d, j) \in Nat /\ MultAt(cf, d, j) < GroupBase(cf, d + 1, 0)
  BY MultBefore
<1>. QED
  BY <1>2, <1>3, <1>4, <1>5, <1>6

\* No multiplication is in two layers.
LEMMA OneLayer ==
  ASSUME NEW cf, Sized(cf), NEW d \in Nat, NEW e \in Nat, NEW j \in Nat, j < 2 * Groups(cf),
         NEW k \in Nat, k < 2 * Groups(cf), MultAt(cf, d, j) = MultAt(cf, e, k)
  PROVE  d = e
<1>1. ASSUME NEW a \in Nat, NEW b \in Nat, NEW v \in Nat, v < 2 * Groups(cf),
             NEW w \in Nat, w < 2 * Groups(cf), MultAt(cf, a, v) = MultAt(cf, b, w), a < b
      PROVE  FALSE
  <2>1. a + 1 <= b /\ a + 1 \in Nat
    BY <1>1
  <2>2. GroupBase(cf, a + 1, 0) <= GroupBase(cf, b, 0)
    BY <2>1, LayerFurther
  <2>3. /\ MultAt(cf, a, v) \in Nat /\ MultAt(cf, a, v) < GroupBase(cf, a + 1, 0)
        /\ GroupBase(cf, a + 1, 0) \in Nat
    BY <1>1, MultWithin
  <2>4. GroupBase(cf, b, 0) \in Nat /\ GroupBase(cf, b, 0) < MultAt(cf, b, w)
    BY <1>1, MultWithin
  <2>. QED
    BY <1>1, <2>2, <2>3, <2>4
<1>2. ~(d < e) /\ ~(e < d)
  BY <1>1
<1>. QED
  BY <1>2

\* Every gate between the inputs and the outputs is in a group.
LEMMA PlaceOf ==
  ASSUME NEW cf, Sized(cf), NEW g \in Nat, NInputs(cf) < g, g < FirstOutput(cf)
  PROVE  \E d \in Nat, i \in Nat, r \in 0 .. 2 :
           d < cf.depth /\ i < Groups(cf) /\ g = GroupBase(cf, d, i) + r
<1>1. PICK n \in Nat, m \in Nat, e \in Nat : n = NInputs(cf) /\ m = Groups(cf) /\ e = cf.depth
  BY GroupsNumber DEF Sized
<1>2. PICK y \in Nat : y = m * e /\ (3 * m) * e = 3 * y /\ y = e * m
  BY Thrice
<1>3. FirstOutput(cf) = n + 3 * y + 1
  BY <1>1, <1>2 DEF FirstOutput
<1>4. PICK x \in Nat : x = g - n - 1 /\ x < 3 * y
  BY <1>1, <1>3
<1>5. PICK q \in Nat, r \in 0 .. 2 : x = 3 * q + r /\ q < y
  <2>1. PICK q \in Nat, r \in 0 .. 2 : x = 3 * q + r
    <3>1. x \div 3 \in Nat /\ x % 3 \in 0 .. 2 /\ x = 3 * (x \div 3) + (x % 3)
      OBVIOUS
    <3>. QED
      BY <3>1
  <2>. QED
    BY <1>4, <2>1
<1>6. m # 0
  <2>1. m = 0 => e * m = 0
    OBVIOUS
  <2>. QED
    BY <1>2, <1>5, <2>1
<1>7. PICK d \in Nat, i \in 0 .. m - 1 : q = d * m + i
  BY <1>6, Quotient
<1>8. d < e
  <2> SUFFICES ASSUME e <= d PROVE FALSE
    OBVIOUS
  <2>1. e * m <= d * m /\ d * m \in Nat
    BY NoFewer
  <2>. QED
    BY <1>2, <1>5, <1>7, <2>1
<1>9. GroupBase(cf, d, i) = n + 3 * q + 1
  <2>1. m * d + i = q
    BY <1>7
  <2>. QED
    BY <1>1, <2>1 DEF GroupBase
<1>10. g = GroupBase(cf, d, i) + r
  BY <1>1, <1>4, <1>5, <1>9
<1>. QED
  BY <1>1, <1>7, <1>8, <1>10

\* When a gate of the plan has what it needs: behind the inputs, an addition
\* with the layer before its own, a multiplication with its own.
ReadyOf(cf, g) ==
  IF g <= NInputs(cf) \/ g >= FirstOutput(cf) THEN 0
  ELSE ((g - NInputs(cf) - 1) \div (3 * Groups(cf)))
         + (IF (g - NInputs(cf) - 1) % 3 = 0 THEN 0 ELSE 1)

\* It is that of the layer of the group.
LEMMA ReadyInGroup ==
  ASSUME NEW cf, Sized(cf), NEW d \in Nat, d < cf.depth, NEW i \in Nat, i < Groups(cf), NEW r \in 0 .. 2
  PROVE  /\ ReadyOf(cf, GroupBase(cf, d, i) + r) = d + (IF r = 0 THEN 0 ELSE 1)
         /\ GroupBase(cf, d, i) + r \in Nat /\ NInputs(cf) < GroupBase(cf, d, i) + r
         /\ GroupBase(cf, d, i) + r < FirstOutput(cf)
<1>1. PlaceIs(cf, GroupBase(cf, d, i) + r, d, i, r)
  BY InnerPlace
<1>2. /\ GroupBase(cf, d, i) \in Nat /\ NInputs(cf) < GroupBase(cf, d, i) /\ NInputs(cf) \in Nat
      /\ GroupBase(cf, d, i) + 2 < FirstOutput(cf) /\ FirstOutput(cf) \in Nat
  BY GroupPlaces, GroupBefore DEF Sized
<1>3. PICK g \in Nat : g = GroupBase(cf, d, i) + r /\ NInputs(cf) < g /\ g < FirstOutput(cf)
  BY <1>2
<1>4. ~(g <= NInputs(cf)) /\ ~(g >= FirstOutput(cf))
  BY <1>2, <1>3
<1>5. ReadyOf(cf, g) = d + (IF r = 0 THEN 0 ELSE 1)
  BY <1>1, <1>3, <1>4 DEF ReadyOf, PlaceIs
<1>. QED
  BY <1>3, <1>5

\* The wires a layer reads are before its groups.
LEMMA WireBefore ==
  ASSUME NEW cf, Sized(cf), Valid(cf), NEW d \in Nat, d < cf.depth, NEW j \in Nat, j < 2 * Groups(cf)
  PROVE  /\ WireAt(cf, d, j) \in Nat \ {0} /\ WireAt(cf, d, j) < FirstOutput(cf)
         /\ d = 0 => WireAt(cf, d, j) <= NInputs(cf)
         /\ ReadyOf(cf, WireAt(cf, d, j)) = d
<1>1. NInputs(cf) \in Nat \ {0} /\ FirstOutput(cf) \in Nat /\ NInputs(cf) < FirstOutput(cf)
  BY ValidWidth, OutputsBehind
<1>2. CASE d = 0
  <2>1. PICK w \in Nat : w = (j % NInputs(cf)) + 1 /\ w # 0 /\ w <= NInputs(cf)
    BY <1>1
  <2>2. WireAt(cf, d, j) = w
    BY <1>2, <2>1 DEF WireAt
  <2>3. ReadyOf(cf, w) = 0
    BY <2>1 DEF ReadyOf
  <2>. QED
    BY <1>1, <1>2, <2>1, <2>2, <2>3
<1>3. CASE d # 0
  <2>1. PICK c \in Nat : c = d - 1 /\ d = c + 1
    BY <1>3
  <2>2. PICK i \in Nat, r \in 1 .. 2 : i = j \div 2 /\ r = 1 + (j % 2) /\ i < Groups(cf)
    BY GroupsNumber
  <2>3. WireAt(cf, d, j) = GroupBase(cf, c, i) + r
    <3>1. WireAt(cf, d, j) = GroupBase(cf, c, i) + 1 + (j % 2)
      BY <1>3, <2>1, <2>2 DEF WireAt, MultAt
    <3>2. GroupBase(cf, c, i) \in Nat
      BY GroupPlaces
    <3>3. j % 2 \in Nat
      OBVIOUS
    <3>. QED
      BY <2>2, <3>1, <3>2, <3>3
  <2>4. c < cf.depth /\ r \in 0 .. 2 /\ r # 0
    BY <2>1 DEF Sized
  <2>5. /\ ReadyOf(cf, GroupBase(cf, c, i) + r) = c + 1
        /\ GroupBase(cf, c, i) + r \in Nat /\ NInputs(cf) < GroupBase(cf, c, i) + r
        /\ GroupBase(cf, c, i) + r < FirstOutput(cf)
    BY <2>2, <2>4, ReadyInGroup
  <2>. QED
    BY <1>1, <1>3, <2>1, <2>3, <2>5
<1>. QED
  BY <1>2, <1>3

\* The circuit that is built has these gates.
LEMMA GroupBuilt ==
  ASSUME FromConfigInv, Structure, pc \in Finished, config.depth > 0,
         NEW d \in Nat, d < config.depth, NEW i \in Nat, i < Groups(config)
  PROVE  /\ GroupBase(config, d, i) \in 1 .. Len(gates)
         /\ GroupBase(config, d, i) + 1 \in 1 .. Len(gates)
         /\ GroupBase(config, d, i) + 2 \in 1 .. Len(gates)
         /\ gates[GroupBase(config, d, i)] =
              [kind |-> "add", left |-> WireAt(config, d, 2 * i), right |-> WireAt(config, d, 2 * i + 1)]
         /\ gates[GroupBase(config, d, i) + 1] =
              [kind |-> "mult", left |-> WireAt(config, d, 2 * i), right |-> GroupBase(config, d, i)]
         /\ gates[GroupBase(config, d, i) + 2] =
              [kind |-> "mult", left |-> WireAt(config, d, 2 * i + 1), right |-> GroupBase(config, d, i)]
<1>1. /\ Sized(config) /\ \A g \in 1 .. Len(gates) : gates[g] = SyntheticGate(config, g)
      /\ Len(gates) = FirstOutput(config) - 1 + NOutputs(config) /\ FirstOutput(config) \in Nat
      /\ NOutputs(config) \in Nat
  BY FinishedFacts
<1>2. /\ GroupBase(config, d, i) \in Nat /\ NInputs(config) < GroupBase(config, d, i)
      /\ NInputs(config) \in Nat /\ GroupBase(config, d, i) + 2 < FirstOutput(config)
  BY <1>1, GroupPlaces, GroupBefore DEF Sized
<1>3. /\ GroupBase(config, d, i) \in 1 .. Len(gates)
      /\ GroupBase(config, d, i) + 1 \in 1 .. Len(gates)
      /\ GroupBase(config, d, i) + 2 \in 1 .. Len(gates)
  BY <1>1, <1>2
<1>. QED
  BY <1>1, <1>3, PlanGroup

\* The last two of a group are its multiplications.
LEMMA GroupMults ==
  ASSUME FromConfigInv, Structure, pc \in Finished, config.depth > 0,
         NEW d \in Nat, d < config.depth, NEW i \in Nat, i < Groups(config)
  PROVE  /\ gates[GroupBase(config, d, i) + 1].kind = "mult"
         /\ gates[GroupBase(config, d, i) + 2].kind = "mult"
<1>1. gates[GroupBase(config, d, i) + 1] =
        [kind |-> "mult", left |-> WireAt(config, d, 2 * i), right |-> GroupBase(config, d, i)]
  BY GroupBuilt
<1>2. gates[GroupBase(config, d, i) + 2] =
        [kind |-> "mult", left |-> WireAt(config, d, 2 * i + 1), right |-> GroupBase(config, d, i)]
  BY GroupBuilt
<1>. QED
  BY <1>1, <1>2

\* A multiplication is in the layer that the flat view has it in.
LEMMA LayerOfMult ==
  ASSUME FromConfigInv, Structure, pc \in Finished, config.depth > 0,
         NEW d \in Nat, d < config.depth, NEW j \in Nat, j < 2 * Groups(config)
  PROVE  MultLayerOf(MultAt(config, d, j)) = d + 1
<1> DEFINE g == MultAt(config, d, j)
           Has(l) == \E k \in 1 .. Len(flatMult[l]) : flatMult[l][k] = g
<1>1. /\ Sized(config) /\ config.depth \in Nat \ {0} /\ Groups(config) \in Nat
      /\ Len(flatMult) = config.depth + 1 /\ flatMult \in Seq(Seq(Nat))
      /\ \A c \in 0 .. config.depth - 1 : LayerUpTo(config, flatMult[c + 1], c, 2 * Groups(config))
      /\ flatMult[config.depth + 1] = << >>
  BY FinishedFacts
<1>2. d + 1 \in 1 .. Len(flatMult) /\ d \in 0 .. config.depth - 1
  <2>1. PICK e \in Nat : e = config.depth /\ Len(flatMult) = e + 1 /\ d < e
    BY <1>1
  <2>. QED
    BY <2>1
<1>3. Has(d + 1)
  <2>1. LayerUpTo(config, flatMult[d + 1], d, 2 * Groups(config))
    BY <1>1, <1>2
  <2>2. j + 1 \in 1 .. 2 * Groups(config) /\ (j + 1) - 1 = j
    BY <1>1
  <2>. QED
    BY <2>1, <2>2 DEF LayerUpTo
<1>4. ASSUME NEW l \in 1 .. Len(flatMult), Has(l) PROVE l = d + 1
  <2>1. PICK k \in 1 .. Len(flatMult[l]) : flatMult[l][k] = g
    BY <1>4
  <2>2. l # config.depth + 1
    <3>1. l = config.depth + 1 => Len(flatMult[l]) = 0
      BY <1>1
    <3>. QED
      BY <3>1
  <2>3. PICK c \in 0 .. config.depth - 1 : l = c + 1 /\ c \in Nat
    <3>1. PICK e \in Nat : e = config.depth /\ Len(flatMult) = e + 1
      BY <1>1
    <3>2. l - 1 \in 0 .. e - 1 /\ l = (l - 1) + 1
      BY <2>2, <3>1
    <3>. QED
      BY <3>1, <3>2
  <2>4. LayerUpTo(config, flatMult[l], c, 2 * Groups(config))
    BY <1>1, <2>3
  <2>5. PICK v \in Nat : v = k - 1 /\ v < 2 * Groups(config) /\ MultAt(config, c, v) = g
    <3>1. Len(flatMult[l]) = 2 * Groups(config)
      BY <2>4 DEF LayerUpTo
    <3>2. k \in 1 .. 2 * Groups(config) /\ flatMult[l][k] = MultAt(config, c, k - 1)
      BY <2>4, <3>1 DEF LayerUpTo
    <3>3. k - 1 \in Nat /\ k - 1 < 2 * Groups(config)
      BY <1>1, <3>2
    <3>. QED
      BY <2>1, <3>2, <3>3
  <2>6. c = d
    BY <1>1, <2>3, <2>5, OneLayer
  <2>. QED
    BY <2>3, <2>6
<1>5. MultLayerOf(g) = CHOOSE l \in 1 .. Len(flatMult) : Has(l)
  BY DEF MultLayerOf
<1> HIDE DEF Has
<1>6. (CHOOSE l \in 1 .. Len(flatMult) : Has(l)) = d + 1
  BY <1>2, <1>3, <1>4
<1>. QED
  BY <1>5, <1>6

\* ReadyAfter is a function that looks up itself for the parents of a gate.
IsReady(f) ==
  f = [g \in DOMAIN gates |->
         CASE gates[g].kind = "add" -> Later(f[gates[g].left], f[gates[g].right])
           [] gates[g].kind = "mult" -> MultLayerOf(g)
           [] OTHER -> 0]

\* What such a function has for a gate of each kind.
LEMMA ReadyCases ==
  ASSUME NEW f, IsReady(f), NEW g \in DOMAIN gates
  PROVE  /\ gates[g].kind = "mult" => f[g] = MultLayerOf(g)
         /\ gates[g].kind = "add" =>
              f[g] = Later(f[gates[g].left], f[gates[g].right])
         /\ gates[g].kind \notin {"mult", "add"} => f[g] = 0
<1>1. f[g] = CASE gates[g].kind = "add" -> Later(f[gates[g].left], f[gates[g].right])
               [] gates[g].kind = "mult" -> MultLayerOf(g)
               [] OTHER -> 0
  BY DEF IsReady
<1>. QED
  BY <1>1

\* An input or an output of the plan is where it was built.
LEMMA EndsBuilt ==
  ASSUME FromConfigInv, Structure, pc \in Finished, config.depth > 0, NEW g \in 1 .. Len(gates),
         g <= NInputs(config) \/ g >= FirstOutput(config)
  PROVE  gates[g].kind \notin {"mult", "add"}
<1>1. Sized(config) /\ gates[g] = SyntheticGate(config, g) /\ g \in Nat
  BY FinishedFacts
<1>2. NInputs(config) \in Nat /\ FirstOutput(config) \in Nat /\ NInputs(config) < FirstOutput(config)
  BY <1>1, OutputsBehind
<1>3. CASE g <= NInputs(config)
  <2>1. SyntheticGate(config, g).kind = "input"
    BY <1>1, <1>2, <1>3, PlanKinds
  <2>. QED
    BY <1>1, <2>1
<1>4. CASE g >= FirstOutput(config)
  <2>1. ~(g <= NInputs(config))
    BY <1>1, <1>2, <1>4
  <2>2. PICK k : k = g - FirstOutput(config) + 1
    OBVIOUS
  <2>3. SyntheticGate(config, g) =
          [kind |-> "output", owner |-> OwnerAt(config.out, k) - 1,
           left |-> MultAt(config, config.depth - 1, (k - 1) % (2 * Groups(config)))]
    <3>1. ~(g < FirstOutput(config))
      BY <1>1, <1>2, <1>4
    <3>. QED
      BY <1>4, <2>1, <2>2, <3>1 DEF SyntheticGate
  <2>. QED
    BY <1>1, <2>3
<1>. QED
  BY <1>3, <1>4

\* The wires a group reads come from the layers before it.
LEMMA WireReady ==
  ASSUME FromConfigInv, Structure, pc \in Finished, config.depth > 0, NEW f, IsReady(f),
         NEW d \in Nat, d < config.depth, NEW j \in Nat, j < 2 * Groups(config)
  PROVE  WireAt(config, d, j) \in 1 .. Len(gates) /\ f[WireAt(config, d, j)] = d
<1>1. /\ Sized(config) /\ Valid(config) /\ FirstOutput(config) \in Nat /\ NOutputs(config) \in Nat
      /\ Len(gates) = FirstOutput(config) - 1 + NOutputs(config) /\ Groups(config) \in Nat
  BY FinishedFacts
<1>2. /\ WireAt(config, d, j) \in Nat \ {0} /\ WireAt(config, d, j) < FirstOutput(config)
      /\ d = 0 => WireAt(config, d, j) <= NInputs(config)
  BY <1>1, WireBefore
<1>3. WireAt(config, d, j) \in 1 .. Len(gates) /\ DOMAIN gates = 1 .. Len(gates)
  BY <1>1, <1>2 DEF Structure, TypeOK
<1>4. CASE d = 0
  BY <1>2, <1>3, <1>4, EndsBuilt, ReadyCases
<1>5. CASE d # 0
  <2>1. PICK c \in Nat : c = d - 1 /\ d = c + 1 /\ c < config.depth
    BY <1>1, <1>5 DEF Sized
  <2>2. WireAt(config, d, j) = MultAt(config, c, j)
    BY <1>5, <2>1 DEF WireAt
  <2>3. MultLayerOf(MultAt(config, c, j)) = c + 1
    BY <2>1, LayerOfMult
  <2>4. gates[MultAt(config, c, j)].kind = "mult"
    <3>1. PICK i \in Nat : i < Groups(config) /\ (j = 2 * i \/ j = 2 * i + 1)
      <4>1. PICK i \in Nat, r \in 0 .. 1 : j = 2 * i + r
        <5>1. 2 \in Nat \ {0} /\ 2 - 1 = 1
          OBVIOUS
        <5>2. PICK i \in Nat, r \in 0 .. 2 - 1 : j = i * 2 + r
          BY <5>1, Quotient
        <5>. QED
          BY <5>2
      <4>2. PICK m \in Nat : m = Groups(config)
        BY <1>1
      <4>3. i < m /\ (j = 2 * i \/ j = 2 * i + 1)
        BY <4>1, <4>2
      <4>. QED
        BY <4>2, <4>3
    <3>2. GroupBase(config, c, i) \in Nat
      BY <1>1, <2>1, <3>1, GroupPlaces
    <3>3. MultAt(config, c, j) \in {GroupBase(config, c, i) + 1, GroupBase(config, c, i) + 2}
      BY <3>1, <3>2, MultPlaces
    <3>4. gates[GroupBase(config, c, i) + 1].kind = "mult" /\ gates[GroupBase(config, c, i) + 2].kind = "mult"
      BY <2>1, <3>1, GroupMults
    <3>. QED
      BY <3>3, <3>4
  <2>. QED
    BY <1>3, <2>1, <2>2, <2>3, <2>4, ReadyCases
<1>. QED
  BY <1>3, <1>4, <1>5

\* A recursive function is chosen among those that look themselves up.
LEMMA ReadyChosen == ReadyAfter = CHOOSE h : IsReady(h)
BY DEF ReadyAfter, IsReady

\* There is such a function, so ReadyAfter is one.
LEMMA ReadyAfterIs ==
  ASSUME FromConfigInv, Structure, pc \in Finished, config.depth > 0
  PROVE  IsReady(ReadyAfter)
<1> DEFINE f == [g \in DOMAIN gates |-> ReadyOf(config, g)]
           value(g) == CASE gates[g].kind = "add" -> Later(f[gates[g].left], f[gates[g].right])
                         [] gates[g].kind = "mult" -> MultLayerOf(g)
                         [] OTHER -> 0
<1>1. /\ Sized(config) /\ Valid(config) /\ FirstOutput(config) \in Nat /\ NOutputs(config) \in Nat
      /\ Len(gates) = FirstOutput(config) - 1 + NOutputs(config) /\ Groups(config) \in Nat
      /\ NInputs(config) \in Nat
  BY FinishedFacts DEF Sized
<1>2. DOMAIN gates = 1 .. Len(gates)
  BY DEF Structure, TypeOK
<1>3. ASSUME NEW g \in 1 .. Len(gates) PROVE ReadyOf(config, g) = value(g)
  <2>1. CASE g <= NInputs(config) \/ g >= FirstOutput(config)
    <3>1. ReadyOf(config, g) = 0
      BY <2>1 DEF ReadyOf
    <3>2. gates[g].kind \notin {"mult", "add"}
      BY <2>1, EndsBuilt
    <3> HIDE DEF f
    <3>. QED
      BY <3>1, <3>2
  <2>2. CASE ~(g <= NInputs(config) \/ g >= FirstOutput(config))
    <3>1. g \in Nat /\ NInputs(config) < g /\ g < FirstOutput(config)
      BY <1>1, <2>2
    <3>2. PICK d \in Nat, i \in Nat, r \in 0 .. 2 :
            d < config.depth /\ i < Groups(config) /\ g = GroupBase(config, d, i) + r
      BY <1>1, <3>1, PlaceOf
    <3>3. ReadyOf(config, g) = d + (IF r = 0 THEN 0 ELSE 1)
      <4> HIDE DEF f, value
      <4>1. Sized(config)
        BY <1>1
      <4>. QED
        BY <3>2, <4>1, ReadyInGroup, SMTT(30)
    <3>4. GroupBase(config, d, i) \in Nat
      BY <1>1, <3>2, GroupPlaces
    <3>5. CASE r = 0
      <4>1. gates[g] = [kind |-> "add", left |-> WireAt(config, d, 2 * i), right |-> WireAt(config, d, 2 * i + 1)]
        <5>1. g = GroupBase(config, d, i)
          BY <3>2, <3>4, <3>5
        <5>. QED
          BY <3>2, <5>1, GroupBuilt
      <4>2. ASSUME NEW j \in Nat, j < 2 * Groups(config)
            PROVE  f[WireAt(config, d, j)] = d
        <5>1. /\ WireAt(config, d, j) \in Nat \ {0} /\ WireAt(config, d, j) < FirstOutput(config)
              /\ ReadyOf(config, WireAt(config, d, j)) = d
          BY <1>1, <3>2, <4>2, WireBefore
        <5>2. WireAt(config, d, j) \in 1 .. Len(gates)
          BY <1>1, <5>1
        <5>. QED
          BY <1>2, <5>1, <5>2
      <4>3. /\ 2 * i \in Nat /\ 2 * i < 2 * Groups(config)
            /\ 2 * i + 1 \in Nat /\ 2 * i + 1 < 2 * Groups(config)
        BY <1>1, <3>2
      <4> HIDE DEF f
      <4>4. f[gates[g].left] = d /\ f[gates[g].right] = d
        BY <4>1, <4>2, <4>3
      <4>5. gates[g].kind = "add" /\ gates[g].kind # "mult"
        BY <4>1
      <4>6. value(g) = d
        BY <4>4, <4>5 DEF Later
      <4>. QED
        BY <3>3, <3>5, <4>6
    <3>6. CASE r # 0
      <4>1. PICK j \in Nat : j = 2 * i + (r - 1) /\ j < 2 * Groups(config) /\ (r = 1 => j = 2 * i)
                             /\ (r = 2 => j = 2 * i + 1)
        BY <1>1, <3>2, <3>6
      <4>2. r = 1 \/ r = 2
        BY <3>6
      <4>3. MultAt(config, d, j) = g
        <5>1. CASE r = 1
          BY <3>2, <3>4, <4>1, <5>1, MultPlaces
        <5>2. CASE r = 2
          BY <3>2, <3>4, <4>1, <5>2, MultPlaces
        <5>. QED
          BY <4>2, <5>1, <5>2
      <4>4. MultLayerOf(g) = d + 1
        BY <3>2, <4>1, <4>3, LayerOfMult
      <4>5. gates[g].kind = "mult"
        <5>1. gates[GroupBase(config, d, i) + 1].kind = "mult" /\ gates[GroupBase(config, d, i) + 2].kind = "mult"
          BY <3>2, GroupMults
        <5>. QED
          BY <3>2, <4>2, <5>1
      <4> HIDE DEF f
      <4>. QED
        BY <3>3, <3>6, <4>4, <4>5
    <3>. QED
      BY <3>5, <3>6
  <2>. QED
    BY <2>1, <2>2
<1>4. f = [g \in DOMAIN gates |-> value(g)]
  <2>1. \A g \in DOMAIN gates : f[g] = value(g)
    <3>1. \A g \in DOMAIN gates : f[g] = ReadyOf(config, g)
      OBVIOUS
    <3>. QED
      BY <1>2, <1>3, <3>1
  <2>2. f = [g \in DOMAIN gates |-> f[g]]
    OBVIOUS
  <2> HIDE DEF f, value
  <2>. QED
    BY <2>1, <2>2
<1>5. IsReady(f)
  BY <1>4 DEF IsReady
<1> HIDE DEF f
<1>6. IsReady(CHOOSE h : IsReady(h))
  BY <1>5
<1>. QED
  BY <1>6, ReadyChosen

\* Both factors of a multiplication depend on earlier layers only.
LEMMA FactorsReady ==
  ASSUME FromConfigInv, Structure, pc \in Finished, config.depth > 0,
         NEW g \in DOMAIN gates, gates[g].kind = "mult"
  PROVE  /\ ReadyAfter[gates[g].left] < MultLayerOf(g)
         /\ ReadyAfter[gates[g].right] < MultLayerOf(g)
<1>1. PICK f : f = ReadyAfter /\ IsReady(f)
  BY ReadyAfterIs
<1>2. /\ Sized(config) /\ FirstOutput(config) \in Nat /\ NInputs(config) \in Nat
      /\ Groups(config) \in Nat
  BY FinishedFacts DEF Sized
<1>3. DOMAIN gates = 1 .. Len(gates)
  BY DEF Structure, TypeOK
<1>4. g \in Nat /\ NInputs(config) < g /\ g < FirstOutput(config)
  <2>1. ~(g <= NInputs(config) \/ g >= FirstOutput(config))
    BY <1>3, EndsBuilt
  <2>. QED
    BY <1>2, <1>3, <2>1
<1>5. PICK d \in Nat, i \in Nat, r \in 0 .. 2 :
        d < config.depth /\ i < Groups(config) /\ g = GroupBase(config, d, i) + r
  BY <1>2, <1>4, PlaceOf
<1>6. PICK b \in Nat : b = GroupBase(config, d, i) /\ g = b + r
  BY <1>2, <1>5, GroupPlaces
<1>7. /\ b \in DOMAIN gates
      /\ gates[b] = [kind |-> "add", left |-> WireAt(config, d, 2 * i), right |-> WireAt(config, d, 2 * i + 1)]
      /\ gates[b + 1] = [kind |-> "mult", left |-> WireAt(config, d, 2 * i), right |-> b]
      /\ gates[b + 2] = [kind |-> "mult", left |-> WireAt(config, d, 2 * i + 1), right |-> b]
  BY <1>3, <1>5, <1>6, GroupBuilt
<1>8. r = 1 \/ r = 2
  <2>1. r = 0 => gates[g].kind = "add"
    BY <1>6, <1>7
  <2>. QED
    BY <2>1
<1>9. /\ 2 * i \in Nat /\ 2 * i < 2 * Groups(config)
      /\ 2 * i + 1 \in Nat /\ 2 * i + 1 < 2 * Groups(config)
  BY <1>2, <1>5
<1>10. f[WireAt(config, d, 2 * i)] = d /\ f[WireAt(config, d, 2 * i + 1)] = d
  BY <1>1, <1>5, <1>9, WireReady
<1>11. f[b] = d
  BY <1>1, <1>7, <1>10, ReadyCases DEF Later
<1>12. MultLayerOf(g) = d + 1
  <2>1. CASE r = 1
    <3>1. MultAt(config, d, 2 * i) = g
      BY <1>5, <1>6, <2>1, MultPlaces
    <3>. QED
      BY <1>5, <1>9, <3>1, LayerOfMult
  <2>2. CASE r = 2
    <3>1. MultAt(config, d, 2 * i + 1) = g
      BY <1>5, <1>6, <2>2, MultPlaces
    <3>. QED
      BY <1>5, <1>9, <3>1, LayerOfMult
  <2>. QED
    BY <1>8, <2>1, <2>2
<1>13. f[gates[g].left] = d /\ f[gates[g].right] = d
  BY <1>6, <1>7, <1>8, <1>10, <1>11
<1>. QED
  BY <1>1, <1>12, <1>13

\* Everything that BuildsSynthetic asks for.
LEMMA SyntheticBuilt == FromConfigInv /\ Structure /\ ViewsAgree => BuildsSynthetic
<1> SUFFICES ASSUME FromConfigInv, Structure, ViewsAgree, pc \in {"built", "ready"}, config.depth > 0
             PROVE  BuildsSynthetic
  BY DEF BuildsSynthetic
<1>1. pc \in Finished
  BY DEF Finished
<1>. QED
  BY <1>1, FlatBuilt, BatchesBuilt, FactorsReady DEF BuildsSynthetic

\* Whatever the configuration, batch size and bounds: what FromConfig builds is
\* the circuit of SyntheticCircuit, gate for gate and batch for batch, and no
\* multiplication of it needs a wire that its own layer or a later one makes.
THEOREM CircuitAsPlanned == FCSpec => []BuildsSynthetic
<1>1. FCInit => FromConfigInv /\ Structure /\ Phases /\ ViewsAgree
  BY InitFromConfig, InitStructure, InitPhases, InitViews
<1>2. FromConfigInv /\ Structure /\ Phases /\ ViewsAgree /\ [FCNext]_fcVars
        => FromConfigInv' /\ Structure' /\ Phases' /\ ViewsAgree'
  BY NextFromConfig, NextPhases, OrderlyViews
<1>. QED
  BY <1>1, <1>2, SyntheticBuilt, PTL DEF FCSpec
=============================================================================
