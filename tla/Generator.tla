------------------------------ MODULE Generator ------------------------------
(***************************************************************************)
(* scl::PRG (scl/prg.h) and how random elements are read from it.  What it *)
(* yields is the key stream of its seed, which is not looked into; what a  *)
(* call of Next gets is a range of bytes of that stream.  It takes whole   *)
(* blocks: the rest of its last one is never used.                         *)
(***************************************************************************)
EXTENDS Integers, Sequences, SequencesExt

CONSTANTS BlockBytes,   \* bytes of a block
          ElementBytes  \* bytes an element is read from

ASSUME GeneratorAssumption == BlockBytes \in Nat \ {0} /\ ElementBytes \in Nat \ {0}

VARIABLES
  counter,  \* mCounter
  drawn     \* history: the bytes of the stream that were given out

generatorVars == << counter, drawn >>

GeneratorInit == counter = 0 /\ drawn = << >>

\* Fault: the block that is used in part is not counted.
WholeBlocks(nbytes) == nbytes \div BlockBytes

BlocksFor(nbytes) == (nbytes + BlockBytes - 1) \div BlockBytes

\* The counter after calls of Next for so many bytes each.
CounterAfter(sizes) == FoldLeft(LAMBDA c, n : c + BlocksFor(n), counter, sizes)

\* The bytes that call i of them gets.
BytesOf(sizes, i) ==
  [j \in 1 .. sizes[i] |-> CounterAfter(SubSeq(sizes, 1, i - 1)) * BlockBytes + j]

NextBytes(sizes) ==
  /\ counter' = CounterAfter(sizes)
  /\ drawn' = drawn \o FlattenSeq([i \in DOMAIN sizes |-> BytesOf(sizes, i)])

\* T::Random: an element is read from a call of its own.  Vec::PartialRandom
\* does that for every position from the second on, in all its uses, and puts 0
\* in the first.
Elements(n) == [i \in 1 .. n |-> ElementBytes]

PartialRandom(stream, n) ==
  [i \in 1 .. n |-> IF i = 1 THEN 0 ELSE stream[BytesOf(Elements(n - 1), i - 1)[1]]]

\* Mat::Random fills a buffer for all its elements by one call.
MatRandom(n, m) == << n * m * ElementBytes >>
=============================================================================
