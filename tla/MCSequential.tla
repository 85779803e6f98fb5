---------------------------- MODULE MCSequential ----------------------------
(* The jobs for TLC, over the field of 7 elements.                          *)
EXTENDS Sequential

Canonical(n) == [i \in 1 .. n |-> i]

\* Every vector of four shares for t = 1, one share too few, one too many.
Four ==
  [op : {"correct"}, t : {1}, alphas : {Canonical(4)}, shares : [1 .. 4 -> Field]]
  \cup { [op |-> "correct", t |-> 1, alphas |-> a, shares |-> s] :
           a \in {Canonical(3), Canonical(5)}, s \in { << 1, 2, 3 >>, << 1, 2, 4, 4, 0 >> } }

\* t = 2 at all points of the field: 0, 1 or 5 + 3X + X^2, with 0 to 3 errors.
Sevens == 1 .. 7
Patterns == { d \in [Sevens -> {0, 1, 3}] : Cardinality({ i \in Sevens : d[i] # 0 }) <= 3 }
Seven ==
  [op : {"correct"}, t : {2}, alphas : { [i \in Sevens |-> i - 1] },
   shares : { [i \in Sevens |-> (EvaluateAt(p, i - 1) + d[i]) % P] :
                p \in { << 0 >>, << 5, 3, 1 >> }, d \in Patterns }]

Detections ==
  [op : {"detect"}, t : {1}, pos : {0, 5}, alphas : {Canonical(3)}, shares : [1 .. 3 -> Field]]
  \cup [op : {"detect"}, t : {2}, pos : {0}, alphas : {Canonical(6)},
        shares : { [i \in 1 .. n |-> (1 + 2 * i * i + IF i \in bad THEN i ELSE 0) % P] :
                     n \in 4 .. 6, bad \in SUBSET (1 .. 6) }]

\* Systems of two unknowns, and of three with zeros and ones.
Systems ==
  [op : {"solve"}, uniqueOnly : BOOLEAN,
   a : [1 .. 2 -> [1 .. 2 -> {0, 1, 3}]], b : [1 .. 2 -> {0, 1, 3}]]
  \cup [op : {"solve"}, uniqueOnly : BOOLEAN,
        a : [1 .. 3 -> [1 .. 3 -> {0, 1}]], b : { << 0, 0, 0 >>, << 1, 0, 4 >>, << 2, 2, 2 >> }]

-----------------------------------------------------------------------------
\* Sharing.  The key stream is stood in for by two functions of the place.
Streams == { [b \in 1 .. 24 |-> (b * b + 3) % P], [b \in 1 .. 24 |-> (3 * b) % P] }
Shamirs ==
  [op : {"share"}, scheme : {"shamir"}, n : {5}, t : 0 .. 3, secrets : {<< 4, 0, 6 >>}, stream : Streams]
Additives ==
  [op : {"share"}, scheme : {"additive"}, n : 0 .. 4, t : {0}, secrets : {<< 4, 0, 6 >>}, stream : Streams]
Draws ==
  [op : {"random"},
   draws : SeqOf([rows : {0, 1, 3}, cols : {1, 3}], 3)]

-----------------------------------------------------------------------------
\* Matrices of up to two rows and three columns with some fixed entries, among
\* them the identity, and the matrix without any.
Shapes == { << 1, 1 >>, << 1, 3 >>, << 2, 1 >>, << 2, 2 >>, << 2, 3 >>, << 3, 2 >> }
MatricesOf(f(_)) == { MatrixOf(s[1], s[2], LAMBDA i, j : f(s[2] * i + j)) : s \in Shapes }
SomeMatrices ==
  MatricesOf(LAMBDA v : v + 1) \cup MatricesOf(LAMBDA v : (3 * v * v + 5) % P)
  \cup {Identity(2), Identity(3), [rows |-> 0, cols |-> 0, values |-> << >>]}
MatrixJobs ==
  [op : {"matrix"}, f : {"multiply"}, a : SomeMatrices, b : SomeMatrices]
  \cup [op : {"matrix"}, f : {"transpose"}, a : SomeMatrices]
  \cup [op : {"matrix"}, f : {"resize"}, a : SomeMatrices, rows : 1 .. 3, cols : 1 .. 6]
  \cup [op : {"matrix"}, f : {"combine"}, a : SomeMatrices, b : SomeMatrices, s : {0, 3}]
  \cup [op : {"matrix"}, f : {"vectors"}, s : {0, 3},
        a : { m.values : m \in SomeMatrices }, b : { m.values : m \in SomeMatrices }]

-----------------------------------------------------------------------------
\* All elements of the fields of 7 and 31, and the words that are longer.
FieldJobs ==
  UNION { LET elements == 0 .. Prime(e) - 1
          IN  [op : {"field"}, e : {e}, f : {"add", "subtract", "multiply61", "multiply127"},
               a : elements, b : elements]
              \cup [op : {"field"}, e : {e}, f : {"negate"}, a : elements]
              \cup [op : {"field"}, e : {e}, f : {"fromInt"}, a : -(Prime(e) - 1) .. Prime(e) - 1]
              \cup [op : {"field"}, e : {e}, f : {"fromBytes"}, a : 0 .. 2 ^ (e + 3) - 1]
              \cup [op : {"invertField"}, f : {"invert"}, e : {e}, a : elements]
              \cup [op : {"invertField"}, f : {"divide"}, e : {e}, a : elements, b : elements] : e \in {3, 5} }

\* Rings of 8 and 32 elements in words of 4, 6 and 8 bits, and larger ones, for
\* which an inverse takes one or two passes.
Operands(w) == { v \in 0 .. 2 ^ w[2] - 1 : v % w[3] < 2 }
RingJobs ==
  UNION { [op : {"ring"}, K : {w[1]}, W : {w[2]}, f : {"add", "subtract", "multiply", "negate", "read"},
           a : Operands(w), b : Operands(w)]
          : w \in { << 3, 4, 1 >>, << 5, 6, 3 >>, << 5, 8, 11 >> } }
  \cup UNION { [op : {"invertRing"}, f : {"invert"}, K : {w[1]}, W : {w[2]}, a : 0 .. 2 ^ w[2] - 1]
               : w \in { << 4, 5 >>, << 5, 6 >>, << 6, 7 >>, << 10, 11 >> } }
  \cup [op : {"invertRing"}, f : {"divide"}, K : {5}, W : {6}, a : 0 .. 63, b : 0 .. 63]

-----------------------------------------------------------------------------
\* A message of ten different bytes, cut into four calls in every way.
Bytes(from, to) == [i \in 1 .. to - from |-> from + i]
HashJobs ==
  [op : {"hash"},
   calls : { << Bytes(0, c[1]), Bytes(c[1], c[2]), Bytes(c[2], c[3]), Bytes(c[3], 10) >> :
               c \in { d \in [1 .. 3 -> 0 .. 10] : d[1] <= d[2] /\ d[2] <= d[3] } }]

-----------------------------------------------------------------------------
\* Messages of a word or two, at the limit, beyond it, and with sizes that wrap.
Upto(n) == [i \in 1 .. n |-> i % P]
Vector(n) == [kind |-> "vec", values |-> Upto(n)]
Matrix(r, c) == [kind |-> "mat", rows |-> r, cols |-> c, values |-> Upto(r * c)]
SmallMessages ==
  { [kind |-> "scalar", values |-> << 6 >>], [kind |-> "stl", values |-> << 3, 0, 5 >>],
    Vector(0), Vector(5), Matrix(1, 3), Matrix(2, 2), [Matrix(0, 0) EXCEPT !.values = << >>] }
LargeMessages == { Vector(6), Vector(16), Vector(18), Matrix(2, 3), Matrix(4, 4), Matrix(2, 8), Matrix(3, 6) }
MessageJobs ==
  [op : {"exchange"},
   messages : SeqOf(SmallMessages, 3)
              \cup { Append(s, m) : s \in SeqOf(SmallMessages, 1), m \in LargeMessages }]

-----------------------------------------------------------------------------
\* A circuit of two clients with an addition that feeds two multiplications and
\* a padded batch of every kind.
in(p) == [kind |-> "input", owner |-> p]
add(l, r) == [kind |-> "add", left |-> l, right |-> r]
mult(l, r) == [kind |-> "mult", left |-> l, right |-> r]
out(p, l) == [kind |-> "output", owner |-> p, left |-> l]
BatchOf(kind, gs) == [kind |-> kind, gates |-> gs]
CircuitJob(calls) ==
  [op |-> "evaluate", n |-> 3, calls |-> calls,
   gates |-> << in(0), in(1), in(0), add(1, 2), mult(4, 3), mult(1, 4), mult(3, 2), add(5, 6),
                out(1, 8), out(0, 7) >>,
   clients |-> << << 1, 3 >>, << 2 >> >>, owners |-> << << 10 >>, << 9 >> >>,
   batches |-> << BatchOf("input", << 1, 3 >>), BatchOf("input", << 2, Pad >>),
                  BatchOf("mult", << 5, 6 >>), BatchOf("mult", << 7, Pad >>),
                  BatchOf("output", << 10, Pad >>), BatchOf("output", << 9, Pad >>) >>]

\* The second list of inputs fails at the second client, the third at once.
ClearCalls ==
  [f : {"inputs"}, perClient : { << << 2, 3 >>, << 5 >> >>, << << 4, 3 >>, << >> >>, << << 1 >> >> }]
  \cup [f : {"inputsFlat"}, values : { << 4, 3, 1 >>, << 2, 3, 5, 6 >>, << 1, 2 >> }]
  \cup [f : {"outputs"}, flat : BOOLEAN]
LambdaCalls ==
  [f : {"prep", "lambdas"}, lambda : {2, 3}] \cup [f : {"populate", "fromLambdas"}]
EvaluationJobs ==
  { CircuitJob(c) : c \in [1 .. 4 -> ClearCalls] \cup [1 .. 3 -> LambdaCalls] }

AllJobs ==
  Four \cup Seven \cup Detections \cup Systems \cup Shamirs \cup Additives \cup Draws
  \cup MatrixJobs \cup FieldJobs \cup RingJobs \cup HashJobs \cup MessageJobs \cup EvaluationJobs
=============================================================================
