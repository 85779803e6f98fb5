------------------------------ MODULE Matrices ------------------------------
(***************************************************************************)
(* scl/math/mat.h and scl/math/vec.h.  A matrix keeps its entries in one   *)
(* vector, row by row, beside its numbers of rows and columns; rows and    *)
(* columns count from 0.  A vector is a sequence.  A job is one operation. *)
(***************************************************************************)
EXTENDS FieldSharing, Calls

\* Vectors, entry by entry.
VecAdd(v, w) == [i \in DOMAIN v |-> (v[i] + w[i]) % P]
VecSubtract(v, w) == [i \in DOMAIN v |-> (v[i] - w[i]) % P]
VecMultiply(v, w) == [i \in DOMAIN v |-> (v[i] * w[i]) % P]
VecScale(s, v) == [i \in DOMAIN v |-> (s * v[i]) % P]
VecSum(v) == MapThenSumSet(LAMBDA i : v[i], DOMAIN v) % P
Dot(v, w) == MapThenSumSet(LAMBDA i : v[i] * w[i], DOMAIN v) % P

\* EnsureCompatible, before an operation on two.
SameSize(v, w) == Len(v) = Len(w)
Compatible(a, b) == a.rows = b.rows /\ a.cols = b.cols

Place(m, i, j) == m.cols * i + j + 1
Entry(m, i, j) == m.values[Place(m, i, j)]

\* The matrix with entry e(i, j) in row i and column j.
MatrixOf(rows, cols, e(_, _)) ==
  [rows |-> rows, cols |-> cols,
   values |-> [x \in 1 .. rows * cols |-> e((x - 1) \div cols, (x - 1) % cols)]]

MatrixAdd(a, b) == [a EXCEPT !.values = VecAdd(@, b.values)]
MatrixSubtract(a, b) == [a EXCEPT !.values = VecSubtract(@, b.values)]
MultiplyEntryWise(a, b) == [a EXCEPT !.values = VecMultiply(@, b.values)]
ScalarMultiply(s, a) == [a EXCEPT !.values = VecScale(s, @)]

\* Fault: the last term of every entry is left out.
ProductOneShort(a, b) ==
  MatrixOf(a.rows, b.cols,
           LAMBDA i, j : MapThenSumSet(LAMBDA l : Entry(a, i, l) * Entry(b, l, j), 0 .. a.cols - 2) % P)

Product(a, b) ==
  MatrixOf(a.rows, b.cols,
           LAMBDA i, j : MapThenSumSet(LAMBDA l : Entry(a, i, l) * Entry(b, l, j), 0 .. a.cols - 1) % P)

Transpose(m) == MatrixOf(m.cols, m.rows, LAMBDA i, j : Entry(m, j, i))
Identity(n) == MatrixOf(n, n, LAMBDA i, j : IF i = j THEN 1 ELSE 0)
IsIdentity(m) ==
  m.rows = m.cols
  /\ \A i, j \in 0 .. m.rows - 1 : Entry(m, i, j) = IF i = j THEN 1 ELSE 0
Resized(m, rows, cols) == [m EXCEPT !.rows = rows, !.cols = cols]

ToRowMatrix(v) == [rows |-> 1, cols |-> Len(v), values |-> v]
ToColumnMatrix(v) == [rows |-> Len(v), cols |-> 1, values |-> v]

-----------------------------------------------------------------------------
\* A result without rows or columns cannot be made: the constructor throws.
Allowed ==
  CASE job.f = "multiply"  -> job.a.cols = job.b.rows /\ job.a.rows > 0 /\ job.b.cols > 0
    [] job.f = "transpose" -> job.a.cols > 0
    [] job.f = "resize"    -> job.rows * job.cols = job.a.rows * job.a.cols
    [] job.f = "combine"   -> Compatible(job.a, job.b)
    [] job.f = "vectors"   -> SameSize(job.a, job.b)

\* "combine" is s * (a + b) - a .* b, of matrices, and "vectors" the same of vectors.
MatrixResult ==
  CASE job.f = "multiply"  -> Product(job.a, job.b)
    [] job.f = "transpose" -> Transpose(job.a)
    [] job.f = "resize"    -> Resized(job.a, job.rows, job.cols)
    [] job.f = "combine"   -> MatrixSubtract(ScalarMultiply(job.s, MatrixAdd(job.a, job.b)),
                                             MultiplyEntryWise(job.a, job.b))
    [] job.f = "vectors"   -> VecSubtract(VecScale(job.s, VecAdd(job.a, job.b)), VecMultiply(job.a, job.b))

MatrixOperation ==
  /\ At("matrix", "start")
  /\ IF Allowed THEN Return(MatrixResult) ELSE Continue("thrown")

-----------------------------------------------------------------------------
\* Row i and column j, as vectors.
Row(m, i) == [x \in 1 .. m.cols |-> Entry(m, i, x - 1)]
Column(m, j) == [x \in 1 .. m.rows |-> Entry(m, x - 1, j)]

\* The operations are those of linear algebra although entries lie in one vector
\* whose places depend on the shape: a product has the products of rows and
\* columns as its entries, is transposed by transposing the factors in the other
\* order, and the identity changes nothing; a matrix that takes another shape
\* keeps its entries row by row and gives them back.  Dot is linear in what the
\* vector operations make, and a sum of products by entries.
MatricesAgree ==
  job.op = "matrix" /\ pc = "returned" =>
    CASE job.f = "multiply" ->
           /\ \A i \in 0 .. job.a.rows - 1, j \in 0 .. job.b.cols - 1 :
                << Entry(answer, i, j) >>
                  = Product(ToRowMatrix(Row(job.a, i)), ToColumnMatrix(Column(job.b, j))).values
           /\ \A i \in 0 .. job.a.rows - 1, j \in 0 .. job.b.cols - 1 :
                Entry(answer, i, j) = Dot(Row(job.a, i), Column(job.b, j))
           /\ Transpose(answer) = Product(Transpose(job.b), Transpose(job.a))
           /\ Product(answer, Identity(job.b.cols)) = answer
      [] job.f = "transpose" ->
           /\ \A i \in 0 .. job.a.rows - 1 : Column(answer, i) = Row(job.a, i)
           /\ Transpose(answer) = job.a
           /\ IsIdentity(job.a) => IsIdentity(answer)
      [] job.f = "resize" ->
           /\ Len(answer.values) = answer.rows * answer.cols
           /\ Resized(answer, job.a.rows, job.a.cols) = job.a
           /\ job.rows = 1 => Row(answer, 0) = job.a.values
      [] job.f = "combine" ->
           \A i \in 0 .. job.a.rows - 1, j \in 0 .. job.a.cols - 1 :
             Entry(answer, i, j) = (job.s * (Entry(job.a, i, j) + Entry(job.b, i, j))
                                    - Entry(job.a, i, j) * Entry(job.b, i, j)) % P
      [] job.f = "vectors" ->
           LET third == [i \in DOMAIN job.a |-> i]
           IN  Dot(answer, third)
                 = (job.s * (Dot(job.a, third) + Dot(job.b, third))
                    - VecSum(VecMultiply(job.a, VecMultiply(job.b, third)))) % P
=============================================================================
