---------------------------- MODULE LinearSystem ----------------------------
(***************************************************************************)
(* Linear systems over a prime field: scl/math/la.h.  The reduction of the *)
(* augmented matrix [A | b] to reduced row echelon form is a loop over the *)
(* columns, one step each; a module that extends this one starts it and    *)
(* goes on from what it leaves.  Systems are square here, like those error *)
(* correction solves.  Rows and columns count from 1, and 0 is "none".     *)
(***************************************************************************)
EXTENDS FieldSharing, SequencesExt

VARIABLES
  aug,      \* the augmented matrix, a sequence of rows
  row, col  \* where RowReduceInPlace has come to: its r and c

solverVars == << aug, row, col >>

CreateAugmentedMatrix(A, b) == [i \in DOMAIN A |-> Append(A[i], b[i])]
Columns(M) == Len(M[1])

-----------------------------------------------------------------------------
\* RowReduceInPlace.

StartReduction(M) == aug' = M /\ row' = 1 /\ col' = 1

Reducing == row <= Len(aug) /\ col <= Columns(aug)
Reduced == ~Reducing

\* Rows a pivot of the current column can come from; the first is taken.
Candidates == { i \in row .. Len(aug) : aug[i][col] # 0 }

\* Fault: the row in the way is overwritten.
SwapRowsOneWay(M, i, k) == [M EXCEPT ![k] = M[i]]

SwapRows(M, i, k) == [M EXCEPT ![i] = M[k], ![k] = M[i]]
MultiplyRow(M, i, m) == [M EXCEPT ![i] = [j \in DOMAIN M[i] |-> (M[i][j] * m) % P]]
AddRows(dst, op, m) == [j \in DOMAIN dst |-> (dst[j] + op[j] * m) % P]

\* Clears the current column in all rows but the current one.
Cleared(M) == [i \in DOMAIN M |-> IF i = row THEN M[i] ELSE AddRows(M[i], M[row], -M[i][col])]

SkipColumn ==
  /\ Reducing /\ Candidates = {}
  /\ col' = col + 1
  /\ UNCHANGED << aug, row >>

EliminateColumn ==
  /\ Reducing /\ Candidates # {}
  /\ LET swapped == SwapRows(aug, Min(Candidates), row)
     IN  aug' = Cleared(MultiplyRow(swapped, row, InverseOf[swapped[row][col]]))
  /\ row' = row + 1 /\ col' = col + 1

-----------------------------------------------------------------------------
\* What is read off a reduced matrix.

\* Consistent; with uniqueOnly, a matrix without a row of zeros before the bar.
HasSolution(M, uniqueOnly) ==
  \A i \in DOMAIN M :
    (\A j \in 1 .. Columns(M) - 1 : M[i][j] = 0) => ~uniqueOnly /\ M[i][Columns(M)] = 0

FindFirstNonZeroRow(M) == Max({0} \cup { i \in DOMAIN M : \E j \in DOMAIN M[i] : M[i][j] # 0 })

\* The lowest row with an entry in the column, unless it begins earlier; the
\* entry right before the column is not looked at.
GetPivotInColumn(M, c) ==
  LET i == Max({0} \cup { k \in DOMAIN M : M[k][c] # 0 })
  IN  IF i # 0 /\ \A k \in 1 .. c - 2 : M[i][k] = 0 THEN i ELSE 0

\* Variables beyond the number of rows that are not zero are 0; the others are
\* set from the last to the first, those without a pivot to 1.  The sum skips
\* the columns up to the number of the row of the pivot.
ExtractSolution(M) ==
  LET n == Len(M)
      rows == FindFirstNonZeroRow(M)
      Sum(s, p) == MapThenSumSet(LAMBDA j : M[s.i][j] * s.x[j], p + 1 .. n)
      Set(s, c) ==
        LET p == GetPivotInColumn(M, c)
        IN  IF p = 0 THEN [s EXCEPT !.x[c] = 1]
            ELSE [x |-> [s.x EXCEPT ![c] = (M[s.i][n + 1] - Sum(s, p)) % P], i |-> s.i - 1]
  IN  FoldLeft(Set, [x |-> [c \in 1 .. n |-> 0], i |-> rows], [c \in 1 .. rows |-> rows + 1 - c]).x
=============================================================================
