-------------------------- MODULE ShamirReconstruct --------------------------
(***************************************************************************)
(* Reconstruction of Shamir shared secrets that notices or corrects errors *)
(* (scl/ss/shamir.h), with the division of polynomials it ends in          *)
(* (scl/ss/poly.h) and the linear systems it solves.  A job is one call:   *)
(* of ReconstructShamir ("detect"), ReconstructShamirRobust ("correct"),   *)
(* or of the functions that solve a linear system ("solve").  Every pass   *)
(* of a loop is a step.  A polynomial is the sequence of its coefficients, *)
(* the constant term first.                                                *)
(***************************************************************************)
EXTENDS LinearSystem, Calls

VARIABLES
  k,          \* the loop counter
  x,          \* the solution of the last system that had one
  quotient, remainder

shamirVars == << k, x, quotient, remainder, solverVars >>

ShamirInit ==
  /\ k = 0
  /\ x = << >> /\ quotient = << 0 >> /\ remainder = << 0 >>
  /\ aug = << << 0 >> >> /\ row = 1 /\ col = 1

-----------------------------------------------------------------------------
\* Polynomials.

Degree(p) == Len(p) - 1
IsZero(p) == p = << 0 >>

\* Without leading zeros, but never without a coefficient.
Create(c) == SubSeq(c, 1, Max({1} \cup { i \in DOMAIN c : c[i] # 0 }))

Coefficient(p, i) == IF i \in DOMAIN p THEN p[i] ELSE 0
Subtract(p, q) ==
  Create([i \in 1 .. Max({Len(p), Len(q)}) |-> (Coefficient(p, i) - Coefficient(q, i)) % P])
Add(p, q) ==
  Create([i \in 1 .. Max({Len(p), Len(q)}) |-> (Coefficient(p, i) + Coefficient(q, i)) % P])

\* c * X^d, and the product of that with a polynomial.
Term(c, d) == [i \in 1 .. d + 1 |-> IF i = d + 1 THEN c ELSE 0]
TimesTerm(p, c, d) ==
  Create([i \in 1 .. Len(p) + d |-> IF i <= d THEN 0 ELSE (p[i - d] * c) % P])

DivideLeadingTerms(p, q) == (Last(p) * InverseOf[Last(q)]) % P

EvaluateAt(p, a) == FoldRight(LAMBDA c, y : (c + y * a) % P, p, 0)

-----------------------------------------------------------------------------
\* ReconstructShamir: the shares from t + 1 to 2t are compared with what the
\* first t + 1 of them give.

\* The value at a of the polynomial through the first count points.
Interpolate(ys, xs, count, a) ==
  Evaluate([x |-> SubSeq(xs, 1, count), y |-> SubSeq(ys, 1, count)], a)

InterpolateAt(a) == Interpolate(job.shares, job.alphas, job.t + 1, a)

\* Shares each call asks for; it ignores the ones beyond.
Needed == IF job.op = "detect" THEN 2 * job.t + 1 ELSE 3 * job.t + 1

TooFew ==
  /\ pc = "start" /\ job.op \in {"detect", "correct"}
  /\ Needed > Len(job.shares) \/ Needed > Len(job.alphas)
  /\ Goto("refused")
  /\ UNCHANGED << job, answer, k, x, quotient, remainder, solverVars >>

EnoughShares == Needed <= Len(job.shares) /\ Needed <= Len(job.alphas)

Detect ==
  /\ pc = "start" /\ job.op = "detect" /\ EnoughShares
  /\ Goto("compare") /\ k' = job.t + 1
  /\ UNCHANGED << job, answer, x, quotient, remainder, solverVars >>

\* Fault: the last share is not compared.
ComparedButLast == job.t + 1 .. 2 * job.t - 1

Compared == job.t + 1 .. 2 * job.t

Compare ==
  /\ pc = "compare"
  /\ \/ /\ k \in Compared /\ InterpolateAt(job.alphas[k + 1]) = job.shares[k + 1]
        /\ k' = k + 1
        /\ UNCHANGED << pc, quotient >>
     \/ /\ k \in Compared /\ InterpolateAt(job.alphas[k + 1]) # job.shares[k + 1]
        /\ Goto("thrown") /\ UNCHANGED << k, quotient >>
     \/ /\ k \notin Compared
        /\ quotient' = << InterpolateAt(job.pos) >>
        /\ Goto("returned") /\ UNCHANGED k
  /\ UNCHANGED << job, answer, x, remainder, solverVars >>

-----------------------------------------------------------------------------
\* ReconstructShamirRobust: a locator E of degree e with leading coefficient 1
\* and a polynomial Q with Q(a) = share * E(a) at every point a are the solution
\* of a linear system, tried for e = t, t - 1, ..., 0.

Errors == job.t - k

Power(a, n) == IF n = 0 THEN 1 ELSE a ^ n

SystemMatrix ==
  [i \in 1 .. Needed |->
    [j \in 1 .. Needed |->
      (IF j <= Errors THEN job.shares[i] * Power(job.alphas[i], j - 1)
                      ELSE -Power(job.alphas[i], j - 1 - Errors)) % P]]

\* Fault: the right-hand sides are not multiplied by the points.
SystemVectorUnscaled == [i \in 1 .. Needed |-> -job.shares[i] % P]

SystemVector == [i \in 1 .. Needed |-> (-job.shares[i] * Power(job.alphas[i], Errors)) % P]

BuildSystem ==
  /\ \/ pc = "start" /\ job.op = "correct" /\ EnoughShares
     \/ pc = "next"
  /\ StartReduction(CreateAugmentedMatrix(SystemMatrix, SystemVector))
  /\ Goto("reduce")
  /\ UNCHANGED << job, answer, k, x, quotient, remainder >>

Solve ==
  /\ pc = "start" /\ job.op = "solve"
  /\ StartReduction(CreateAugmentedMatrix(job.a, job.b))
  /\ Goto("reduce")
  /\ UNCHANGED << job, answer, k, x, quotient, remainder >>

Reduce ==
  /\ pc = "reduce"
  /\ SkipColumn \/ EliminateColumn
  /\ UNCHANGED << callVars, k, x, quotient, remainder >>

\* Error correction wants the only solution; a caller of HasSolution may not.
UniqueOnly == job.op = "correct" \/ job.uniqueOnly

Extract ==
  /\ pc = "reduce" /\ Reduced
  /\ job.op = "solve"
  /\ x' = IF HasSolution(aug, UniqueOnly) THEN ExtractSolution(aug) ELSE x
  /\ Goto(IF HasSolution(aug, UniqueOnly) THEN "returned" ELSE "thrown")
  /\ UNCHANGED << job, answer, k, quotient, remainder, solverVars >>

Locator(sol) == Create(Append(SubSeq(sol, 1, Errors), 1))
Numerator(sol) == Create(SubSeq(sol, Errors + 1, Len(sol)))

\* With distinct points the system of e = 0 always has a solution, so that the loop never ends
\* without one.
TryFewer ==
  /\ pc = "reduce" /\ Reduced
  /\ job.op = "correct" /\ ~HasSolution(aug, UniqueOnly)
  /\ k' = k + 1
  /\ Goto("next")
  /\ UNCHANGED << job, answer, x, quotient, remainder, solverVars >>

StartDivision ==
  /\ pc = "reduce" /\ Reduced
  /\ job.op = "correct" /\ HasSolution(aug, UniqueOnly)
  /\ x' = ExtractSolution(aug)
  /\ remainder' = Numerator(x')
  /\ Goto("divide")
  /\ UNCHANGED << job, answer, k, quotient, solverVars >>

\* Polynomial::Divide by the locator.
Divisible == ~IsZero(remainder) /\ Degree(remainder) >= Degree(Locator(x))

DivideStep ==
  /\ pc = "divide" /\ Divisible
  /\ LET d == Degree(remainder) - Degree(Locator(x))
         c == DivideLeadingTerms(remainder, Locator(x))
     IN  /\ quotient' = Add(quotient, Term(c, d))
         /\ remainder' = Subtract(remainder, TimesTerm(Locator(x), c, d))
  /\ UNCHANGED << job, answer, pc, k, x, solverVars >>

Finish ==
  /\ pc = "divide" /\ ~Divisible
  /\ Goto(IF IsZero(remainder) THEN "returned" ELSE "thrown")
  /\ UNCHANGED << job, answer, k, x, quotient, remainder, solverVars >>

ShamirNext ==
  \/ TooFew \/ Detect \/ Compare
  \/ BuildSystem \/ Solve \/ Reduce \/ Extract \/ TryFewer
  \/ StartDivision \/ DivideStep \/ Finish

-----------------------------------------------------------------------------
\* The polynomials of degree t or less, and the places, among the first n, where
\* the shares are not those of p.
PolynomialsUpTo(t) == [1 .. t + 1 -> Field]
Wrong(p, n) == { i \in 1 .. n : EvaluateAt(p, job.alphas[i]) # job.shares[i] }

\* ReconstructShamir returns the secret when the first 2t + 1 shares lie on a
\* polynomial of degree t, and throws otherwise.  Shares beyond are not looked
\* at: an error in one of them goes unnoticed.
DetectsErrors ==
  LET fitting == { p \in PolynomialsUpTo(job.t) : Wrong(p, Needed) = {} }
  IN  job.op = "detect" =>
        /\ pc = "returned" => \E p \in fitting : quotient = << EvaluateAt(p, job.pos) >>
        /\ pc = "thrown" => fitting = {}

\* ReconstructShamirRobust finds the polynomial if at most t of the first 3t + 1
\* shares are wrong, and its locator vanishes at all wrong places.  If more are,
\* it throws or returns a polynomial whose degree is too high, which the
\* overload that returns its value at 0 does not tell.
CorrectsErrors ==
  LET near == { p \in PolynomialsUpTo(job.t) : Cardinality(Wrong(p, Needed)) <= job.t }
  IN  job.op = "correct" =>
        /\ pc = "returned" =>
             \/ Degree(quotient) > job.t /\ near = {}
             \/ \E p \in near :
                  /\ quotient = Create(p)
                  /\ \A i \in Wrong(p, Needed) : EvaluateAt(Locator(x), job.alphas[i]) = 0
        /\ pc = "thrown" => near = {}

Solves(A, b, y) ==
  \A i \in DOMAIN A : (MapThenSumSet(LAMBDA j : A[i][j] * y[j], DOMAIN y) - b[i]) % P = 0
Unknowns == DOMAIN job.b
Solutions == { y \in [Unknowns -> Field] : Solves(job.a, job.b, y) }

\* The pivots are in the first columns.
PivotsFirst == \A i \in 1 .. FindFirstNonZeroRow(aug) : aug[i][i] = 1

\* A square system is solved if and only if it has a solution, or exactly one
\* when the caller asks for that, and what is extracted solves it.  With free
\* variables it does only if they are the last ones.
SolvesSystems ==
  job.op = "solve" =>
    /\ pc = "returned" =>
         /\ job.uniqueOnly => Cardinality(Solutions) = 1
         /\ Solutions # {}
         /\ PivotsFirst => x \in Solutions
    /\ pc = "thrown" =>
         IF job.uniqueOnly THEN Cardinality(Solutions) # 1 ELSE Solutions = {}
=============================================================================
