---------------------------- MODULE FieldSharing ----------------------------
(***************************************************************************)
(* Packed secret sharing over a prime field, as the protocols use it:      *)
(* polynomials in evaluation representation (scl/ss/evpoly.h) and the      *)
(* sharing and reconstruction of scl/ss/packed.h.  Secret i sits at the    *)
(* point -i, share i of party i at the point i + 1.  The code computes in  *)
(* the field of 2^61 - 1 elements; nothing it does depends on that but the *)
(* points being distinct, so P is a parameter.  The random values that a   *)
(* sharing of higher degree draws are an argument, `tail'.                 *)
(***************************************************************************)
EXTENDS Integers, Sequences, FiniteSetsExt

CONSTANT P  \* the order of the field

ASSUME PrimeAssumption == P \in Nat /\ P > 1 /\ \A a \in 2 .. P - 1 : P % a # 0

Field == 0 .. P - 1

\* Inverse of a field element; 0 has none and the code throws.
InverseOf == [a \in Field \ {0} |-> CHOOSE b \in Field : (a * b) % P = 1]

ModProduct(op(_), S) ==
  MapThenFoldSet(LAMBDA a, b : (a * b) % P, 1, op, LAMBDA s : CHOOSE x \in s : TRUE, S)

\* The Lagrange basis polynomial of point j of xs at the point x.
Basis(xs, j, x) ==
  ModProduct(LAMBDA m : ((x - xs[m]) * InverseOf[(xs[j] - xs[m]) % P]) % P, DOMAIN xs \ {j})

Evaluate(poly, x) ==
  MapThenSumSet(LAMBDA j : poly.y[j] * Basis(poly.x, j, x), DOMAIN poly.x) % P

\* The points 0, -1, -2, ... of the secrets.
SecretPoint(i) == (1 - i) % P

EvPolyFromSecretsAndDegree(secrets, degree, tail) ==
  [x |-> [i \in 1 .. degree + 1 |->
            IF i <= Len(secrets) THEN SecretPoint(i) ELSE (i - Len(secrets)) % P],
   y |-> secrets \o tail]

EvPolyFromSecretAndPointAndDegree(secret, point, degree, tail) ==
  [x |-> [i \in 1 .. degree + 1 |-> IF i = 1 THEN point % P ELSE (i - 1) % P],
   y |-> << secret >> \o tail]

SharesFromEvPoly(poly, n) == [i \in 1 .. n |-> Evaluate(poly, i % P)]

EvPolyFromShares(shares) == [x |-> [i \in 1 .. Len(shares) |-> i % P], y |-> shares]

SecretsFromSharesAndLength(shares, length) ==
  [i \in 1 .. length |-> Evaluate(EvPolyFromShares(shares), SecretPoint(i))]

SecretFromPointAndShares(point, shares) == Evaluate(EvPolyFromShares(shares), point % P)

\* A single secret, at 0.
EvPolyFromSecretAndDegree(secret, degree, tail) ==
  EvPolyFromSecretAndPointAndDegree(secret, 0, degree, tail)

SecretFromShares(shares) == SecretFromPointAndShares(0, shares)

\* Party p's share of the i-th of k unit vectors: 1 at the point of secret i, 0
\* at those of the others.
SharesOfEi(k, p, i) == Basis([j \in 1 .. k |-> SecretPoint(j)], i, p + 1)

-----------------------------------------------------------------------------
\* What makes shares a sharing: they lie on a polynomial of the degree, which
\* has the secrets at their points.
IsSharing(shares, secrets, degree) ==
  LET first == SubSeq(shares, 1, degree + 1)
  IN  /\ SecretsFromSharesAndLength(first, Len(secrets)) = secrets
      /\ \A i \in degree + 2 .. Len(shares) : Evaluate(EvPolyFromShares(first), i % P) = shares[i]
=============================================================================
