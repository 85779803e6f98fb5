------------------------------- MODULE Numbers -------------------------------
(***************************************************************************)
(* Arithmetic as it is done on machine words: the fields of 2^e - 1        *)
(* elements (scl/math/fields) and the rings of 2^K elements (scl/math/z2k).*)
(* The code has e = 61 in words of 64 bits, e = 127 in words of 128, and K *)
(* bits in the next larger of these; here a job brings e, K and the width  *)
(* W of a word, and the operands.  A remainder of 2^W is what a word       *)
(* keeps, one of 2^K what the mask does, for K < W.                        *)
(***************************************************************************)
EXTENDS Integers, Calls

VARIABLES
  euclid,  \* k, new_k, r and new_r of InverseModPrimeSimpleType
  newton   \* z and bits of InvertZ2k

numberVars == << euclid, newton >>

NumbersInit ==
  /\ euclid = [k |-> 0, newK |-> 1, r |-> 0, newR |-> 0]
  /\ newton = [z |-> 0, bits |-> 5]

Prime(e) == 2 ^ e - 1

AddModulo(t, v, m) == IF t + v >= m THEN t + v - m ELSE t + v
SubtractModulo(t, v, m) == IF v > t THEN t + m - v ELSE t - v
NegateModulo(t, m) == IF t # 0 THEN m - t ELSE t
FromInt(v, m) == IF v < 0 THEN v + m ELSE v

\* The bits of a product from e on count as much as those before.
Multiply61(t, v, e) == AddModulo((t * v) \div 2 ^ e, (t * v) % 2 ^ e, Prime(e))

\* The product of two words, from the four products of their halves.
MultiplyFull(x, y, half) ==
  LET a == x \div half  b == x % half
      c == y \div half  d == y % half
      carry == ((a * d) % half) + ((b * c) % half) + ((b * d) \div half)
  IN  [high |-> a * c + ((a * d) \div half) + ((b * c) \div half) + (carry \div half),
       low  |-> (a * d * half + b * c * half + b * d) % (half * half)]

Multiply127(t, v, e) ==
  LET half == 2 ^ ((e + 1) \div 2)
      z == MultiplyFull(t, v, half)
  IN  AddModulo(((z.high * 2) % (half * half)) + (z.low \div 2 ^ e), z.low % 2 ^ e, Prime(e))

FieldResult ==
  LET m == Prime(job.e)
  IN  CASE job.f = "add"         -> AddModulo(job.a, job.b, m)
        [] job.f = "subtract"    -> SubtractModulo(job.a, job.b, m)
        [] job.f = "negate"      -> NegateModulo(job.a, m)
        [] job.f = "multiply61"  -> Multiply61(job.a, job.b, job.e)
        [] job.f = "multiply127" -> Multiply127(job.a, job.b, job.e)
        [] job.f = "fromInt"     -> FromInt(job.a, m)
        [] job.f = "fromBytes"   -> job.a % m

\* Normalisation is put off: words keep what is beyond K bits.
RingResult ==
  CASE job.f = "add"      -> (job.a + job.b) % 2 ^ job.W
    [] job.f = "subtract" -> (job.a - job.b) % 2 ^ job.W
    [] job.f = "multiply" -> (job.a * job.b) % 2 ^ job.W
    [] job.f = "negate"   -> -job.a % 2 ^ job.W
    [] job.f = "read"     -> job.a % 2 ^ job.K

\* EqualZ2k, and what WriteZ2k writes.
WrittenZ2k(v) == v % 2 ^ job.K
EqualZ2k(a, b) == WrittenZ2k(a) = WrittenZ2k(b)

FieldOperation ==
  /\ At("field", "start")
  /\ Return(FieldResult)
  /\ UNCHANGED numberVars

RingOperation ==
  /\ At("ring", "start")
  /\ Return(RingResult)
  /\ UNCHANGED numberVars

-----------------------------------------------------------------------------
\* InverseModPrimeSimpleType.  A division goes on to multiply by the inverse.

StartEuclid ==
  /\ At("invertField", "start")
  /\ IF job.a = 0
       THEN Continue("thrown") /\ UNCHANGED numberVars
       ELSE /\ Continue("euclid")
            /\ euclid' = [k |-> 0, newK |-> 1, r |-> Prime(job.e), newR |-> job.a]
            /\ UNCHANGED newton

EuclidStep ==
  /\ At("invertField", "euclid") /\ euclid.newR # 0
  /\ LET q == euclid.r \div euclid.newR
     IN  euclid' = [k |-> euclid.newK, newK |-> euclid.k - q * euclid.newK,
                    r |-> euclid.newR, newR |-> euclid.r - q * euclid.newR]
  /\ Continue("euclid")
  /\ UNCHANGED newton

\* Fault: a negative k is returned.
AsItIs(k, m) == k

MadePositive(k, m) == IF k < 0 THEN k + m ELSE k

EuclidEnd ==
  /\ At("invertField", "euclid") /\ euclid.newR = 0
  /\ LET inverse == MadePositive(euclid.k, Prime(job.e))
     IN  Return(IF job.f = "divide" THEN Multiply61(job.b, inverse, job.e) ELSE inverse)
  /\ UNCHANGED numberVars

\* InvertZ2k: the inverse is known in 5 bits, and in twice as many after a pass.

FlipSecondBit(w) == IF (w \div 2) % 2 = 1 THEN w - 2 ELSE w + 2

StartNewton ==
  /\ At("invertRing", "start")
  /\ IF job.a % 2 = 0
       THEN Continue("thrown") /\ UNCHANGED numberVars
       ELSE /\ Continue("newton")
            /\ newton' = [z |-> FlipSecondBit((job.a * 3) % 2 ^ job.W), bits |-> 5]
            /\ UNCHANGED euclid

NewtonStep ==
  /\ At("invertRing", "newton") /\ newton.bits <= job.K
  /\ newton' = [z |-> (newton.z * ((2 - job.a * newton.z) % 2 ^ job.W)) % 2 ^ job.W, bits |-> 2 * newton.bits]
  /\ Continue("newton")
  /\ UNCHANGED euclid

NewtonEnd ==
  /\ At("invertRing", "newton") /\ newton.bits > job.K
  /\ Return(IF job.f = "divide" THEN (job.b * newton.z) % 2 ^ job.W ELSE newton.z)
  /\ UNCHANGED numberVars

NumbersNext ==
  \/ FieldOperation \/ RingOperation
  \/ StartEuclid \/ EuclidStep \/ EuclidEnd
  \/ StartNewton \/ NewtonStep \/ NewtonEnd

-----------------------------------------------------------------------------
\* What the operations are to compute, in the integers.
Integer ==
  CASE job.f = "add"      -> job.a + job.b
    [] job.f = "subtract" -> job.a - job.b
    [] job.f = "negate"   -> -job.a
    [] job.f \in {"multiply", "multiply61", "multiply127"} -> job.a * job.b
    [] OTHER -> job.a

Dividend == IF job.f = "divide" THEN job.b ELSE 1

\* Results are those of the integers modulo 2^e - 1, and reduced, or modulo 2^K
\* once they are written, whatever the operands hold beyond K bits.  Inverses
\* are inverses and quotients quotients, they are refused for exactly the elements without one, and
\* Euclid's coefficients fit in the signed type of the width of a word.
NumbersAgree ==
  /\ job.op = "field" /\ pc = "returned" => answer = Integer % Prime(job.e)
  /\ job.op = "ring" /\ pc = "returned" => EqualZ2k(answer, Integer)
  /\ job.op = "invertField" =>
       /\ { euclid.k, euclid.newK } \subseteq -Prime(job.e) .. Prime(job.e)
       /\ pc = "returned" => answer \in 0 .. Prime(job.e) - 1
                             /\ (answer * job.a) % Prime(job.e) = Dividend
       /\ pc = "thrown" => job.a = 0
  /\ job.op = "invertRing" =>
       /\ pc = "returned" => EqualZ2k(answer * job.a, Dividend)
       /\ pc = "thrown" => job.a % 2 = 0
=============================================================================
