------------------------------- MODULE Sharing -------------------------------
(***************************************************************************)
(* Making Shamir shares and additive shares, and putting them together     *)
(* without looking for errors (scl/ss/shamir.h, scl/ss/additive.h).  A job *)
(* shares some secrets, one after the other, with randomness from one      *)
(* generator ("share"), or draws vectors and matrices from it ("random").  *)
(* "stream" gives the element that is read from a byte of the key stream.  *)
(***************************************************************************)
EXTENDS ShamirReconstruct, Generator, Matrices

CanonicalAlphas(n) == [i \in 1 .. n |-> i % P]

CreateShamirShares(poly, alphas) == [i \in DOMAIN alphas |-> EvaluateAt(poly, alphas[i])]

\* The secret is the constant term.
SharePolynomial(secret, drawnCoeff) == Create(<< secret >> \o Tail(drawnCoeff))

AdditiveShares(secret, drawnShares) ==
  << (secret - VecSum(Tail(drawnShares))) % P >> \o Tail(drawnShares)

\* The secret that is shared next.
Secret == job.secrets[Len(answer) + 1]

RefuseToShare ==
  /\ At("share", "start")
  /\ IF job.scheme = "shamir" THEN job.t = 0 ELSE job.n = 0
  /\ Continue("thrown")
  /\ UNCHANGED generatorVars

ShareNext(shares, randoms) ==
  /\ Len(answer) < Len(job.secrets)
  /\ answer' = Append(answer, shares)
  /\ NextBytes(Elements(randoms))
  /\ UNCHANGED << job, pc >>

ShareShamir ==
  /\ At("share", "start") /\ job.scheme = "shamir" /\ job.t > 0
  /\ ShareNext(CreateShamirShares(SharePolynomial(Secret, PartialRandom(job.stream, job.t + 1)),
                                  CanonicalAlphas(job.n)),
               job.t)

ShareAdditive ==
  /\ At("share", "start") /\ job.scheme = "additive" /\ job.n > 0
  /\ ShareNext(AdditiveShares(Secret, PartialRandom(job.stream, job.n)), job.n - 1)

\* Vectors and matrices of random elements; a vector has no rows.
DrawNext ==
  /\ At("random", "start") /\ Len(answer) < Len(job.draws)
  /\ LET d == job.draws[Len(answer) + 1]
     IN  /\ NextBytes(IF d.rows = 0 THEN Elements(d.cols) ELSE MatRandom(d.rows, d.cols))
         /\ answer' = Append(answer, d)
  /\ UNCHANGED << job, pc >>

SharingDone ==
  /\ \/ At("share", "start") /\ Len(answer) = Len(job.secrets)
     \/ At("random", "start") /\ Len(answer) = Len(job.draws)
  /\ Continue("returned")
  /\ UNCHANGED generatorVars

SharingNext == RefuseToShare \/ ShareShamir \/ ShareAdditive \/ DrawNext \/ SharingDone

-----------------------------------------------------------------------------
ReconstructShamirPassive(shares, alphas, pos, t) == Interpolate(shares, alphas, t + 1, pos)

\* The shares of some parties, with their points, in the order of the parties.
SharesOf(shares, S) ==
  LET order == SetToSortSeq(S, <)
  IN  [ys |-> [i \in DOMAIN order |-> shares[order[i]]],
       xs |-> [i \in DOMAIN order |-> CanonicalAlphas(Len(shares))[order[i]]]]

\* Any t + 1 Shamir shares give the secret back, for every secret that was
\* shared, and all additive ones do.  The randomness of one sharing is never
\* that of another, though a vector takes a block for each of its elements and a
\* matrix packs them.
SharesReconstruct ==
  /\ IsInjective(drawn)
  /\ job.op = "share" =>
       \A s \in DOMAIN answer :
         CASE job.scheme = "additive" -> VecSum(answer[s]) = job.secrets[s]
           [] job.scheme = "shamir" ->
                \A S \in kSubset(job.t + 1, 1 .. job.n) :
                  LET some == SharesOf(answer[s], S)
                  IN  ReconstructShamirPassive(some.ys, some.xs, 0, job.t) = job.secrets[s]
=============================================================================
