----------------------------- MODULE Evaluation -----------------------------
(***************************************************************************)
(* A circuit whose gates remember what they have computed: its evaluation  *)
(* in the clear (circuits/cleartext.cc) and the preprocessing that tests   *)
(* and experiments use, from masks that are all the same constant          *)
(* (circuits/offline.cc).  GetClear and GetDummyLambda compute the value   *)
(* of a gate once and keep it.  A job brings a closed circuit, and a list  *)
(* of calls; a call that throws has changed what it had come to, and the   *)
(* calls after it are made all the same.  The parties, each with a circuit *)
(* of its own, make the same calls.                                        *)
(***************************************************************************)
EXTENDS FieldSharing, SequencesExt, Calls

CONSTANT Pad  \* the gate that fills up a batch

VARIABLES
  clear,   \* mClear of the gates that are mEvaluated
  lambda,  \* mLambda of the gates with mLambdaSet
  packed,  \* the packed shares of every batch that has some, party by party
  made,    \* calls made
  stale    \* history: which of the caches a value was changed under

evaluationVars == << clear, lambda, packed, made, stale >>

EvaluationInit ==
  clear = << >> /\ lambda = << >> /\ packed = << >> /\ made = 0 /\ stale = {}

-----------------------------------------------------------------------------
\* The circuit.  "clients" and "owners" are the input and output gates of each
\* client in order; "batches" has, by kind, the batches of all layers.

Gates == DOMAIN job.gates
OfKind(kind) == { g \in Gates : job.gates[g].kind = kind }
Parents(g) ==
  CASE job.gates[g].kind \in {"add", "mult"} -> { job.gates[g].left, job.gates[g].right }
    [] job.gates[g].kind = "output" -> { job.gates[g].left }
    [] OTHER -> {}
Left(g) == IF g = Pad THEN Pad ELSE job.gates[g].left
Right(g) == IF g = Pad THEN Pad ELSE job.gates[g].right

Missing == -1
Both(a, b, c) == IF Missing \in {a, b} THEN Missing ELSE c % P

\* What each gate gives if it is asked: what it remembers, or what its parents
\* give; an input gate that remembers nothing throws.
Recall(cache, product(_, _)) ==
  LET v[g \in Gates] ==
        LET gate == job.gates[g]
            computed ==
              CASE gate.kind = "input"  -> Missing
                [] gate.kind = "output" -> v[gate.left]
                [] gate.kind = "add"    -> Both(v[gate.left], v[gate.right], v[gate.left] + v[gate.right])
                [] gate.kind = "mult"   -> product(v[gate.left], v[gate.right])
        IN  IF g \in DOMAIN cache THEN cache[g] ELSE computed
  IN  v

\* Fault: a multiplication gives what an addition does.
ClearOfSums(cache) == Recall(cache, LAMBDA a, b : Both(a, b, a + b))

ClearOf(cache) == Recall(cache, LAMBDA a, b : Both(a, b, a * b))

\* The mask of a product is set, or throws.
LambdaOf(cache) == Recall(cache, LAMBDA a, b : Missing)

\* The gates that are asked when those of a set are: it goes no further than a
\* gate that remembers.
Asked(cache, roots) ==
  LET asked[g \in Gates] ==
        \/ g \in roots
        \/ \E h \in Gates : h > g /\ g \in Parents(h) /\ h \notin DOMAIN cache /\ asked[h]
  IN  { g \in Gates : asked[g] }

Remember(cache, v, roots) == cache @@ [g \in { h \in Asked(cache, roots) : v[h] # Missing } |-> v[g]]

Call == job.calls[made + 1]
CallIs(f) == At("evaluate", "start") /\ made < Len(job.calls) /\ Call.f = f
Outcome(how, values) ==
  /\ answer' = Append(answer, [how |-> how, values |-> values])
  /\ made' = made + 1
  /\ UNCHANGED << job, pc >>
Done == Outcome("done", << >>)
Thrown == Outcome("thrown", << >>)

-----------------------------------------------------------------------------
\* Evaluation in the clear.

\* ClearInput, of some gates.
Overwritten(cache, new) == \E g \in DOMAIN new : g \in DOMAIN cache /\ cache[g] # new[g]
ClearInputs(new) ==
  /\ clear' = new @@ clear
  /\ stale' = IF Overwritten(clear, new) /\ DOMAIN clear \ OfKind("input") # {}
                THEN stale \cup {"clear"} ELSE stale
  /\ UNCHANGED << lambda, packed >>

Assign(ids, values) == [g \in ToSet(ids) |-> values[CHOOSE i \in DOMAIN ids : ids[i] = g]]

\* The gates of the clients before the first for whom the number of values is
\* wrong, or of all.
SetClearInputs ==
  /\ CallIs("inputs")
  /\ LET values == Call.perClient
         wrong == { i \in DOMAIN job.clients : Len(values[i]) # Len(job.clients[i]) }
         upTo == IF wrong = {} THEN Len(job.clients) ELSE Min(wrong) - 1
     IN  IF Len(values) # Len(job.clients)
           THEN Thrown /\ UNCHANGED << clear, lambda, packed, stale >>
           ELSE /\ LET ids == FlattenSeq(SubSeq(job.clients, 1, upTo))
                       vals == FlattenSeq(SubSeq(values, 1, upTo))
                   IN  ClearInputs(Assign(ids, vals))
                /\ IF wrong = {} THEN Done ELSE Thrown

\* The values of all clients on end; those that are too many are not looked at,
\* and too few are read beyond their end.
SetClearInputsFlat ==
  /\ CallIs("inputsFlat")
  /\ LET ids == FlattenSeq(job.clients)
     IN  IF Len(Call.values) < Len(ids)
           THEN Continue("undefined") /\ UNCHANGED evaluationVars
           ELSE /\ ClearInputs(Assign(ids, Call.values))
                /\ Done

\* GetClearOutputs goes through the outputs by their owners, GetClearOutputsFlat
\* as they were made.
OutputsInOrder == IF Call.flat THEN SetToSortSeq(OfKind("output"), <) ELSE FlattenSeq(job.owners)

GetClearOutputs ==
  /\ CallIs("outputs")
  /\ LET v == ClearOf(clear)
         outs == OutputsInOrder
         failing == { i \in DOMAIN outs : v[outs[i]] = Missing }
     IN  /\ failing = {}
         /\ clear' = Remember(clear, v, ToSet(outs))
         /\ Outcome("outputs", [g \in ToSet(outs) |-> v[g]])
  /\ UNCHANGED << lambda, packed, stale >>

\* An input is missing.  The outputs before the one that needs it are computed;
\* of that one, in which order operands are evaluated is not specified, and any
\* part that can be computed, with what it needs, may have been.
GetClearOutputsThrows ==
  /\ CallIs("outputs")
  /\ LET v == ClearOf(clear)
         outs == OutputsInOrder
         failing == { i \in DOMAIN outs : v[outs[i]] = Missing }
     IN  /\ failing # {}
         /\ LET first == Min(failing)
                before == Remember(clear, v, { outs[i] : i \in 1 .. first - 1 })
                computable == { g \in Asked(before, {outs[first]}) : v[g] # Missing }
            IN  \E part \in SUBSET (computable \ DOMAIN before) :
                  /\ \A g \in part : Parents(g) \subseteq part \cup DOMAIN before
                  /\ clear' = before @@ [g \in part |-> v[g]]
  /\ Thrown
  /\ UNCHANGED << lambda, packed, stale >>

-----------------------------------------------------------------------------
\* Dummy preprocessing.

\* SetLambda of the input gates and SetDummyLambda of the multiplications.
LambdasSet(l) == [g \in OfKind("input") \cup OfKind("mult") |-> l]
SetLambdas(l) ==
  stale' = IF Overwritten(lambda, LambdasSet(l)) /\ DOMAIN lambda # DOMAIN LambdasSet(l)
             THEN stale \cup {"lambda"} ELSE stale

SetDummyLambdas ==
  /\ CallIs("lambdas")
  /\ lambda' = LambdasSet(Call.lambda) @@ lambda
  /\ SetLambdas(Call.lambda)
  /\ Done
  /\ UNCHANGED << clear, packed >>

\* Throws at once if the masks of the inputs and multiplications are not set.
PopulateDummyLambdas ==
  /\ CallIs("populate")
  /\ IF lambda = << >> THEN lambda' = lambda /\ Thrown
     ELSE /\ lambda' = Remember(lambda, LambdaOf(lambda), OfKind("add") \cup OfKind("output"))
          /\ Done
  /\ UNCHANGED << clear, packed, stale >>

\* The masks of a batch; GetDummyLambda of a padding gate is 0.
Masks(cache, batch, of(_)) ==
  [s \in DOMAIN batch |-> IF of(batch[s]) = Pad THEN 0 ELSE LambdaOf(cache)[of(batch[s])]]
Itself(g) == g

SharesOfMasks(masks) ==
  SharesFromEvPoly(EvPolyFromSecretsAndDegree(masks, Len(masks) - 1, << >>), job.n)

\* Fault: the mask of the product is left out.
WithoutC(A, B, C) == [p \in 1 .. job.n |-> (A[p] * B[p]) % P]

Delta(A, B, C) == [p \in 1 .. job.n |-> (A[p] * B[p] - C[p]) % P]

IsMult(b) == job.batches[b].kind = "mult"

\* Circuit::_DummyPrep(lambda).  Asking the parents of the multiplications fills
\* in the additions that no output needs.
DummyPrep ==
  /\ CallIs("prep")
  /\ SetLambdas(Call.lambda)
  /\ LET set == LambdasSet(Call.lambda) @@ lambda
         asked == OfKind("output") \cup UNION { Parents(g) : g \in OfKind("mult") }
     IN  /\ lambda' = Remember(set, LambdaOf(set), asked)
         /\ packed' =
              [b \in DOMAIN job.batches |->
                 LET gs == job.batches[b].gates
                     own == SharesOfMasks(Masks(set, gs, Itself))
                     A == SharesOfMasks(Masks(set, gs, Left))
                     B == SharesOfMasks(Masks(set, gs, Right))
                 IN  IF IsMult(b) THEN [A |-> A, B |-> B, D |-> Delta(A, B, own)] ELSE [A |-> own]]
  /\ Done
  /\ UNCHANGED clear

\* Circuit::PrepFromDummyLambdas.  Without masks it throws at the first gate, which
\* is in the first batch of the circuits of the jobs.  For a multiplication the difference is shared
\* itself, and party mID, counting from 0, has the value at the point mID.
SharesFromZero(masks) ==
  LET poly == EvPolyFromSecretsAndDegree(masks, Len(masks) - 1, << >>)
  IN  [p \in 1 .. job.n |-> Evaluate(poly, p - 1)]

PrepFromDummyLambdas ==
  /\ CallIs("fromLambdas")
  /\ IF lambda = << >> THEN UNCHANGED << lambda, packed >> /\ Thrown
     ELSE /\ lambda' = Remember(lambda, LambdaOf(lambda),
                                OfKind("output") \cup UNION { Parents(g) : g \in OfKind("mult") })
          /\ packed' =
               [b \in DOMAIN job.batches |->
                  LET gs == job.batches[b].gates
                      own == Masks(lambda, gs, Itself)
                      A == Masks(lambda, gs, Left)
                      B == Masks(lambda, gs, Right)
                  IN  IF IsMult(b)
                        THEN [A |-> SharesFromZero(A), B |-> SharesFromZero(B),
                              D |-> SharesFromZero([s \in DOMAIN gs |-> (A[s] * B[s] - own[s]) % P])]
                        ELSE [A |-> SharesOfMasks(own)]]
          /\ Done
  /\ UNCHANGED << clear, stale >>

CallsDone ==
  /\ At("evaluate", "start") /\ made = Len(job.calls)
  /\ Continue("returned")
  /\ UNCHANGED evaluationVars

EvaluationNext ==
  \/ SetClearInputs \/ SetClearInputsFlat \/ GetClearOutputs \/ GetClearOutputsThrows
  \/ SetDummyLambdas \/ PopulateDummyLambdas \/ DummyPrep \/ PrepFromDummyLambdas
  \/ CallsDone

-----------------------------------------------------------------------------
\* The circuit as a function of the inputs that are set, no gate remembering
\* anything; what depends on an input that is not set does not matter.
Fresh ==
  LET v[g \in Gates] ==
        CASE job.gates[g].kind = "input"  -> IF g \in DOMAIN clear THEN clear[g] ELSE 0
          [] job.gates[g].kind = "output" -> v[Left(g)]
          [] job.gates[g].kind = "add"    -> (v[Left(g)] + v[Right(g)]) % P
          [] job.gates[g].kind = "mult"   -> (v[Left(g)] * v[Right(g)]) % P
  IN  v

Results == { answer[i].values : i \in { j \in DOMAIN answer : answer[j].how = "outputs" } }

\* Whatever order calls come in, and whichever of them throw on the way, a gate
\* remembers the value the circuit has on the inputs, unless an input was
\* replaced after a gate had been evaluated; even then both ways to ask for the
\* outputs give the same, and for ever what the first one gave.
ClearIsConsistent ==
  job.op = "evaluate" =>
    /\ "clear" \notin stale =>
         /\ \A g \in DOMAIN clear : clear[g] = Fresh[g]
         /\ \A r \in Results : \A g \in DOMAIN r : r[g] = Fresh[g]
    /\ Cardinality(Results) <= 1

\* The mask of a gate of each place of a batch, as the gates remember it.
MasksNow(b, of(_)) ==
  LET gs == job.batches[b].gates
  IN  [s \in DOMAIN gs |-> IF gs[s] = Pad THEN 0 ELSE lambda[of(gs[s])]]

LastPrep ==
  LET preps == { j \in 1 .. made : job.calls[j].f \in {"prep", "fromLambdas"} /\ answer[j].how = "done" }
  IN  job.calls[Max(preps)].f

\* After preprocessing, masks add up along the circuit, the shares of a batch are
\* a sharing of degree k - 1 of the masks of its gates, and the third share of a
\* multiplication is of what is missing from the product of its factors' masks to
\* its own.  This holds as long as masks are not set anew.  PrepFromDummyLambdas
\* puts the shares of multiplications one point too low: the first party has
\* the first mask itself, the others a sharing without a last share.
DummyPrepShares ==
  job.op = "evaluate" /\ "lambda" \notin stale =>
    /\ \A g \in DOMAIN lambda :
         /\ job.gates[g].kind = "add" =>
              lambda[g] = (lambda[job.gates[g].left] + lambda[job.gates[g].right]) % P
         /\ job.gates[g].kind = "output" => lambda[g] = lambda[job.gates[g].left]
    /\ \A b \in DOMAIN packed :
         LET k == Len(job.batches[b].gates)
             own == MasksNow(b, Itself)
             A == MasksNow(b, Left)
             B == MasksNow(b, Right)
             D == [s \in 1 .. k |-> (A[s] * B[s] - own[s]) % P]
             OneTooLow(shares, masks) ==
               shares[1] = masks[1] /\ IsSharing(Tail(shares), masks, k - 1)
         IN  CASE ~IsMult(b) -> IsSharing(packed[b].A, own, k - 1)
               [] IsMult(b) /\ LastPrep = "prep" ->
                    /\ IsSharing(packed[b].A, A, k - 1) /\ IsSharing(packed[b].B, B, k - 1)
                    /\ IsSharing(packed[b].D, D, 2 * (k - 1))
               [] IsMult(b) /\ LastPrep = "fromLambdas" ->
                    /\ OneTooLow(packed[b].A, A) /\ OneTooLow(packed[b].B, B)
                    /\ OneTooLow(packed[b].D, D)
=============================================================================
