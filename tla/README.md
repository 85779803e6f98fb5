# TurboPack in TLA+

Models, model-checking runs and machine-checked proofs for the program in
`src/`: the multi-party computation protocol TurboPack (`src/src/tp`), the
baseline protocol DN07 next to it, and the library both stand on
(`src/secure-computation-library`, "SCL").

## 1. The system

n parties hold shares of values of a prime field and evaluate a circuit of
additions and multiplications. Multiplications of a layer are *packed*: k of
them (the batch size) share one set of shares. Party 0 ("P1") learns, for every
wire, mu = value - lambda; lambda is random and known to nobody but the owner
of an input or an output. t parties may pool what they know, and
n = t + 2(k-1) + 1.

| component | state | operations | talks to |
|---|---|---|---|
| circuit builder (`circuits.h`, `circuits/building.cc`, `*_gate.h`) | flat lists and batched layers of gates, width, two flags | Input, Output, Add, Mult, NewLayer, LastLayer, CloseInputs, CloseOutputs, SetNetwork | callers; everything below reads both lists |
| synthetic circuits (`circuits/generic.cc`) | loop counters | FromConfig | the builder |
| gates (`gate.h`, `*_gate.h`) | mu, lambda, shares and clear value of a wire, each with a flag that says it is there | GetMu, GetClear, GetDummyLambda, GetIndvShrLambda, GetDn07Share (memoised) | their parents |
| online protocol (`circuits/online.cc`, `mult_gate.cc`) | mu, shares of mu, outputs | RunInput, RunMult, RunOutput | the other parties, through the network |
| correlator (`correlator.*`, `fi_prep.cc`, `circuits/offline.cc`) | individual shares, triples, zero shares, counters, maps from gates and batches to them | GenIndShrs, GenUnpackedShr, GenZero, GenZeroForProd, GenProd, Populate*, Prep* | the other parties; the batches |
| DN07 (`dn07.*`) | shares of the wires, double sharings | the baseline protocol, layer by layer | the other parties; the circuit |
| packed secret sharing (SCL `ss/packed.h`, `ss/evpoly.h`) | none | share, reconstruct | the field |
| network (SCL `net/`) | channels, queues, sockets, a sender thread | Send, Recv, Close, Create, CreateThreadedSenders | the operating system |
| discovery and configuration (SCL `net/discovery`, `net/config`) | table of hosts and ports | server and client state machines, parsing | the network |
| other SCL mathematics (fields, rings, Shamir and additive sharing, polynomials, linear systems, matrices) | none | pure functions | |
| hash, generator (SCL `hash.h`, `prg.cc`) | bytes that wait for a word; a counter | Update, Finalize; Next | whoever draws randomness |
| typed messages (SCL `net/channel.h`) | none | Send and Recv of elements, vectors, matrices | the bytes of a channel |

What is hard here. *Interleaving*: every party runs the same straight line of
sends and receives on its own, up to a layer apart from the others, and messages
carry no label; the experiments even send and receive from two threads.
*Blocking*: whole phases send before they receive, so what the connections hold
decides whether anybody gets stuck. *Two views*: the circuit keeps its gates in
flat lists and in batches, and the phases mix the two. *Order of calls*: nothing
but one flag checks it. *Counting*: degrees, blocks of t+1, the last, partly
padded batch, randomness that is consumed by a counter. *Stale values*: what a
gate has computed once it never computes again.

What makes each part correct is stated with the modules below; `PROJECT.json`
lists every hazard at its line with the properties that would catch it.

## 2. Modules

| module | models | state and actions |
|---|---|---|
| `BatchedLayer` | the list of batches of `InputLayer`, `OutputLayer`, `MultLayer` | operators: `LayerAppend`, `LayerClose`, and what `Shaped`, `OpenFor`, `ClosedFor` mean |
| `CircuitBuilder` | class `Circuit` as it is assembled | one action per public call; `Disciplined` chooses between the documented order of calls and any order |
| `SyntheticCircuit` | what `FromConfig` builds, in closed form | operators |
| `FromConfig` | `Circuit::FromConfig` | the loops of the code, one builder call a step; remainders by zero and indexes out of range lead to `pc = "undefined"` |
| `FieldSharing` | the field and `ss/packed.h`, `ss/evpoly.h` | operators over a prime `P` |
| `Channels` | the network as a protocol sees it | `chan[p][q]`, `Send` that waits for room, `Receive` that waits for a message |
| `IdealEvaluation` | abstract specification: the owners obtain the values in the clear | `Deliver` |
| `Online` | `RunProtocol` of all parties | one action per kind of send or receive; `Program` is the order the loops make of them |
| `FDPrep` | `circuits/offline.cc` and `correlator.cc`, from `MapCorrToCircuit` on | as `Online`: a program of sends and receives for each party, one action per kind |
| `FIPrep` | the eleven functions of `fi_prep.cc` | each party's two threads (`sent`, `received` count finished functions), then the two phases of products; one action per function, block by block |
| `DN07` | the baseline in the order of `experiments/dn07.cc` with its threads (`THREAD`): a program of phases; in the preparation, and twice in every layer of multiplications, a started thread sends while the main one receives | `phase` and, for each thread, `at`; one action per kind of send or receive, by the thread that does it, and `Join` |
| `ByteStream` | abstract specification: what comes out is a prefix of what went in | `Send`, `Receive` |
| `NumberedBytes` | what goes into a channel: bytes numbered in the order they are sent | `nSent`; extended by the three modules around it |
| `MemChannel` | one direction of an `InMemoryChannel` | one action per section under the mutex of the `SharedDeque`, by the sending and the receiving thread |
| `ThreadedSender` | `ThreadedSenderChannel` over `TcpChannel` | the owner (send, close, destroy), the sender thread, the reading peer |
| `NetworkConfig` | `Party`, `NetworkConfig`, its checks | operators |
| `Discovery` | the discovery server and its clients; or `Load` of a file by everyone | accept, collect, send; connect, send, receive; load |
| `NetworkSetup` | `Network::Create` and `CreateThreadedSenders`; extends `Discovery`, whose configurations it starts from | the server thread and the main thread of every process |
| `Calls` | code that runs in one thread, from a call to its return | `job` is the call, `pc` where it is, `answer` what it returns; the modules below extend it |
| `LinearSystem` | `math/la.h` on square systems | `SkipColumn`, `EliminateColumn`: the loop of the row reduction; what is read off the result as operators |
| `ShamirReconstruct` | `ReconstructShamir`, `ReconstructShamirRobust` (`ss/shamir.h`), the polynomials of `ss/poly.h`; extends `LinearSystem` | one action per pass of a loop |
| `Generator` | `PRG` (`prg.cc`) and how elements are read from it | the counter, and as history the bytes of the key stream that were given out |
| `Sharing` | making Shamir and additive shares, passive reconstruction | one secret, or one vector or matrix of random elements, a step |
| `Matrices` | `math/vec.h`, `math/mat.h` | one operation a job; entries in one sequence as in the code |
| `Numbers` | arithmetic on words: `math/fields`, `math/z2k` | one operation a step; Euclid's algorithm and Newton's iteration pass by pass |
| `HashBuffer` | `Hash::Update` and `Finalize` (`hash.h`) | one call a step; the permutation is left abstract |
| `Messages` | the typed messages of `net/channel.h` over a stream of bytes | the sender message by message, the receiver sizes first and then content |
| `Evaluation` | `circuits/cleartext.cc`, the dummy preprocessing of `circuits/offline.cc`, and the caches of the gates | one action per public call, with what it has changed when it throws |
| `Sequential` | these side by side | each initial state is a job, the module that knows it runs it |
| `MC*` | instances for TLC; the channels need none, their `.cfg` gives all the values | circuits, configurations, scenarios |
| `StreamLemmas` | induction for a set of numbers; sequences put end to end; messages and tags; parties that run programs, and what these send and receive; division and parts of sequences | lemmas |
| `*Proofs` | theorems, proved by TLAPS | |

How they fit together: `FIPrep` makes the random shares `FDPrep` starts from,
`FDPrep` the packed shares and masks `Online` starts from. Each module states what
it hands on as an invariant (`TriplesMultiply`, `SharesConsistent`;
`PrepIsSharing`, `OwnersLearnMasks`), and the next one takes
any values of that form; the modules are not composed into one specification,
whose state space would be the product of theirs. `Online`, `FDPrep`, `FIPrep` and
`DN07` all extend `Channels`, an ordered reliable connection with room for
`Capacity` messages, and what implements it is modelled in `MemChannel` and
`ThreadedSender`. `Online` and `DN07` implement the same `IdealEvaluation`.

A gate is identified by the order of its creation; the shared pointers of the
code become those numbers, the flat lists sequences of them. All padding gates
are the one model value `Pad`: they differ in nothing the code looks at.

Two variables of `CircuitBuilder`, `inputsDone` and `layersDone`, are not in the
code. They record calls the code does not remember, so that the order the
comments ask for can be said.

`Online` takes the outcome of the preprocessing as given: `prep` is any packed
sharing of the right values in the right degrees, with the random values of the
sharings chosen by the instance. The tag on a message exists for the property
`ReceivesItsOwn`; no action reads it.

Definitions called *faults* in the comments (`HasRoomTight`, `RecvFresh`, ...)
are not part of any specification. Each is a plausible mistake in the definition
it stands next to; with it in place of that definition the named property of the
run fails, which shows that the property depends on the code being as it is.

## 3. Runs

| run | instance | what it shows |
|---|---|---|
| `builder` | 2 clients, k = 3; `FromConfig` with every configuration of 0..2 inputs and outputs each, width 0..4, depth 0..3; another caller in the documented order, 4 gates, 3 layers | `FromConfig` throws, is undefined for an empty circuit, or builds the closed form, in which the parents of a multiplication are in earlier layers, and always returns; whoever calls, both views agree, no batch overflows, every gate is in exactly one batch of its owner |
| `online` | n = 5, k = 3, P = 11, 2 batches in a layer, padding, connections of 2 messages | every receive takes the message sent for it although messages carry no label, and none is left; mu is value - lambda and never changes; no deadlock; the outputs are right and all arrive |
| `fdprep` | n = 4, k = 2, P = 7, 2 layers, 3 batches, a sum, padding, connections of 1 to 4 | packed shares and masks are what `Online` assumes; every receive takes its own message; parties get stuck exactly when the connections are too small for the circuit |
| `fiprep` | n = 4, t = 1, k = 2, P = 7, 3 individual shares, 2 + 1 batches, connections of 6 | the blocks suffice, individual shares are consistent, zero shares share zero, A * B = C in every slot, with the two threads of every party interleaved in every way |
| `fiprep_reuse` | the same | finding: zero shares are handed out twice |
| `dn07` | n = 5, t = 2, P = 7, 2 layers, the second owner among the idle parties, connections of 2, the two threads of each party (those of each layer included) interleaved in every way | every receive takes its own messages, and none is left; every wire is shared in degree t by all parties, those that stay idle included; the outputs are right and all arrive |
| `dn07_spare` | n = 4, t = 1 | finding: with a party between the first t + 1 and the last t an output is wrong |
| `mem_channel` | calls of 0, 1, 3 bytes sent, 0, 1, 2, 4 received, 5 bytes, 3 buffers | a stream of bytes; no wakeup is lost; `Flush` never waits |
| `threaded_sender` | calls of 1 and 3 bytes, 5 bytes, a socket with room for 2, up to 2 calls of `Close` | nothing is lost while the channel is open, a prefix arrives when it is closed, the byte that wakes the thread is never written, `Close` returns |
| `network` | a server with id 1 and 3 clients on 3 machines, ids 0..4; or four files, their lines in the order of the ids or not | all get the same configuration; what duplicates are noticed; every channel leads to its party; everybody ends, and with right ids and hostnames everybody gets a network |
| `sequential` | P = 7; see the bounds below | ten properties, one for each kind of job: `DetectsErrors`, `CorrectsErrors` (the polynomial and the places of up to t errors, and what happens beyond), `SolvesSystems`, `SharesReconstruct`, `MatricesAgree`, `NumbersAgree`, `WordsInPlace`, `MessagesArrive`, `ClearIsConsistent`, `DummyPrepShares` |
| `hash_stream` | the jobs of the hash among them | finding: what is absorbed is not the message |

Bounds. With k = 3 three gates fill a batch and the fourth opens one that is
padded: of inputs in a circuit of four gates, of multiplications in `FromConfig`'s
layers of four, which another caller, who first needs an input, does not reach.
Sharing over a field needs n + k distinct points, hence 7 for
n = 4 and 11 for n = 5 (DN07 shares one secret: 7). Scenarios (inputs, masks, and
what the parties draw) are a few polynomial spreads over the field and the
all-zero one. The arithmetic of a scenario is fixed, its interleavings are all
explored; that the arithmetic is right for all values is not shown, but a
sharing of a wrong degree, or a wrong point, does not survive a spread by chance
in every slot. The channel runs let calls begin and end inside, at and beyond
the ends of buffers. `ThreadedSender` has room for less than a buffer, so that
writes are partial and wait; calls of no bytes, of which there is no end, are only in
the proof. Three clients are the fewest for which the
acceptance order differs from that of the ids in more than a swap; in `network`
an id of 4 stands for all that are too large, and the client with the greatest id
is fixed, the others being alike or covered by the order of connecting. The files
have right lines in three orders, and an order in which two parties of one machine
exchange their ports.

`sequential` takes all vectors of 4 shares for t = 1, 0 to 3 errors in 7 shares for
t = 2, systems of 2 and 3 unknowns; three secrets shared one after the other by up
to 5 parties, with blocks of 2 bytes and elements of 1, so that a block is used in
part, and up to three draws of vectors and matrices; matrices of up to 3 rows or
columns, so that no shape is its own transpose by accident; all pairs of elements
of the fields of 7 and 31, that is e = 3 and e = 5, small primes of the form of 2^61 - 1
and 2^127 - 1, and rings of 2^3 to 2^10 elements in words that are wider, for which
an inverse takes no pass, one, and two; a message of ten different bytes cut into
four calls in every way, with words of 3 bytes and blocks of 2 words, so that calls
end inside and at the end of a word and of a block; up to three messages, the limit
at 5 elements and sizes modulo 16, so that some pass the limit and some wrap; and on
a circuit of two clients, an addition that feeds two multiplications and padded
batches of all kinds, all sequences of four calls of the evaluation in the clear and
of three calls of the dummy preprocessing. One state space holds all of this
because jobs do not meet; the properties of a job do not look at another's state.

Fairness. A party is a process of its own that only its channels can stop, so an
enabled step is eventually taken: `WF(SomeStep)` in `Online`, likewise in `DN07`,
and `WF(FCNext)` for `FromConfig`, a sequential function. Weak fairness of the
disjunction is enough, since every program is finite and no step is ever undone.
In `MemChannel` a signal that is due is given and a reader that can go on does; a
wait is not assumed to end by itself, and nobody is assumed to call `Send` or
`Recv`. In `ThreadedSender` the thread runs, a `Close` that was begun goes on, and
the peer reads; nothing makes the owner close. In `NetworkSetup` every process and
its server thread run; `connect` is called again and again (`ConnectAsClient`
loops), so a party that can be reached is. `FDPrep`, `FIPrep` and
`Sequential` have no liveness property: every step brings a party, or the
call, nearer to the end of a finite
program, so a run ends, and where it ends is an invariant.

`online`, `fiprep`, `dn07`, `network` and `sequential` are checked for deadlock: a
finished run stutters through an explicit disjunct, any other state without a step
is an error (in `network` a process that waits in `accept` or tries to connect again
stutters too: with wrong hostnames it may do so for ever, and that it does not with
right ones is `EveryoneGetsANetwork`). What becomes of a connection to a wrong party
that is never accepted is not followed. The `builder` and channel runs disable the check, since a
caller may stop calling; in `fdprep` being stuck is what a property is about.

### Findings and divergences

Three findings have a run that violates a property stating what the repository says:

* `fiprep_reuse`: `GenZeroPartiesReceive` (`fi_prep.cc:150-164`) hangs the last of
  its cases on the last condition only, so the first two ranges of zero shares
  are appended to those of the input and output batches as well. The batches
  share their zeros with multiplications.
* `dn07_spare`: `dn07.cc:145` treats every party from t+1 on as one of the last t.
  With n > 2t+1, which the constructor accepts, outputs are wrong. The
  experiment uses n = 2t+1.
* `hash_stream`: `Hash::Update` builds a word that is whole in one call from its first
  byte and seven copies of its second (`hash.h:147-151`), though the class is called
  "A SHA-3 implementation" (`hash.h:35`). Digests ignore bytes, and depend on how a
  message is split; the tests hash equal bytes only. `AbsorbsTheStream` says what
  should be absorbed, the bytes of the calls end to end, and fails. What is right,
  whatever the split, is `WordsInPlace`: lengths, whole blocks, the padding behind
  everything, and every byte at its place but the third and later ones of a word that
  is whole in one call, of which it says nothing.

Others came up while modelling. They are in the models where they are part of the
behaviour, and have no run of their own:

* `SetNetwork` asks for `mIsClosed` (`circuits.h:84`; what it throws says "Cannot set
  network without closing the circuit first"), which `CloseOutputs` alone sets
  (`circuits.h:61`): inputs and multiplication layers may still be open. With calls in
  any order (`Disciplined = FALSE`) TLC finds `NetworkOnlyOnClosed` violated; for the
  documented order it is a theorem, and no caller in the repository makes them in another.
* `NetworkConfig::GetParty(id)` indexes by position (`config.h:131`). A file whose
  lines are not in the order of the ids passes `Validate` and makes the parties
  look for each other in the wrong places: `ConfigsAgree` promises right hosts and
  ports only for files in order.
* The discovery server indexes hostnames by the received id (`server.cc:48`),
  though it stores them in the order of acceptance. `ConfigsAgree` promises
  right hostnames only if the two orders are the same, and `EveryoneGetsANetwork`
  a network only if the hostnames are right.
* The constructor of `NetworkConfig` cannot notice a duplicate id if the one that
  is missing is 0, the id of an entry nobody filled in (the last part of `ConfigsAgree`).
* `CreateThreadedSenders` wraps the channels to smaller ids only
  (`network.cc:23,62`): sends to greater ids still block.
* A `ThreadedSenderChannel` that is destroyed without `Close` waits for its thread
  for ever (`threaded_sender.cc:7`; `Destroy` in the model), and what is queued
  at `Close` is dropped.
* `TcpChannel::Recv` returns at the end of the stream without having filled its
  destination (`tcp_channel.cc:31`): the outcome "undefined" of a client in
  `Discovery`.
* With threshold 0, which `SetThreshold` accepts (`correlator.h:92-98`), P1 is among those
  that are sent opened products, over the same queue in memory on which its own shares
  of the products wait, and `experiments/ours.cc:96-103` runs `GenProdPartiesSendP1`,
  `GenProdP1ReceivesAndSends` and `GenProdPartiesReceive` at the same time: P1 may take
  its own share for the opened product. `ReceivesItsOwn` of `FIPrep` fails there, and
  `ReceivedForItself` is about the other thresholds. (With no corrupt party there is
  nothing to hide; the experiments use others.)
* `FromConfig` computes `width % n_inputs` before it tests for zero
  (`generic.cc:12`): `UndefinedOnlyWhenEmpty` says when it is undefined.
* `ReconstructShamirRobust` does not fail whenever there are too many errors: the
  system for e = 0 always has a solution (`shamir.h:247`), and the polynomial through
  all points divides by 1. A test (`test_shamir.cc:83-87`) takes a failure for
  granted. `CorrectsErrors` says what is true: if more than t shares are wrong the
  call throws or returns a polynomial of a degree above t. The overload that
  returns the value at 0 hides even that.
* `ReconstructShamir` looks at 2t+1 shares whatever their number, though its comment
  speaks of "the provided shares" (`shamir.h:173-174`); `DetectsErrors` is about
  those.
* `ExtractSolution` may return what is no solution when variables are free:
  `GetPivotInColumn` leaves out the entry before the column (`la.h:122`), and
  `la.h:173` sets variables to 0 by the number of empty rows. The test
  at `test_la.cc:49-54` expects such a value. `SolvesSystems` promises a solution
  only if the free variables come last.
* `OutputGate::GetIndvShrLambda` returns `mLambda` and not the share it has just stored
  (`output_gate.h:55`). Nothing calls it: the correlator has a map of its own.
* Gates never forget: `SetClearInputs` on a circuit that was evaluated changes the inputs
  and none of the values computed from them (`gate.h:110`). `ClearIsConsistent` is about
  the time before, and says that afterwards the first outputs are given again. A
  `SetClearInputs` that throws has set the inputs of the clients before
  (`cleartext.cc:9`). The masks of the dummy preprocessing go stale in the same way.
* `SetClearInputsFlat` does not compare the number of values (`cleartext.cc:20`): too
  few are read beyond the end, "undefined" in the model.
* `MultBatch::PrepFromDummyLambdas` evaluates at the point `mID` (`mult_gate.h:130`)
  where inputs and outputs take `mID + 1`: the first party gets the first secret
  itself. `DummyPrepShares` states it; only commented-out tests call it.
* The sizes of a received matrix are multiplied in 32 bits before they are compared with
  the limit, and in 64 when it is read (`channel.h:213`, `mat.h:358`): sizes that wrap
  make `Mat::Read` run beyond its buffer, "undefined" in the model. A vector of 2^32
  elements or more announces fewer (`channel.h:134`).
* The mask `(1 << K) - 1` of `z2k/details.h:98` is undefined for K as wide as its word.
  No code here instantiates such a ring, and `Numbers` has K < W.

## 4. Proofs

Every theorem is about the specification for all values of the constants. A module
`XProofs` extends `X`, `NetworkProofs` both channels and `NetworkSetup`, and
`SequentialProofs` the specification of everything in one thread; none of
them changes a definition. `StreamLemmas` has what most of
them need: the library's induction principles cannot be used (an operator is their
parameter), but a *set* of natural numbers with 0 and the successors of its
members has them all (`InductiveSet`, from the pigeonhole principle for finite
sets), and with that what `FlattenSeq` does with sequences that grow at one end
and shrink at the other, what a program makes of its instructions one after the
other, and when two programs agree on a channel, are lemmas like any others.

| module | theorem | says |
|---|---|---|
| `CircuitBuilderProofs` | `TypeCorrect`, `AlwaysShaped` | types and the shape of batches, whatever the order of the calls |
| | `GatesBatchedOnce` | each gate is in one slot of one batch of its owner or layer, whatever the order of the calls |
| | `ViewsInvariant`, `LookupCorrect`, `NetworkAfterClosing` | for the documented order (`ASSUME Disciplined`): both views agree; `GetMultGate` finds the gate of its batch; a circuit with a network has full batches only |
| | `FromConfigCalls` | `FromConfig` calls the builder in the documented order, for clients and wires that exist, with nothing in the model to enforce it |
| | `DefinedUnlessEmpty` | `UndefinedOnlyWhenEmpty`, for every configuration |
| | `CircuitAsPlanned` | `BuildsSynthetic`, for every configuration and batch size |
| `OnlineProofs` | `MessagesFindTheirReceives` | `ReceivesItsOwn` of the online phase |
| | `LearnsWiresOnce` | `LearnsOnce`: a mu once known stays as it is |
| `FDPrepProofs` | `PreparationsFindTheirReceives` | `ReceivesItsOwn` of the function-dependent preprocessing |
| `FIPrepProofs` | `ReceivedForItself` | `ReceivesItsOwn` of the function-independent preprocessing, for `Threshold # 0` |
| | `MaterialSuffices` | `NeverRunsOut`: the blocks made are enough, for any amounts |
| `NetworkProofs` | `BytesKept`, `FlushNeverWaits` | no byte is lost, doubled or moved; `Flush` never meets an empty queue |
| | `ChannelIsStream` | `StreamOrder`: the channel in memory implements `ByteStream` |
| | `OpenLosesNothing` | nothing is lost while the channel is open |
| | `SenderIsStream` | `PeerReadsStream`: open, closing or closed, the threaded sender implements `ByteStream` |
| | `ConfigurationsAgree` | `ConfigsAgree` of the discovery |
| | `NetworksAreComplete` | `ChannelsLeadToTheirParty` |
| `DN07Proofs` | `ReceivedForItsGate` | `ReceivesItsOwn` of the baseline, the threads of its layers included: also that P1 finds in its queues what it takes from them |
| `SequentialProofs` | `MessagesAlwaysArrive` | `MessagesArrive`: any messages, field, base and limit |
| | `WordsAlwaysInPlace` | `WordsInPlace`: any message and any split of it into calls of `Hash::Update` |

`GateLookup` and `FlushFinds` are stated beside their proofs
and no run checks them; `NetworkOnlyOnClosed` is proved for the documented order, which it needs.

**Circuit builder.** The first lemmas are about one layer: appending to
an open layer keeps it open for the longer flat list, closing makes it closed for
the same list, both keep it shaped, and a closed layer has the gate of flat index i
at batch i div k, slot i mod k. `Structure` (types, shapes, and that there is a
layer to append to) is inductive for any caller. `ViewsAgree` is the strengthening
of `GateLookup` and `NetworkOnlyOnClosed`: neither says what an open layer holds, or
that the flat list is one layer ahead after `LastLayer`. `GatesBatchedOnce` counts
slots, and a count is no invariant a step can be reasoned about with: `Placed` says
instead that no two slots hold the same gate and that no slot holds a gate yet to
be made, from which the count is 1.

**`FromConfig`.** The closed form of `SyntheticCircuit` says what every gate is by
divisions of its number; the loops of the code say it by counting. The inductive
invariant, `FromConfigInv`, puts the two together: every gate there is so far is the
one of the plan (`GatesAsPlanned`), as many are there as the loops have come past
(`InLoop` for those over the parties, `GroupBase` of the layer and group at hand for
those between), and the flat lists hold those of the plan up to there
(`LayersAsPlanned`, `OwnedAsPlanned`). A step makes the gate of the plan for its place
(`PlanInput`, `PlanGroup`, `PlanOutput`), which reads wires that exist because
the layer before is complete and exactly as wide as the loop that reads it; that
is where `width % n_inputs == 0` and an even number of inputs are needed, and why an
index leaves its layer only when a layer is empty or there is none. The order of the
calls follows from where `FromConfig` is (`Phases`), so `ViewsAgree` holds of its
circuits whatever `Disciplined` is. A closed layer for which `ViewsAgree` holds
is the flat list cut into batches and padded (`ClosedBatched`): for that `ViewsAgree`
has to say, too, that no batch is padding only but the one of a layer without gates.
The depth of a wire (`ReadyAfter`) is a recursive function, and the plan gives its
value (`ReadyOf`).

**Protocols.** Messages carry no label, so what the model's tags say has to follow
from the order alone. For every pair of parties q and p, `Ordered` says: the tags on
the channel from q to p, followed by those of all that q's program still sends
to p, are those of all that p's program still receives from q. A receive then finds
its own message at the head, and at the end nothing is left. This is inductive with
the types beside it, and needs nothing about values. What is hard is that it
holds at the beginning: the two programs, nested loops over clients, layers,
batches, sides and parties on one side, and other loops on the other, have the same
projections on each channel. That is proved of the programs themselves, for every
circuit, loop by loop (`ProgramsMatch` and the lemmas before it). That the
invariant is inductive has nothing to do with what the programs are: it is
proved once, of any parties with programs (`Agreeing`, `SendingAgrees`,
`ReceivingAgrees` in `StreamLemmas`), and both `Online` and `FDPrep` are
instances. In `FIPrep` a party
runs two threads; what is still to be sent is counted from both, and the invariant is
one of its own.

In `DN07` a party runs one or two threads by turns. `DN07Proofs` gives it one line: its
phases end to end, in each what the started thread is told and behind it what the main
one is. A started thread only sends, and the main one, while the other runs, only
receives (`Phases`); so what is sent is sent in the order of the line and what is
received is received in it, each from a place of its own (`SendPlace`, `ReceivePlace`),
whichever thread is ahead. A join moves the place of sending over the receives of the
main thread, and that of receiving over what the next started thread is to send:
neither loses an instruction of its own (`Skips`). What is sent along a line to q, and what is received along it from
q, are read off as sequences of tags protocol by protocol, and agree for every pair
(`FlowsMatch`, from `ProgramReads`); that the two threads of a layer, put behind each
other, are the layer in one line is `LayerInLine`. From then on the tags on the way and
those still to be sent are those still to be received (`Met`). P1's two queues need a
balance of their own, across its threads: what a queue holds is what the rest of the
line takes from it less what the rest puts into it, counted from the place of receiving
for the products that are put in and from that of sending for those sent back
(`QueuesOK`), and no place of the line has more taken before it than put in
(`QueuesBalanced`), so P1 never takes from an empty queue (`QueuesGoOn`) and both are
empty at the end. The inductive invariant is
`InStep`; on the instance of `dn07` TLC finds it in all states.

`LearnsOnce` is an action property, and needs an invariant that looks ahead:
`Unlearned` says that P1 does not know what the rest of its program will teach it.
For a step to preserve it, no wire may be learned in two places of the program
(`ProgramsTeach`), which is again proved of the loops themselves: what they teach is
apart, instruction by instruction, because every gate is in one place of the circuit.

`MaterialSuffices` is arithmetic and a count: (A + t) div (t + 1) blocks of t + 1 are
at least A shares, and of the shares of zero all behind the first 3m are kept for
inputs and outputs (`EnoughGiven`). `Made` says after how many functions which vector
is long enough; it holds for threshold 0 too.

**Channels.** In `MemChannel` the invariant is that what was handed out, what the
reader holds and what is queued are, end to end, what was sent. `NothingLost` is
inductive together with the types, with `Waiting` (a call that is not done has used up
the overflow: otherwise the bytes it pops next would overtake those) and `FlushFinds`
(nobody else pops). In `ThreadedSender` the queue's head stays where it is until the
thread is done with it (`ItemStays`), and the order of the three steps of `Close`
(`CloseOrder`) is what separates the time when nothing is missing, the socket closed
or not, from the time when only a prefix arrives: the byte that wakes the thread is
queued when nothing can be written any more. Both refinements map
what was sent and what arrived; every step is a step of the stream or a stutter.

**Network.** `Discovered` follows a client through the backlog into its one slot,
what is noted about it, and what is given out (`Accepted`, `ListRight`,
`ConfigsRight`). That a duplicate id is noticed is a counting argument: n parties
with n different ids in 0..n-1 leave no entry out. `Connected` says for every
process which connections it has made, which wait and which are accepted, and that
nobody is in two of these places; that the server's thread has as many connections
as there are greater ids, each placed by the id it carries, fills the network.

**One thread.** Two of its parts keep a stream of bytes in step, and that is what is
proved of them. In `Messages`, `Exchanged` says that what is on the stream and what
is still to be sent are, end to end, the bytes of the messages from the one that is
due (from its content, when its sizes were read), as long as no message before it was
beyond the limit; that a message can be read from anything that begins with its
bytes (`Written`), and that sizes within the limit survive the 32 bits they are
cut to (`SizesTold`), is arithmetic with products, which the provers are given
in small pieces. The proof asked for two things the instance had not shown: the
size of an STL vector is the receiver's own and is never cut, and the
limit must itself fit in a size. In `HashBuffer`,
`Absorbed` says that some number g of words was given and that the saved bytes are
what the code hashes behind them. That (`Hashed`, beside the proof) is the message with
the copies where a word is whole in one call, and the invariant has to say it of every
byte, though the property, of which it is the strengthening (`BytesInPlace`), leaves
these out. What is hashed at a place depends on whether its word
came whole, hence on calls that are yet to come; the proof needs that a word with saved
bytes is never whole in a call (`TakenApart`), that a word read past them always
is (`LeftWhole`), and therefore that what was hashed stays as it is (`HashedStays`).
No other part runs a job of either kind, or makes one job of another (`JobStays`).

Assumptions on constants, named in the modules and evaluated by every run: the batch
size is a positive integer and the padding gate no gate number; there is at least
one party and a channel holds a message; a circuit is made of sequences of gate
numbers in `Online` and `DN07`, of batches in `FDPrep`, and in `DN07` a client's gates
are its own (`CircuitAssumption` in all three); in `DN07` more than twice as many
parties as the threshold take part, which the constructor checks
(`ThresholdAssumption`);
no gate is in two places of a circuit of `Online` (`GatesOnceAssumption`, which is what
`GatesBatchedOnce` proves of the circuits the builder makes); amounts are natural
numbers (`AmountsAssumption`);
a configuration is made of natural numbers, and its parties are the clients
(`ConfigsAssumption`);
sizes of calls and bounds are natural numbers, and a socket has room for a byte
(`SizesAssumption`, `BoundsAssumption`,
`ItemsAssumption`; `QueuedAssumption`, `RoomAssumption`);
`None` is no process (`NoneAssumption`), the clients are finitely many and others than
the server (`MeAssumption`), ids, files and their lines are of the kinds the
comments give (`StartIdsAssumption`); no two processes of one machine are to listen at
the same port, which the operating system refuses (`AddressAssumption`); the byte that stops a sender is no byte of the model's stream
(`StopSignalAssumption`; in the code it is told apart by the channel being dead);
what is exchanged are elements, vectors and matrices of a field whose elements, like the
limit and the sides of a matrix without elements, fit in two bytes of the given base
(`MessagesAssumption`, `ExchangesAssumption`); calls of the hash are of bytes, a word
has at least two and a block at least one word (`CallsAssumption`, `HashAssumption`).

With TLC only: liveness under fairness and deadlock, which are beyond the prover;
what
shares stand for (`MuIsMaskedValue`, `PrepIsSharing`, `SharesConsistent`,
`TriplesMultiply`, `WiresAreShared`, the outputs, and the error-correcting
code), where sums and products of field elements are folds over sets and what a
sharing determines is a fact about polynomials (`OwnersLearnMasks` among them);
`RoomDecides`, which is about states in which nobody can go on; and of what runs in one thread the algebra (`SharesReconstruct`,
`DetectsErrors`, `CorrectsErrors`, `SolvesSystems`, `MatricesAgree`, `NumbersAgree`),
whose definitions are sums over sets or recursive, and `Evaluation`.

## 5. Plan

1. Builder, synthetic circuits (done, proved); online protocol and its
   refinement of the evaluation in the clear (done, checked).
2. Function-dependent and function-independent preprocessing (done, checked).
3. `DN07` (done, the order of its messages proved).
4. The network: in-memory channels, the threaded sender, discovery, setting up
   connections (done, checked); rounds in which everybody sends first over the
   channels of `CreateThreadedSenders` (open).
5. What runs in one thread: error detection and correction, division of polynomials,
   Gaussian elimination, sharing, matrices, word arithmetic with both inverses, the
   buffer of the hash, the generator's counter, typed messages, evaluation in the
   clear and dummy preprocessing (done, checked); systems that are not square (open).
6. Proofs: the builder and `FromConfig`, both channels, discovery and connections, `FIPrep`, `FDPrep`,
   `Online` and of the code in one thread `HashBuffer` and `Messages` (done);
   `Evaluation` (open).

## 6. Not modelled

The permutation of the hash and the cipher of the generator (bit-level functions
without control; their results are arbitrary values elsewhere), secrecy (a
statement about distributions), the drivers in `experiments/` but for the order of
their calls, printing, number formats, the syntax of configuration files, mock
networks and networks in memory, `_DummyPrep()` of zeros and `GenPrepDummy`,
`ClearEvaluation` of single layers and batches, which nothing calls, products of two
polynomials, iterators and overloads that only pass on arguments. In the protocols a
message is one field element; `Messages` has what elements, vectors and matrices are
as bytes, and the channel modules how bytes make up a stream.
