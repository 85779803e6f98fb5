----------------------------- MODULE HashBuffer -----------------------------
(***************************************************************************)
(* How scl::details::Hash (scl/hash.h) takes in a message that comes in    *)
(* several calls of Update.  Bytes wait in mSaved until they make a word,  *)
(* words are added to the state until the rate is reached, and then the    *)
(* state is permuted.  The permutation is not looked into: the state is    *)
(* the list of the blocks it has been given.  A job is a list of calls,    *)
(* followed by Finalize.                                                   *)
(***************************************************************************)
EXTENDS Integers, Sequences, SequencesExt, Calls

CONSTANTS WordBytes,  \* sizeof(uint64_t)
          Rate        \* kCuttoff, the words of a block

ASSUME HashAssumption == WordBytes \in Nat \ {0, 1} /\ Rate \in Nat \ {0}
ASSUME CallsAssumption == \A j \in Jobs : j.op = "hash" => j.calls \in Seq(Seq(Nat))

VARIABLES
  blocks,  \* mState: the blocks that were permuted, each a sequence of words
  block,   \* and the words since; mWordIndex is their number
  saved,   \* mSaved: bytes that make no word yet; mByteIndex is their number
  taken    \* how many calls have been made

hashVars == << blocks, block, saved, taken >>

HashInit == blocks = << >> /\ block = << >> /\ saved = << >> /\ taken = 0

\* Bytes that the saved ones lack to a word: (8 - mByteIndex) & 7.
OldTail == (WordBytes - Len(saved)) % WordBytes

\* Fault: the state is permuted a word too late.
WordsLate(words) == Len(words) > Rate

IsBlock(words) == Len(words) = Rate

AddWord(state, word) ==
  LET words == Append(state.block, word)
  IN  IF IsBlock(words) THEN [blocks |-> Append(state.blocks, words), block |-> << >>]
                        ELSE [state EXCEPT !.block = words]

\* A word that is whole in one call is put together from its first byte and
\* copies of its second.
WholeWord(bytes, i) ==
  [j \in 1 .. WordBytes |-> bytes[(i - 1) * WordBytes + (IF j = 1 THEN 1 ELSE 2)]]

AddWholeWords(state, bytes) ==
  LET words == Len(bytes) \div WordBytes
      after[i \in 0 .. words] ==
        IF i = 0 THEN state ELSE AddWord(after[i - 1], WholeWord(bytes, i))
  IN  after[words]

\* Too little to complete the saved word.
UpdateShort ==
  /\ At("hash", "start") /\ taken < Len(job.calls)
  /\ LET bytes == job.calls[taken + 1]
     IN  /\ Len(bytes) < OldTail
         /\ saved' = saved \o bytes
  /\ taken' = taken + 1
  /\ Continue("start")
  /\ UNCHANGED << blocks, block >>

\* The saved word is completed first, if there is one.
Update ==
  /\ At("hash", "start") /\ taken < Len(job.calls)
  /\ Len(job.calls[taken + 1]) >= OldTail
  /\ LET bytes == job.calls[taken + 1]
         start == [blocks |-> blocks, block |-> block]
         topped == IF OldTail = 0 THEN start
                   ELSE AddWord(start, saved \o SubSeq(bytes, 1, OldTail))
         rest == SubSeq(bytes, OldTail + 1, Len(bytes))
         after == AddWholeWords(topped, rest)
     IN  /\ blocks' = after.blocks /\ block' = after.block
         /\ saved' = SubSeq(rest, (Len(rest) \div WordBytes) * WordBytes + 1, Len(rest))
  /\ taken' = taken + 1
  /\ Continue("start")

\* The padding begins after the saved bytes and ends in the last byte of the
\* block; it always fits, as there is room for a byte in what is saved.
Finalize ==
  /\ At("hash", "start") /\ taken = Len(job.calls)
  /\ Return(Append(blocks, Append(block, Append(saved, "pad"))))
  /\ UNCHANGED hashVars

HashNext == UpdateShort \/ Update \/ Finalize

-----------------------------------------------------------------------------
\* The message up to call n, and the place right before that call.
Message(n) == FlattenSeq(SubSeq(job.calls, 1, n))
Before(n) == Len(Message(n - 1))

\* The bytes of word w of the message are all in one call.
InOneCall(w) ==
  \E n \in 1 .. Len(job.calls) :
    Before(n) <= (w - 1) * WordBytes /\ w * WordBytes <= Before(n + 1)

\* A byte behind the second of a word that is whole in one call.
InWholeWord(i) ==
  LET w == (i - 1) \div WordBytes + 1
  IN  i > (w - 1) * WordBytes + 2 /\ InOneCall(w)

\* What the state has been given and what waits, one behind the other.
TakenIn == FlattenSeq(FlattenSeq(blocks) \o block) \o saved

\* It makes no difference to a hash function how a message is split into calls:
\* the state is given whole blocks of it, in order, and the rest waits.
AbsorbsTheStream ==
  job.op = "hash" =>
    /\ TakenIn = Message(taken)
    /\ pc = "returned" => FlattenSeq(FlattenSeq(answer)) = Append(Message(taken), "pad")

\* However a message is split into calls of Update, what the state is given is as
\* long, blocks are whole, a byte waits only for the rest of its word, and
\* every byte is at its place.  Nothing is said of the third and later bytes of a
\* word that is whole in one call: there the code goes wrong.
WordsInPlace ==
  job.op = "hash" =>
    /\ \A i \in DOMAIN blocks : Len(blocks[i]) = Rate
    /\ Len(block) < Rate /\ Len(saved) < WordBytes
    /\ Len(TakenIn) = Len(Message(taken))
    /\ \A i \in DOMAIN TakenIn : ~InWholeWord(i) => TakenIn[i] = Message(taken)[i]
    /\ pc = "returned" => FlattenSeq(FlattenSeq(answer)) = Append(TakenIn, "pad")
=============================================================================
