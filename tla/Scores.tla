------------------------------- MODULE Scores --------------------------------
(***************************************************************************)
(* The scores of a deciphered message.  Every processor has functions of   *)
(* its own, unrolled or vectorised, that should add up the same: one       *)
(* dictionary entry for every n letters in a row (src/scoreBasic.c,        *)
(* computeScoreNoInterleave.c, the files of x86), or the index of          *)
(* coincidence of the letters.  What is added is kept as positions of the  *)
(* message, a gram being the positions of the letters looked up together.  *)
(***************************************************************************)
EXTENDS Integers, FiniteSets, Functions, Sequences

CONSTANT Texts   \* deciphered messages: letters by their position

CT == 250        \* letters of a message that are used

n(score) == CASE score = "tri" -> 3 [] score = "bi" -> 2 [] OTHER -> 1

\* The functions of a processor, and what they call behind the decoder
enigmaScoreBasic(score) ==
  CASE score = "tri" -> "triscoreBasic" [] score = "bi" -> "biscoreBasic"
    [] score = "uni" -> "uniscoreBasic" [] score = "ic" -> "icscoreBasic"
enigmaScoreSsse3(score) ==
  CASE score = "tri" -> "ComputeTriscoreFromDecodedMsgSse2"
    [] score = "bi"  -> "ComputeBiscoreFromDecodedMsgSse2"
    [] score = "uni" -> "ComputeUniscoreFromDecodedMsg"
    [] score = "ic"  -> "ComputeIcscoreFromDecodedMsgSsse3"
enigmaScoreAvx(score) == enigmaScoreSsse3(score)     \* the same sources again
enigmaScoreAvx2(score) ==
  CASE score = "tri" -> "ComputeTriscoreFromDecodedMsgAvx2"
    [] score = "bi"  -> "ComputeBiscoreFromDecodedMsg"
    [] score = "uni" -> "ComputeUniscoreFromDecodedMsg"
    [] score = "ic"  -> "ComputeIcscoreFromDecodedMsgAvx2"

VARIABLES
  score, fn,    \* the score being computed and its function; "none" between
  text, clen,   \* the message, one of Texts, and how many letters of it are scored
  i,            \* the next letter of a loop over letters or vectors
  held,         \* the positions of the letters held in registers, slot by slot
  at,           \* the loop that is running, "sum", or "done"
  grams, added, \* what has been added up, and how many additions it took
  f,            \* the letters counted
  result        \* the index of coincidence

walk == << score, fn, text, clen, i, held, at, grams, added, f, result >>

\* A function is called.  Those of scoreBasic.c and computeScoreNoInterleave.c
\* hold the first letters before their loops begin.
Call(s, function) ==
  /\ score' = s /\ fn' = function
  /\ at' = IF function \in {"ComputeTriscoreFromDecodedMsgSse2", "ComputeBiscoreFromDecodedMsgSse2",
                            "ComputeTriscoreFromDecodedMsgAvx2"} THEN "vectors" ELSE "letters"
  /\ i' = IF at' = "letters" THEN n(s) - 1 ELSE 0
  /\ held' = [slot \in 0 .. n(s) - 1 |-> slot]
  /\ grams' = {} /\ added' = 0 /\ f' = [c \in 0 .. 25 |-> 0] /\ result' = 0
  /\ UNCHANGED << text, clen >>

Add(new) == grams' = grams \cup {new[j] : j \in DOMAIN new} /\ added' = added + Len(new)
AddFrom(first, count) ==
  Add([j \in 1 .. count |-> [q \in 0 .. n(score) - 1 |-> first + j - 1 + q]])

-----------------------------------------------------------------------------
(* src/scoreBasic.c: letters by sixteen, by four, and one by one.          *)

decode(offset)  == << i + offset >>
decode4(offset) == [j \in 1 .. 4 |-> i + offset + j - 1]

Block == IF i < clen - 15 THEN decode4(0) \o decode4(4) \o decode4(8) \o decode4(12)
         ELSE IF i < clen - 3 THEN decode4(0) ELSE decode(0)

\* A letter goes to the register of the letter that is no longer needed, so
\* that the registers change their parts from letter to letter: what is in one
\* after the jth letter is the last letter that was put there.
RegistersIn(block) ==
  [j \in 0 .. Len(block) |-> [slot \in 0 .. n(score) - 1 |->
     LET before == (j + n(score) - 2 - slot) % n(score)
     IN IF before < j THEN block[j - before] ELSE held[slot]]]

\* Behind a block they have their parts as before it: with two letters a block
\* of an even number of them needs no move.
MutantMoves(block) == Len(block) = 1       \* mutant: nor with three letters
Moves(block) == score = "tri" \/ Len(block) = 1

BasicBlock ==
  LET block == Block
      after == RegistersIn(block)
      last  == after[Len(block)]
  IN /\ at = "letters" /\ i < clen
     /\ Add([j \in DOMAIN block |->
               [q \in 0 .. n(score) - 1 |-> after[j][(j - 1 + q) % n(score)]]])
     /\ held' = IF Moves(block)
                THEN [slot \in DOMAIN held |-> last[(slot + 1) % n(score)]] ELSE last
     /\ i' = i + Len(block)
     /\ UNCHANGED << score, fn, text, clen, at, result >>

Count(block) ==
  f' = [c \in 0 .. 25 |-> f[c] + Cardinality({j \in DOMAIN block : Texts[text][block[j]] = c})]

Return ==
  /\ at = "letters" /\ i >= clen /\ at' = "done"
  /\ UNCHANGED << score, fn, text, clen, i, held, grams, added, f, result >>

triscoreBasic == fn = "triscoreBasic" /\ ((BasicBlock /\ UNCHANGED f) \/ Return)
biscoreBasic  == fn = "biscoreBasic"  /\ ((BasicBlock /\ UNCHANGED f) \/ Return)
uniscoreBasic == fn = "uniscoreBasic" /\ ((BasicBlock /\ UNCHANGED f) \/ Return)

ReturnIc(sum) ==
  /\ at = "letters" /\ i >= clen /\ at' = "done" /\ result' = sum
  /\ UNCHANGED << score, fn, text, clen, i, held, grams, added, f >>

Word(x) == x % 65536
Pairs(c) == c * (c - 1)

PairsOf == [c \in 0 .. 25 |-> Pairs(f[c])]

\* Mutant: the sums end with the fours.
MutantIcSum ==
  SumFunction([s \in 0 .. 3 |-> Word(SumFunctionOnSet(PairsOf, {c \in 0 .. 23 : c % 4 = s}))])

\* Four sums of sixteen bits, added up as int
IcSumBasic ==
  SumFunction([s \in 0 .. 3 |-> Word(SumFunctionOnSet(PairsOf, {c \in 0 .. 25 : c % 4 = s}))])

icscoreBasic == fn = "icscoreBasic" /\ ((BasicBlock /\ Count(Block)) \/ ReturnIc(IcSumBasic))

-----------------------------------------------------------------------------
(* computeScoreNoInterleave.c and the ends of the bigrams of x86: a block  *)
(* of letters behind those held.                                           *)

\* The letters of the block and those before it, each where it is held
WindowBlock(size) ==
  LET window == [q \in 0 .. n(score) - 2 + size |->
                   IF q < n(score) - 1 THEN held[q] ELSE i + q - (n(score) - 1)]
  IN /\ at = "letters" /\ i < clen
     /\ Add([j \in 1 .. size |-> [q \in 0 .. n(score) - 1 |-> window[j - 1 + q]]])
     /\ held' = [slot \in DOMAIN held |->
                   IF slot < n(score) - 1 THEN window[slot + size] ELSE held[slot]]
     /\ i' = i + size
     /\ UNCHANGED << score, fn, text, clen, at, result >>

ComputeUniscoreFromDecodedMsg ==
  fn = "ComputeUniscoreFromDecodedMsg" /\ ((WindowBlock(1) /\ UNCHANGED f) \/ Return)

ComputeBiscoreFromDecodedMsg ==
  /\ fn = "ComputeBiscoreFromDecodedMsg"
  /\ \/ i < clen - 3  /\ WindowBlock(4) /\ UNCHANGED f
     \/ i >= clen - 3 /\ WindowBlock(1) /\ UNCHANGED f
     \/ Return

-----------------------------------------------------------------------------
(* x86: sixteen letters at a time, read at the vector's place and again    *)
(* one and two letters further on.                                         *)

Lanes(count) ==
  /\ at = "vectors" /\ AddFrom(i, count)
  /\ UNCHANGED << score, fn, text, clen, held, f, result >>

VectorOf(count) == Lanes(count) /\ i' = i + 16 /\ UNCHANGED at
TailOf(count)   == Lanes(count) /\ at' = "done" /\ UNCHANGED i

\* The switch has cases for 1 to 15.
ComputeTriscoreFromDecodedMsgSse2 ==
  LET tail == clen - 2 - i
  IN /\ fn = "ComputeTriscoreFromDecodedMsgSse2"
     /\ \/ i + 15 < clen - 2    /\ VectorOf(16)
        \/ ~ (i + 15 < clen - 2) /\ TailOf(IF tail \in 1 .. 15 THEN tail ELSE 0)

\* The vectors, then the letters behind them one by one
ComputeBiscoreFromDecodedMsgSse2 ==
  /\ fn = "ComputeBiscoreFromDecodedMsgSse2"
  /\ \/ i + 15 < clen - 1 /\ VectorOf(16)
     \/ /\ at = "vectors" /\ ~ (i + 15 < clen - 1)
        /\ at' = "letters" /\ held' = [held EXCEPT ![0] = i] /\ i' = i + 1
        /\ UNCHANGED << score, fn, text, clen, grams, added, f, result >>
     \/ i + 3 < clen    /\ WindowBlock(4) /\ UNCHANGED f
     \/ ~ (i + 3 < clen) /\ WindowBlock(1) /\ UNCHANGED f
     \/ Return

\* Two gathers of eight under a mask of sixteen bits, the tail one of them
ComputeTriscoreFromDecodedMsgAvx2 ==
  LET tail == clen - 2 - i
      bits == {b \in 0 .. 15 : b < tail}
  IN /\ fn = "ComputeTriscoreFromDecodedMsgAvx2"
     /\ \/ i + 8 < clen - 2 /\ VectorOf(IF tail < 16 THEN Cardinality(bits) ELSE 16)
        \/ ~ (i + 8 < clen - 2) /\ TailOf(IF tail > 0 THEN Cardinality(bits \cap 0 .. 7) ELSE 0)

\* A product of an unsigned and a signed byte, two of them added
Signed(byte) == IF byte >= 128 THEN byte - 256 ELSE byte
Saturated(x) == IF x > 32767 THEN 32767 ELSE IF x < -32768 THEN -32768 ELSE x
maddubs(a, b) ==
  Saturated(a * Signed((a - 1) % 256) + b * Signed((b - 1) % 256))

sat_max == 32767
IcSumVector ==
  LET lane == [p \in 0 .. 12 |-> maddubs(f[2 * p], f[2 * p + 1])]
  IN IF clen > 181 /\ \E p \in 0 .. 12 : lane[p] = sat_max
     THEN Word(SumFunction([c \in 0 .. 25 |-> Word(Pairs(f[c]))]))
     ELSE Word(SumFunction([p \in 0 .. 12 |-> Word(lane[p])]))

CountLetters == WindowBlock(1) /\ Count(decode(0))

ComputeIcscoreFromDecodedMsgSsse3 ==
  fn = "ComputeIcscoreFromDecodedMsgSsse3" /\ (CountLetters \/ ReturnIc(IcSumVector))

ComputeIcscoreFromDecodedMsgAvx2 ==
  fn = "ComputeIcscoreFromDecodedMsgAvx2" /\ (CountLetters \/ ReturnIc(IcSumVector))

ComputeScore ==
  \/ triscoreBasic \/ biscoreBasic \/ uniscoreBasic \/ icscoreBasic
  \/ ComputeUniscoreFromDecodedMsg \/ ComputeBiscoreFromDecodedMsg
  \/ ComputeTriscoreFromDecodedMsgSse2 \/ ComputeBiscoreFromDecodedMsgSse2
  \/ ComputeTriscoreFromDecodedMsgAvx2
  \/ ComputeIcscoreFromDecodedMsgSsse3 \/ ComputeIcscoreFromDecodedMsgAvx2
=============================================================================
