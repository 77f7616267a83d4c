---------------------------- MODULE ScoringProofs ----------------------------
(***************************************************************************)
(* Whatever the processor can do, whatever the files hold and however long *)
(* the message is, the functions of scoreBasic.c, computeScoreNoInterleave.c *)
(* and of x86 add up the same: every n letters in a row, once, or the      *)
(* index of coincidence; and what they look up is what the files say.      *)
(*                                                                         *)
(* Between two blocks the additions made are those of the grams that start *)
(* at the first k letters, where k follows from the loop's counter; the    *)
(* registers of a loop over letters hold the n - 1 letters before it, and  *)
(* the letters counted are those before the counter.  Between two lines of *)
(* a file of whole keys the table holds what the lines read so far say.    *)
(***************************************************************************)
EXTENDS Scoring, FiniteSetTheorems, SequenceTheorems, TLAPS

KT == INSTANCE KeyTextProofs    \* for its lemmas of induction

\* The m letters in a row from p on, and those from the first k places
Gram(m, p) == [q \in 0 .. m - 1 |-> p + q]
First(m, k) == {Gram(m, p) : p \in 0 .. k - 1}

Triples == {"ComputeTriscoreFromDecodedMsgSse2", "ComputeTriscoreFromDecodedMsgAvx2"}
BasicFns == {"triscoreBasic", "biscoreBasic", "uniscoreBasic", "icscoreBasic"}

\* The functions that are called for a score
FunctionFits ==
  \/ score = "tri" /\ fn \in {"triscoreBasic"} \cup Triples
  \/ score = "bi"  /\ fn \in {"biscoreBasic", "ComputeBiscoreFromDecodedMsgSse2",
                              "ComputeBiscoreFromDecodedMsg"}
  \/ score = "uni" /\ fn \in {"uniscoreBasic", "ComputeUniscoreFromDecodedMsg"}
  \/ score = "ic"  /\ fn \in {"icscoreBasic", "ComputeIcscoreFromDecodedMsgSsse3",
                              "ComputeIcscoreFromDecodedMsgAvx2"}

\* How many grams have been added
Covered ==
  CASE at = "letters" -> i - n(score) + 1
    [] at = "vectors" -> IF i < clen - n(score) + 1 THEN i ELSE clen - n(score) + 1
    [] OTHER -> clen - n(score) + 1

\* The registers of a loop over letters
HeldBefore ==
  /\ i \in n(score) - 1 .. clen
  /\ \A q \in 0 .. n(score) - 2 : held[q] = i - (n(score) - 1) + q

WalkInv ==
  /\ FunctionFits
  /\ i \in 0 .. clen + 16
  /\ at \in {"vectors", "letters", "done"}
  /\ held \in [0 .. n(score) - 1 -> 0 .. CT - 1]
  /\ grams = First(n(score), Covered) /\ added = Covered
  /\ at = "letters" => HeldBefore /\ fn \notin Triples
  /\ at = "vectors" => /\ fn \in Triples \cup {"ComputeBiscoreFromDecodedMsgSse2"}
                       /\ score = "bi" => i <= clen - 1
                       /\ fn = "ComputeTriscoreFromDecodedMsgSse2" => i <= clen - 2

MainInv ==
  /\ job \in Jobs /\ cpu \subseteq {"ssse3", "avx", "avx2"}
  /\ dict \in {"none", "tri", "bi", "uni"} /\ loaded \subseteq {"tri", "bi", "uni"}
  /\ step \in {"cpu", "tri", "bi", "uni", "ciphertext", "optimize", "score", "exit"}
  /\ step \in {"optimize", "score"} => clen \in 3 .. CT

ScoringInv == MainInv /\ (step = "score" => score \in Asked /\ WalkInv)

-----------------------------------------------------------------------------
(* Grams.                                                                  *)

\* A score is of three letters in a row, of two, or of one.
LEMMA Sizes ==
  /\ n("tri") = 3 /\ n("bi") = 2 /\ n("uni") = 1 /\ n("ic") = 1
BY DEF n

\* As many different grams as places to start at.
LEMMA FirstCounted ==
  ASSUME NEW m \in 1 .. 3, NEW k \in Nat
  PROVE  IsFiniteSet(First(m, k)) /\ Cardinality(First(m, k)) = k
<1> DEFINE g == [p \in 0 .. k - 1 |-> Gram(m, p)]
<1>1. \A p \in Int : Gram(m, p)[0] = p
  BY DEF Gram
<1>2. g \in [0 .. k - 1 -> First(m, k)]
  BY DEF First
<1>3. \A a, b \in 0 .. k - 1 : g[a] = g[b] => a = b
  <2> SUFFICES ASSUME NEW a \in 0 .. k - 1, NEW b \in 0 .. k - 1, g[a] = g[b]
               PROVE  a = b
    OBVIOUS
  <2>1. Gram(m, a) = Gram(m, b)
    OBVIOUS
  <2> QED
    BY <1>1, <2>1
<1>4. \A t \in First(m, k) : \E a \in 0 .. k - 1 : g[a] = t
  BY DEF First
<1> HIDE DEF g
<1>5. g \in Bijection(0 .. k - 1, First(m, k))
  BY <1>2, <1>3, <1>4 DEF Bijection, Injection, Surjection, IsInjective
<1>6. ExistsBijection(0 .. k - 1, First(m, k))
  BY <1>5 DEF ExistsBijection
<1>7. IsFiniteSet(0 .. k - 1) /\ Cardinality(0 .. k - 1) = k
  BY FS_Interval
<1> QED
  BY <1>6, <1>7, FS_Bijection

\* The first grams and those that follow them are the first ones of more.
LEMMA FirstExtended ==
  ASSUME NEW m \in 1 .. 3, NEW k \in Nat, NEW c \in Nat
  PROVE  First(m, k) \cup {Gram(m, k + j - 1) : j \in 1 .. c} = First(m, k + c)
<1>1. \A t \in First(m, k + c) : t \in First(m, k) \/ t \in {Gram(m, k + j - 1) : j \in 1 .. c}
  <2> SUFFICES ASSUME NEW p \in 0 .. k + c - 1, Gram(m, p) \notin First(m, k)
               PROVE  Gram(m, p) \in {Gram(m, k + j - 1) : j \in 1 .. c}
    BY DEF First
  <2>1. p \notin 0 .. k - 1
    BY DEF First
  <2>2. p - k + 1 \in 1 .. c /\ k + (p - k + 1) - 1 = p
    BY <2>1
  <2> QED
    BY <2>2
<1>2. First(m, k) \subseteq First(m, k + c)
  BY DEF First
<1>3. \A j \in 1 .. c : k + j - 1 \in 0 .. k + c - 1
  OBVIOUS
<1>4. {Gram(m, k + j - 1) : j \in 1 .. c} \subseteq First(m, k + c)
  BY <1>3 DEF First
<1> QED
  BY <1>1, <1>2, <1>4

\* What is added of c grams in a row behind the first k.
LEMMA AddExtends ==
  ASSUME NEW m \in 1 .. 3, NEW k \in Nat, NEW c \in Nat, NEW new,
         DOMAIN new = 1 .. c, Len(new) = c,
         \A j \in 1 .. c : new[j] = Gram(m, k + j - 1),
         grams = First(m, k), added = k, Add(new)
  PROVE  grams' = First(m, k + c) /\ added' = k + c
<1> DEFINE A == {new[j] : j \in DOMAIN new}
           B == {Gram(m, k + j - 1) : j \in 1 .. c}
<1>1. A = B
  OBVIOUS
<1>2. First(m, k) \cup B = First(m, k + c)
  BY FirstExtended
<1>3. grams' = grams \cup A /\ added' = added + Len(new)
  BY DEF Add
<1> HIDE DEF A, B
<1> QED
  BY <1>1, <1>2, <1>3

\* The lanes of a vector.
LEMMA AddFromExtends ==
  ASSUME NEW c \in Nat, n(score) \in 1 .. 3, NEW k \in Nat,
         grams = First(n(score), k), added = k, AddFrom(k, c)
  PROVE  grams' = First(n(score), k + c) /\ added' = k + c
<1> DEFINE new == [j \in 1 .. c |-> [q \in 0 .. n(score) - 1 |-> k + j - 1 + q]]
<1>1. Len(new) = c /\ DOMAIN new = 1 .. c
  BY SMT
<1>2. \A j \in 1 .. c : new[j] = Gram(n(score), k + j - 1)
  BY DEF Gram
<1>3. Add(new)
  BY DEF AddFrom
<1> HIDE DEF new
<1> QED
  BY <1>1, <1>2, <1>3, AddExtends

-----------------------------------------------------------------------------
(* Blocks of letters.                                                      *)

\* A block of computeScoreNoInterleave.c, or of the end of the bigrams of x86,
\* adds the grams that end in it, and holds the last letters of it.
LEMMA WindowBlockKeeps ==
  ASSUME n(score) \in 1 .. 3, clen \in 3 .. CT, HeldBefore,
         held \in [0 .. n(score) - 1 -> 0 .. CT - 1],
         grams = First(n(score), i - n(score) + 1), added = i - n(score) + 1,
         NEW size \in {1, 4}, i + size <= clen, WindowBlock(size)
  PROVE  /\ HeldBefore' /\ held' \in [0 .. n(score) - 1 -> 0 .. CT - 1]
         /\ grams' = First(n(score), i' - n(score) + 1) /\ added' = i' - n(score) + 1
         /\ i' = i + size /\ UNCHANGED << score, fn, clen, at >>
<1> DEFINE m == n(score)
           window == [q \in 0 .. m - 2 + size |->
                        IF q < m - 1 THEN held[q] ELSE i + q - (m - 1)]
           new == [j \in 1 .. size |-> [q \in 0 .. m - 1 |-> window[j - 1 + q]]]
<1>1. /\ Add(new) /\ i' = i + size /\ UNCHANGED << score, fn, clen, at >>
      /\ held' = [slot \in DOMAIN held |-> IF slot < m - 1 THEN window[slot + size] ELSE held[slot]]
  BY DEF WindowBlock
<1>2. m \in 1 .. 3 /\ i \in m - 1 .. clen /\ clen \in Nat /\ clen <= CT /\ CT = 250
  BY DEF HeldBefore, CT
<1>3. \A q \in 0 .. m - 2 : held[q] = i - (m - 1) + q
  BY DEF HeldBefore
<1> HIDE DEF m
<1>4. \A q \in 0 .. m - 2 + size : window[q] = i - (m - 1) + q
  BY <1>2, <1>3
<1>5. Len(new) = size /\ DOMAIN new = 1 .. size
  BY SMT
<1>6. \A j \in 1 .. size : new[j] = Gram(m, (i - m + 1) + j - 1)
  <2> SUFFICES ASSUME NEW j \in 1 .. size
               PROVE  new[j] = Gram(m, (i - m + 1) + j - 1)
    OBVIOUS
  <2>1. \A q \in 0 .. m - 1 : window[j - 1 + q] = (i - m + 1) + j - 1 + q
    BY <1>2, <1>4
  <2> HIDE DEF window
  <2> QED
    BY <2>1 DEF Gram
<1> HIDE DEF window, new
<1>7. grams = First(m, i - m + 1) /\ added = i - m + 1 /\ i - m + 1 \in Nat
  BY <1>2 DEF m
<1>8. grams' = First(m, i - m + 1 + size) /\ added' = i - m + 1 + size
  <2> DEFINE k == i - m + 1
  <2>1. k \in Nat /\ size \in Nat /\ grams = First(m, k) /\ added = k
    BY <1>7
  <2>2. \A j \in 1 .. size : new[j] = Gram(m, k + j - 1)
    BY <1>6
  <2> HIDE DEF k
  <2>3. grams' = First(m, k + size) /\ added' = k + size
    BY <1>1, <1>2, <1>5, <2>1, <2>2, AddExtends
  <2> QED
    BY <2>3 DEF k
<1>9. held' \in [0 .. m - 1 -> 0 .. CT - 1] /\ \A q \in 0 .. m - 2 : held'[q] = i' - (m - 1) + q
  <2>1. held \in [0 .. m - 1 -> 0 .. CT - 1]
    BY DEF m
  <2>2. \A q \in 0 .. m - 2 : window[q + size] = i' - (m - 1) + q
    <3> SUFFICES ASSUME NEW q \in 0 .. m - 2
                 PROVE  window[q + size] = i' - (m - 1) + q
      OBVIOUS
    <3>1. q + size \in 0 .. m - 2 + size
      BY <1>2
    <3>2. window[q + size] = i - (m - 1) + (q + size)
      BY <1>4, <3>1
    <3>3. i - (m - 1) + (q + size) = i + size - (m - 1) + q
      BY <1>2
    <3>4. i' = i + size
      BY <1>1
    <3> QED
      BY <1>2, <3>2, <3>3, <3>4
  <2>3. \A q \in 0 .. m - 2 : i' - (m - 1) + q \in 0 .. CT - 1
    BY <1>1, <1>2
  <2>4. DOMAIN held = 0 .. m - 1 /\ \A slot \in 0 .. m - 1 : slot < m - 1 => slot \in 0 .. m - 2
    BY <1>2, <2>1
  <2>5. held' = [slot \in 0 .. m - 1 |-> IF slot < m - 1 THEN window[slot + size] ELSE held[slot]]
    BY <1>1, <2>4 DEF m
  <2>6. \A slot \in 0 .. m - 1 : held'[slot] \in 0 .. CT - 1
    BY <2>1, <2>2, <2>3, <2>4, <2>5
  <2>7. \A q \in 0 .. m - 2 : q \in 0 .. m - 1 /\ q < m - 1
    BY <1>2
  <2> QED
    BY <2>2, <2>5, <2>6, <2>7
<1>10. i - m + 1 + size = i' - m + 1 /\ i' \in m - 1 .. clen
  BY <1>1, <1>2
<1> QED
  BY <1>1, <1>8, <1>9, <1>10 DEF m, HeldBefore

\* s is the run of count letters from p on.
IsRun(s, p, count) ==
  s \in Seq(Int) /\ Len(s) = count /\ \A j \in 1 .. count : s[j] = p + j - 1

\* Two runs of letters of which one follows the other are one run.
LEMMA RunsJoined ==
  ASSUME NEW p \in Int, NEW c \in Nat, NEW d \in Nat, NEW a, NEW b,
         IsRun(a, p, c), IsRun(b, p + c, d)
  PROVE  IsRun(a \o b, p, c + d)
<1> USE DEF IsRun
<1>1. a \o b \in Seq(Int) /\ Len(a \o b) = c + d
  <2>1. a \in Seq(Int) /\ b \in Seq(Int) /\ Len(a) = c /\ Len(b) = d
    OBVIOUS
  <2> HIDE DEF IsRun
  <2> QED
    BY <2>1
<1>2. ASSUME NEW j \in 1 .. c + d
      PROVE  (a \o b)[j] = p + j - 1
  <2>1. CASE j <= c
    BY <2>1
  <2>2. CASE j > c
    <3>1. j - c \in 1 .. d /\ (a \o b)[j] = b[j - c]
      BY <2>2
    <3> QED
      BY <3>1
  <2> QED
    BY <2>1, <2>2
<1> QED
  BY <1>1, <1>2

\* The letters of a block of scoreBasic.c follow each other, and there are as
\* many of them as the loops' conditions allow.
LEMMA BlockLetters ==
  ASSUME i \in Nat, clen \in Nat, i < clen
  PROVE  /\ Len(Block) \in {1, 4, 16} /\ i + Len(Block) <= clen
         /\ DOMAIN Block = 1 .. Len(Block)
         /\ \A j \in 1 .. Len(Block) : Block[j] = i + j - 1
<1>1. \A k \in {0, 4, 8, 12} : IsRun(decode4(k), i + k, 4)
  BY DEF decode4, IsRun
<1>2. CASE i < clen - 15
  <2>1. Block = decode4(0) \o decode4(4) \o decode4(8) \o decode4(12)
    BY <1>2 DEF Block
  <2>2. IsRun(decode4(0), i, 4) /\ IsRun(decode4(4), i + 4, 4)
    BY <1>1
  <2>3. IsRun(decode4(0) \o decode4(4), i, 8)
    BY <2>2, RunsJoined
  <2>4. IsRun(decode4(0) \o decode4(4) \o decode4(8), i, 12)
    BY <1>1, <2>3, RunsJoined
  <2>5. IsRun(Block, i, 16)
    BY <1>1, <2>1, <2>4, RunsJoined
  <2> QED
    BY <1>2, <2>5 DEF IsRun
<1>3. CASE ~ (i < clen - 15) /\ i < clen - 3
  <2>1. IsRun(Block, i, 4)
    BY <1>1, <1>3 DEF Block
  <2> QED
    BY <1>3, <2>1 DEF IsRun
<1>4. CASE ~ (i < clen - 3)
  <2>1. Block = << i >>
    BY <1>4 DEF Block, decode
  <2> QED
    BY <1>4, <2>1
<1> QED
  BY <1>2, <1>3, <1>4

\* The register that plays the part of the qth letter of a gram is the one that
\* was written m - 1 - q letters ago, or not yet in this block.
LEMMA RegisterOfGram ==
  ASSUME NEW m \in 1 .. 3, NEW j \in 1 .. 16, NEW q \in 0 .. m - 1
  PROVE  /\ (j - 1 + q) % m \in 0 .. m - 1
         /\ (j + m - 2 - ((j - 1 + q) % m)) % m = m - 1 - q
         /\ j - 1 + q < m - 1 => (j - 1 + q) % m = j - 1 + q
<1>1. CASE m = 1
  BY <1>1
<1>2. CASE m = 2
  BY <1>2
<1>3. CASE m = 3
  BY <1>3
<1> QED
  BY <1>1, <1>2, <1>3

\* What was written into a register, and when, is within the block or before it.
LEMMA RegisterRange ==
  ASSUME NEW m \in 1 .. 3, NEW j \in 1 .. 16, NEW slot \in 0 .. m - 1
  PROVE  (j + m - 2 - slot) % m \in 0 .. m - 1
<1>1. CASE m = 1
  BY <1>1
<1>2. CASE m = 2
  BY <1>2
<1>3. CASE m = 3
  BY <1>3
<1> QED
  BY <1>1, <1>2, <1>3

\* After the jth letter of a block the registers hold the letters of the gram
\* that ends in it, each where its part is then.
LEMMA RegistersHold ==
  ASSUME n(score) \in 1 .. 3, clen \in 3 .. CT, HeldBefore,
         held \in [0 .. n(score) - 1 -> 0 .. CT - 1],
         NEW L \in {1, 4, 16}, NEW block, Len(block) = L, i + L <= clen,
         \A j \in 1 .. L : block[j] = i + j - 1,
         NEW j \in 1 .. L
  PROVE  /\ RegistersIn(block)[j] \in [0 .. n(score) - 1 -> 0 .. CT - 1]
         /\ \A q \in 0 .. n(score) - 1 :
              RegistersIn(block)[j][(j - 1 + q) % n(score)] = (i - n(score) + 1) + j - 1 + q
<1> DEFINE m == n(score)
           before(slot) == (j + m - 2 - slot) % m
<1>1. /\ m \in 1 .. 3 /\ i \in m - 1 .. clen /\ clen \in Nat /\ clen <= CT /\ CT = 250
      /\ \A q \in 0 .. m - 2 : held[q] = i - (m - 1) + q
      /\ held \in [0 .. m - 1 -> 0 .. CT - 1]
  BY DEF HeldBefore, CT
<1>2. RegistersIn(block)[j] =
        [slot \in 0 .. m - 1 |-> IF before(slot) < j THEN block[j - before(slot)] ELSE held[slot]]
  BY DEF RegistersIn
<1> HIDE DEF m
<1>3. j \in 1 .. 16
  OBVIOUS
<1>4. \A slot \in 0 .. m - 1 : before(slot) \in 0 .. m - 1
  BY <1>1, <1>3, RegisterRange
<1>5. ASSUME NEW q \in 0 .. m - 1
      PROVE  RegistersIn(block)[j][(j - 1 + q) % m] = (i - m + 1) + j - 1 + q
  <2> DEFINE slot == (j - 1 + q) % m
  <2>1. slot \in 0 .. m - 1 /\ before(slot) = m - 1 - q /\ (j - 1 + q < m - 1 => slot = j - 1 + q)
    BY <1>1, <1>3, RegisterOfGram
  <2> HIDE DEF slot, before
  <2>2. RegistersIn(block)[j][slot] = IF before(slot) < j THEN block[j - before(slot)] ELSE held[slot]
    BY <1>2, <2>1
  <2>3. CASE m - 1 - q < j
    <3>1. j - (m - 1 - q) \in 1 .. L /\ i + (j - (m - 1 - q)) - 1 = (i - m + 1) + j - 1 + q
      BY <1>1, <2>3
    <3> QED
      BY <2>1, <2>2, <2>3, <3>1 DEF slot
  <2>4. CASE ~ (m - 1 - q < j)
    <3>1. slot = j - 1 + q /\ slot \in 0 .. m - 2
      BY <1>1, <2>1, <2>4
    <3>2. i - (m - 1) + (j - 1 + q) = (i - m + 1) + j - 1 + q
      BY <1>1
    <3> QED
      BY <1>1, <2>1, <2>2, <2>4, <3>1, <3>2 DEF slot
  <2> QED
    BY <2>3, <2>4
<1> HIDE DEF before
<1>6. ASSUME NEW slot \in 0 .. m - 1
      PROVE  RegistersIn(block)[j][slot] \in 0 .. CT - 1
  <2> DEFINE b == before(slot)
  <2>1. b \in 0 .. m - 1
    BY <1>4
  <2>2. RegistersIn(block)[j][slot] = IF b < j THEN block[j - b] ELSE held[slot]
    BY <1>2
  <2>3. held[slot] \in 0 .. CT - 1
    <3>1. held \in [0 .. m - 1 -> 0 .. CT - 1]
      BY <1>1
    <3> QED
      BY <3>1
  <2> HIDE DEF b
  <2>4. CASE b < j
    <3>1. j - b \in 1 .. L
      BY <1>1, <2>1, <2>4
    <3>2. i \in Nat /\ clen \in Nat /\ i + L <= clen /\ clen <= CT /\ CT \in Nat
      BY <1>1
    <3>3. i + (j - b) - 1 \in 0 .. CT - 1
      BY <3>1, <3>2
    <3> QED
      BY <2>2, <2>4, <3>1, <3>3
  <2> QED
    BY <2>2, <2>3, <2>4
<1> QED
  BY <1>2, <1>5, <1>6 DEF m

\* Behind a block the registers are moved on by one, or have their parts again.
LEMMA PartsBehind ==
  ASSUME NEW m \in 1 .. 3, NEW L \in {1, 4, 16}, NEW q \in 0 .. m - 2
  PROVE  /\ m = 3 \/ L = 1 => (L - 1 + (q + 1)) % m = (q + 1) % m
         /\ m = 2 /\ L # 1 => (L - 1 + (q + 1)) % m = q
<1>1. CASE m = 2
  BY <1>1
<1>2. CASE m = 3
  BY <1>2
<1> QED
  BY <1>1, <1>2

\* A block of scoreBasic.c adds the grams that end in it, and holds the last
\* letters of it in the registers where the next block expects them.
LEMMA BasicBlockKeeps ==
  ASSUME n(score) \in 1 .. 3, score = "tri" <=> n(score) = 3, clen \in 3 .. CT, HeldBefore,
         held \in [0 .. n(score) - 1 -> 0 .. CT - 1],
         grams = First(n(score), i - n(score) + 1), added = i - n(score) + 1, BasicBlock
  PROVE  /\ HeldBefore' /\ held' \in [0 .. n(score) - 1 -> 0 .. CT - 1]
         /\ grams' = First(n(score), i' - n(score) + 1) /\ added' = i' - n(score) + 1
         /\ UNCHANGED << score, fn, clen, at >>
<1> DEFINE m == n(score)
           L == Len(Block)
           after == RegistersIn(Block)
           last == after[L]
           new == [j \in DOMAIN Block |-> [q \in 0 .. m - 1 |-> after[j][(j - 1 + q) % m]]]
<1>1. /\ Add(new) /\ i' = i + L /\ i < clen /\ UNCHANGED << score, fn, clen, at >>
      /\ held' = IF Moves(Block) THEN [slot \in DOMAIN held |-> last[(slot + 1) % m]] ELSE last
  BY DEF BasicBlock
<1>2. /\ m \in 1 .. 3 /\ i \in m - 1 .. clen /\ i \in Nat /\ clen \in Nat
  BY DEF HeldBefore, CT
<1>3. /\ L \in {1, 4, 16} /\ i + L <= clen /\ DOMAIN Block = 1 .. L
      /\ \A j \in 1 .. L : Block[j] = i + j - 1
  BY <1>1, <1>2, BlockLetters
<1> HIDE DEF L
<1>4. \A j \in 1 .. L : /\ after[j] \in [0 .. m - 1 -> 0 .. CT - 1]
                        /\ \A q \in 0 .. m - 1 : after[j][(j - 1 + q) % m] = (i - m + 1) + j - 1 + q
  BY <1>3, RegistersHold, ZenonT(40) DEF L
<1> HIDE DEF m, after
<1>5. DOMAIN new = 1 .. L
  BY <1>3
<1>6. Len(new) = L
  BY <1>3, SMT
<1>7. \A j \in 1 .. L : new[j] = Gram(m, (i - m + 1) + j - 1)
  BY <1>3, <1>4 DEF Gram
<1> HIDE DEF new, last
<1>8. grams' = First(m, i' - m + 1) /\ added' = i' - m + 1
  <2> DEFINE k == i - m + 1
  <2>1. k \in Nat /\ L \in Nat /\ grams = First(m, k) /\ added = k
    BY <1>2, <1>3 DEF m
  <2>2. \A j \in 1 .. L : new[j] = Gram(m, k + j - 1)
    BY <1>7
  <2> HIDE DEF k
  <2>3. grams' = First(m, k + L) /\ added' = k + L
    BY <1>1, <1>2, <1>5, <1>6, <2>1, <2>2, AddExtends
  <2>4. k + L = i' - m + 1
    BY <1>1, <1>2, <1>3 DEF k
  <2> QED
    BY <2>3, <2>4
<1>9. held' \in [0 .. m - 1 -> 0 .. CT - 1] /\ \A q \in 0 .. m - 2 : held'[q] = i' - (m - 1) + q
  <2>1. DOMAIN held = 0 .. m - 1
    BY DEF m
  <2>2. /\ last \in [0 .. m - 1 -> 0 .. CT - 1]
        /\ \A q \in 0 .. m - 1 : last[(L - 1 + q) % m] = (i - m + 1) + L - 1 + q
    BY <1>3, <1>4 DEF last
  <2>3. \A q \in 0 .. m - 2 : last[(L - 1 + (q + 1)) % m] = i' - (m - 1) + q
    <3> SUFFICES ASSUME NEW q \in 0 .. m - 2
                 PROVE  last[(L - 1 + (q + 1)) % m] = i' - (m - 1) + q
      OBVIOUS
    <3>1. q + 1 \in 0 .. m - 1
      BY <1>2
    <3>2. (i - m + 1) + L - 1 + (q + 1) = i' - (m - 1) + q
      BY <1>1, <1>2, <1>3, SMTT(30)
    <3> QED
      BY <2>2, <3>1, <3>2
  <2>4. Moves(Block) <=> m = 3 \/ L = 1
    BY DEF Moves, m, L
  <2>5. CASE Moves(Block)
    <3>1. held' = [slot \in 0 .. m - 1 |-> last[(slot + 1) % m]]
      BY <1>1, <2>1, <2>5
    <3>2. \A slot \in 0 .. m - 1 : (slot + 1) % m \in 0 .. m - 1
      BY <1>2
    <3>3. \A q \in 0 .. m - 2 : q \in 0 .. m - 1 /\ held'[q] = last[(q + 1) % m]
      BY <1>2, <3>1
    <3>4. \A q \in 0 .. m - 2 : (L - 1 + (q + 1)) % m = (q + 1) % m
      BY <1>2, <1>3, <2>4, <2>5, PartsBehind
    <3> QED
      BY <2>2, <2>3, <3>1, <3>2, <3>3, <3>4
  <2>6. CASE ~ Moves(Block)
    <3>1. held' = last
      BY <1>1, <2>6
    <3>2. (m = 2 /\ L # 1) \/ m = 1
      BY <1>2, <2>4, <2>6
    <3>3. \A q \in 0 .. m - 2 : (L - 1 + (q + 1)) % m = q
      <4>1. CASE m = 2 /\ L # 1
        BY <1>2, <1>3, <4>1, PartsBehind
      <4>2. CASE m = 1
        BY <4>2
      <4> QED
        BY <3>2, <4>1, <4>2
    <3> QED
      BY <2>2, <2>3, <3>1, <3>3
  <2> QED
    BY <2>5, <2>6
<1>10. i' \in m - 1 .. clen
  BY <1>1, <1>2, <1>3
<1> QED
  BY <1>1, <1>8, <1>9, <1>10 DEF m, HeldBefore

-----------------------------------------------------------------------------
(* Vectors.                                                                *)

\* A vector of lanes: the grams that start in it.
LEMMA LanesKeep ==
  ASSUME n(score) \in 1 .. 3, NEW c \in Nat, i \in Nat,
         grams = First(n(score), i), added = i, Lanes(c)
  PROVE  /\ grams' = First(n(score), i + c) /\ added' = i + c
         /\ UNCHANGED << score, fn, clen, held >>
BY AddFromExtends DEF Lanes

-----------------------------------------------------------------------------
(* A call and a step of each function.                                     *)

\* What the invariant says of the size of a gram and of its letters.
LEMMA SizeFits ==
  ASSUME FunctionFits
  PROVE  /\ n(score) \in 1 .. 3 /\ (score = "tri" <=> n(score) = 3)
         /\ (score = "bi" <=> n(score) = 2)
BY DEF FunctionFits, n

\* A loop over letters of which one block has been added.
LEMMA LettersKeep ==
  ASSUME WalkInv, clen \in 3 .. CT, at = "letters",
         HeldBefore', held' \in [0 .. n(score) - 1 -> 0 .. CT - 1],
         grams' = First(n(score), i' - n(score) + 1), added' = i' - n(score) + 1,
         UNCHANGED << score, fn, clen, at >>
  PROVE  WalkInv'
<1>1. n(score)' = n(score) /\ n(score) \in 1 .. 3 /\ i' \in n(score) - 1 .. clen
  BY SizeFits DEF WalkInv, HeldBefore
<1>2. Covered' = i' - n(score) + 1
  BY <1>1 DEF Covered
<1>3. i' \in 0 .. clen + 16
  BY <1>1 DEF CT
<1> QED
  BY <1>1, <1>2, <1>3 DEF WalkInv, FunctionFits, First, Gram

\* A function that returns has covered every gram.
LEMMA ReturnKeeps ==
  ASSUME WalkInv, clen \in 3 .. CT, at' = "done",
         UNCHANGED << score, fn, clen, held, i >>,
         grams' = First(n(score), clen - n(score) + 1), added' = clen - n(score) + 1
  PROVE  WalkInv'
BY DEF WalkInv, FunctionFits, Covered

\* A block of a loop over letters.
LEMMA LetterBlock ==
  ASSUME WalkInv, clen \in 3 .. CT, at = "letters",
         \/ BasicBlock
         \/ \E size \in {1, 4} : i + size <= clen /\ WindowBlock(size)
  PROVE  WalkInv'
<1>1. /\ n(score) \in 1 .. 3 /\ (score = "tri" <=> n(score) = 3) /\ HeldBefore
      /\ held \in [0 .. n(score) - 1 -> 0 .. CT - 1]
      /\ grams = First(n(score), i - n(score) + 1) /\ added = i - n(score) + 1
  BY SizeFits DEF WalkInv, Covered
<1>2. CASE BasicBlock
  BY <1>1, <1>2, BasicBlockKeeps, LettersKeep
<1>3. CASE \E size \in {1, 4} : i + size <= clen /\ WindowBlock(size)
  BY <1>1, <1>3, WindowBlockKeeps, LettersKeep
<1> QED
  BY <1>2, <1>3

\* A loop over letters that has come to the end.
LEMMA LettersEnd ==
  ASSUME WalkInv, clen \in 3 .. CT, Return \/ \E sum : ReturnIc(sum)
  PROVE  WalkInv'
<1>1. /\ at = "letters" /\ i >= clen /\ at' = "done"
      /\ UNCHANGED << score, fn, clen, held, i, grams, added >>
  BY DEF Return, ReturnIc
<1>2. i = clen /\ grams = First(n(score), i - n(score) + 1) /\ added = i - n(score) + 1
  <2>1. n(score) \in 1 .. 3 /\ i \in n(score) - 1 .. clen
    BY <1>1, SizeFits DEF WalkInv, HeldBefore
  <2>2. i = clen
    BY <1>1, <2>1 DEF CT
  <2> QED
    BY <1>1, <2>2 DEF WalkInv, Covered
<1> QED
  BY <1>1, <1>2, ReturnKeeps

\* A vector, and the place of the next one.
LEMMA VectorKeeps ==
  ASSUME WalkInv, clen \in 3 .. CT, at = "vectors", NEW c \in 0 .. 16,
         i + c = clen - n(score) + 1 \/ (i + 16 <= clen - n(score) + 1 /\ c = 16),
         VectorOf(c), i' <= clen + 16,
         score = "bi" => i' <= clen - 1,
         fn = "ComputeTriscoreFromDecodedMsgSse2" => i' <= clen - 2
  PROVE  WalkInv'
<1> DEFINE m == n(score)
<1>1. m \in 1 .. 3 /\ i \in Nat /\ clen \in Nat
  BY SizeFits DEF WalkInv, CT
<1>2. Lanes(c) /\ i' = i + 16 /\ at' = "vectors"
  BY DEF VectorOf
<1>3. Covered = i
  BY <1>1 DEF Covered
<1>4. grams' = First(m, i + c) /\ added' = i + c /\ UNCHANGED << score, fn, clen, held >>
  BY <1>1, <1>2, <1>3, LanesKeep DEF WalkInv
<1>5. Covered' = i + c
  BY <1>1, <1>2, <1>4 DEF Covered
<1>6. i' \in 0 .. clen + 16
  BY <1>1, <1>2
<1> QED
  BY <1>2, <1>4, <1>5, <1>6 DEF WalkInv, FunctionFits

\* The vector that is the last one.
LEMMA TailKeeps ==
  ASSUME WalkInv, clen \in 3 .. CT, at = "vectors", NEW c \in Nat,
         IF i < clen - n(score) + 1 THEN i + c = clen - n(score) + 1 ELSE c = 0,
         TailOf(c)
  PROVE  WalkInv'
<1> DEFINE m == n(score)
<1>1. m \in 1 .. 3 /\ i \in Nat /\ clen \in Nat
  BY SizeFits DEF WalkInv, CT
<1>2. Lanes(c) /\ i' = i /\ at' = "done"
  BY DEF TailOf
<1>3. grams' = First(m, clen - m + 1) /\ added' = clen - m + 1 /\ UNCHANGED << score, fn, clen, held >>
  <2>1. CASE i < clen - m + 1
    <3>1. Covered = i
      BY <2>1 DEF Covered
    <3> QED
      BY <1>1, <1>2, <2>1, <3>1, LanesKeep DEF WalkInv
  <2>2. CASE ~ (i < clen - m + 1)
    <3>1. Covered = clen - m + 1 /\ c = 0
      BY <2>2 DEF Covered
    <3> DEFINE none == [j \in 1 .. 0 |-> [q \in 0 .. m - 1 |-> i + j - 1 + q]]
    <3>2. {none[j] : j \in DOMAIN none} = {}
      OBVIOUS
    <3>3. Len(none) = 0
      BY SMT
    <3>4. Lanes(0)
      BY <1>2, <3>1
    <3>5. grams' = grams /\ added' = added /\ UNCHANGED << score, fn, clen, held >>
      <4>1. AddFrom(i, 0) /\ UNCHANGED << score, fn, clen, held >>
        BY <3>4 DEF Lanes
      <4>2. added \in Int
        BY <1>1, <3>1 DEF WalkInv
      <4> QED
        BY <3>2, <3>3, <4>1, <4>2 DEF AddFrom, Add
    <3> QED
      BY <3>1, <3>5 DEF WalkInv
  <2> QED
    BY <2>1, <2>2
<1> QED
  BY <1>2, <1>3, ReturnKeeps

\* A block of any size lies within the message.
LEMMA WindowFits ==
  ASSUME WalkInv, clen \in 3 .. CT, NEW size \in {1, 4}, WindowBlock(size),
         size = 4 => i + 3 < clen
  PROVE  WalkInv'
<1>1. at = "letters" /\ i < clen
  BY DEF WindowBlock
<1>2. i + size <= clen
  BY <1>1 DEF WalkInv, CT
<1> QED
  BY <1>1, <1>2, LetterBlock

\* The functions of scoreBasic.c.
LEMMA BasicKeeps ==
  ASSUME WalkInv, clen \in 3 .. CT,
         triscoreBasic \/ biscoreBasic \/ uniscoreBasic \/ icscoreBasic
  PROVE  WalkInv'
<1>1. BasicBlock \/ Return \/ ReturnIc(IcSumBasic)
  BY DEF triscoreBasic, biscoreBasic, uniscoreBasic, icscoreBasic
<1>2. CASE BasicBlock
  BY <1>2, LetterBlock DEF BasicBlock
<1>3. CASE Return \/ ReturnIc(IcSumBasic)
  BY <1>3, LettersEnd
<1> QED
  BY <1>1, <1>2, <1>3

\* The functions of computeScoreNoInterleave.c, and those that count letters.
LEMMA NoInterleaveKeeps ==
  ASSUME WalkInv, clen \in 3 .. CT,
         \/ ComputeUniscoreFromDecodedMsg \/ ComputeBiscoreFromDecodedMsg
         \/ ComputeIcscoreFromDecodedMsgSsse3 \/ ComputeIcscoreFromDecodedMsgAvx2
  PROVE  WalkInv'
<1>1. \/ WindowBlock(1) \/ (i < clen - 3 /\ WindowBlock(4))
      \/ Return \/ ReturnIc(IcSumVector)
  <2>1. CASE ComputeUniscoreFromDecodedMsg
    BY <2>1 DEF ComputeUniscoreFromDecodedMsg
  <2>2. CASE ComputeBiscoreFromDecodedMsg
    BY <2>2 DEF ComputeBiscoreFromDecodedMsg
  <2>3. CASE ComputeIcscoreFromDecodedMsgSsse3
    BY <2>3 DEF ComputeIcscoreFromDecodedMsgSsse3, CountLetters
  <2>4. CASE ComputeIcscoreFromDecodedMsgAvx2
    BY <2>4 DEF ComputeIcscoreFromDecodedMsgAvx2, CountLetters
  <2> QED
    BY <2>1, <2>2, <2>3, <2>4
<1>2. CASE WindowBlock(1)
  BY <1>2, WindowFits
<1>3. CASE i < clen - 3 /\ WindowBlock(4)
  <2>1. i + 3 < clen
    BY <1>3 DEF WalkInv, CT
  <2> QED
    BY <1>3, <2>1, WindowFits
<1>4. CASE Return \/ ReturnIc(IcSumVector)
  BY <1>4, LettersEnd
<1> QED
  BY <1>1, <1>2, <1>3, <1>4

\* The trigrams of SSE2: whole vectors, and a tail of at most fifteen.
LEMMA TriSse2Keeps ==
  ASSUME WalkInv, clen \in 3 .. CT, ComputeTriscoreFromDecodedMsgSse2
  PROVE  WalkInv'
<1> DEFINE tail == clen - 2 - i
<1>1. /\ score = "tri" /\ n(score) = 3 /\ fn = "ComputeTriscoreFromDecodedMsgSse2"
      /\ i \in Nat /\ clen \in Nat /\ at # "letters"
  BY SizeFits DEF WalkInv, FunctionFits, Triples, ComputeTriscoreFromDecodedMsgSse2, CT
<1>2. CASE i + 15 < clen - 2 /\ VectorOf(16)
  <2>1. at = "vectors" /\ i' = i + 16
    BY <1>2 DEF VectorOf, Lanes
  <2>2. i' <= clen - 2 /\ i' <= clen + 16 /\ i + 16 <= clen - n(score) + 1
    BY <1>1, <1>2, <2>1
  <2> QED
    BY <1>1, <1>2, <2>1, <2>2, VectorKeeps
<1>3. CASE ~ (i + 15 < clen - 2) /\ TailOf(IF tail \in 1 .. 15 THEN tail ELSE 0)
  <2>1. at = "vectors"
    BY <1>3 DEF TailOf, Lanes
  <2>2. i <= clen - 2
    BY <1>1, <2>1 DEF WalkInv
  <2>3. tail \in 0 .. 15
    BY <1>1, <1>3, <2>2
  <2>4. TailOf(tail)
    BY <1>3, <2>3
  <2>5. tail \in Nat /\ IF i < clen - n(score) + 1 THEN i + tail = clen - n(score) + 1 ELSE tail = 0
    BY <1>1, <2>2, <2>3
  <2> HIDE DEF tail
  <2> QED
    BY <2>1, <2>4, <2>5, TailKeeps
<1> QED
  BY <1>2, <1>3 DEF ComputeTriscoreFromDecodedMsgSse2

\* The bits of a mask below the kth.
LEMMA CountedFromZero ==
  ASSUME NEW k \in Nat
  PROVE  Cardinality(0 .. k - 1) = k
BY FS_Interval

\* The trigrams of AVX2: under the mask as many lanes as are left.
LEMMA TriAvx2Keeps ==
  ASSUME WalkInv, clen \in 3 .. CT, ComputeTriscoreFromDecodedMsgAvx2
  PROVE  WalkInv'
<1> DEFINE tail == clen - 2 - i
           bits == {b \in 0 .. 15 : b < tail}
<1>1. /\ score = "tri" /\ n(score) = 3 /\ fn = "ComputeTriscoreFromDecodedMsgAvx2"
      /\ i \in Nat /\ clen \in Nat /\ clen - 2 \in Nat
  BY SizeFits DEF WalkInv, FunctionFits, Triples, ComputeTriscoreFromDecodedMsgAvx2, CT
<1>2. CASE i + 8 < clen - 2 /\ VectorOf(IF tail < 16 THEN Cardinality(bits) ELSE 16)
  <2> DEFINE c == IF tail < 16 THEN Cardinality(bits) ELSE 16
  <2>1. at = "vectors" /\ i' = i + 16
    BY <1>2 DEF VectorOf, Lanes
  <2>2. c \in 0 .. 16 /\ (i + c = clen - n(score) + 1 \/ (i + 16 <= clen - n(score) + 1 /\ c = 16))
    <3>1. CASE tail < 16
      <4>1. bits = 0 .. tail - 1 /\ tail \in 1 .. 15
        BY <1>1, <1>2, <3>1
      <4>2. Cardinality(0 .. tail - 1) = tail
        BY <4>1, CountedFromZero, SMTT(30)
      <4>3. c = tail
        BY <3>1, <4>1, <4>2
      <4>4. i + tail = clen - n(score) + 1
        BY <1>1
      <4>5. tail \in 0 .. 16
        BY <4>1
      <4> HIDE DEF c, tail
      <4>6. c \in 0 .. 16
        BY <4>3, <4>5
      <4> QED
        BY <4>3, <4>4, <4>6
    <3>2. CASE ~ (tail < 16)
      <4>1. c = 16
        BY <3>2
      <4> QED
        BY <1>1, <3>2, <4>1
    <3> QED
      BY <3>1, <3>2
  <2>3. VectorOf(c)
    BY <1>2
  <2>4. i' <= clen + 16
    BY <1>1, <1>2, <2>1
  <2> HIDE DEF c
  <2> QED
    BY <1>1, <2>1, <2>2, <2>3, <2>4, VectorKeeps
<1>3. CASE ~ (i + 8 < clen - 2) /\ TailOf(IF tail > 0 THEN Cardinality(bits \cap 0 .. 7) ELSE 0)
  <2> DEFINE c == IF tail > 0 THEN Cardinality(bits \cap 0 .. 7) ELSE 0
  <2>1. at = "vectors"
    BY <1>3 DEF TailOf, Lanes
  <2>2. c \in Nat /\ IF i < clen - n(score) + 1 THEN i + c = clen - n(score) + 1 ELSE c = 0
    <3>1. CASE tail > 0
      <4>1. tail \in 1 .. 8
        BY <1>1, <1>3, <3>1
      <4>2. bits \cap 0 .. 7 = 0 .. tail - 1
        BY <4>1
      <4>3. Cardinality(0 .. tail - 1) = tail
        BY <4>1, CountedFromZero
      <4>4. c = tail
        BY <3>1, <4>2, <4>3
      <4> QED
        BY <1>1, <4>1, <4>4
    <3>2. CASE ~ (tail > 0)
      <4>1. c = 0
        BY <3>2
      <4> QED
        BY <1>1, <3>2, <4>1
    <3> QED
      BY <3>1, <3>2
  <2>3. TailOf(c)
    BY <1>3
  <2> HIDE DEF c
  <2> QED
    BY <2>1, <2>2, <2>3, TailKeeps
<1> QED
  BY <1>2, <1>3 DEF ComputeTriscoreFromDecodedMsgAvx2

\* The bigrams of SSE2: whole vectors, then letters behind the last of them.
LEMMA BiSse2Keeps ==
  ASSUME WalkInv, clen \in 3 .. CT, ComputeBiscoreFromDecodedMsgSse2
  PROVE  WalkInv'
<1>1. /\ score = "bi" /\ n(score) = 2 /\ fn = "ComputeBiscoreFromDecodedMsgSse2"
      /\ i \in Nat /\ clen \in Nat
  BY SizeFits DEF WalkInv, FunctionFits, Triples, ComputeBiscoreFromDecodedMsgSse2, CT
<1>2. CASE i + 15 < clen - 1 /\ VectorOf(16)
  <2>1. at = "vectors" /\ i' = i + 16
    BY <1>2 DEF VectorOf, Lanes
  <2>2. i' <= clen - 1 /\ i' <= clen + 16 /\ i + 16 <= clen - n(score) + 1
    BY <1>1, <1>2, <2>1
  <2> QED
    BY <1>1, <1>2, <2>1, <2>2, VectorKeeps
<1>3. CASE /\ at = "vectors" /\ ~ (i + 15 < clen - 1)
           /\ at' = "letters" /\ held' = [held EXCEPT ![0] = i] /\ i' = i + 1
           /\ UNCHANGED << score, fn, text, clen, grams, added, f, result >>
  <2>1. i <= clen - 1
    BY <1>1, <1>3 DEF WalkInv
  <2>2. grams = First(2, i) /\ added = i /\ held \in [0 .. 1 -> 0 .. CT - 1]
    <3>1. Covered = IF i < clen - 1 THEN i ELSE clen - 1
      BY <1>1, <1>3 DEF Covered
    <3>2. Covered = i
      BY <1>1, <2>1, <3>1
    <3> QED
      BY <1>1, <3>2 DEF WalkInv
  <2>3. i \in 0 .. CT - 1
    BY <1>1, <2>1 DEF CT
  <2>4. held' \in [0 .. 1 -> 0 .. CT - 1] /\ held'[0] = i' - 1
    BY <1>1, <1>3, <2>2, <2>3
  <2>5. score' = score /\ fn' = fn /\ clen' = clen /\ n(score)' = 2 /\ Covered' = i
    BY <1>1, <1>3 DEF Covered
  <2>6. HeldBefore'
    <3>1. i' \in 1 .. clen
      BY <1>1, <1>3, <2>1
    <3>2. \A q \in 0 .. 0 : held'[q] = i' - 1 + q
      BY <1>1, <1>3, <2>4
    <3> QED
      BY <2>5, <3>1, <3>2 DEF HeldBefore
  <2>7. grams' = First(2, i) /\ added' = i /\ i' \in 0 .. clen + 16
    BY <1>1, <1>3, <2>1, <2>2
  <2>8. fn' \notin Triples /\ FunctionFits'
    BY <1>1, <2>5 DEF Triples, FunctionFits
  <2> QED
    BY <1>1, <1>3, <2>4, <2>5, <2>6, <2>7, <2>8 DEF WalkInv
<1>4. CASE i + 3 < clen /\ WindowBlock(4)
  BY <1>4, WindowFits
<1>5. CASE WindowBlock(1)
  BY <1>5, WindowFits
<1>6. CASE Return
  BY <1>6, LettersEnd
<1> QED
  BY <1>2, <1>3, <1>4, <1>5, <1>6 DEF ComputeBiscoreFromDecodedMsgSse2

\* A function that is called has covered no gram.
LEMMA CallStarts ==
  ASSUME clen \in 3 .. CT, NEW s, NEW function, Call(s, function),
         FunctionFits'
  PROVE  WalkInv'
<1>1. /\ score' = s /\ fn' = function /\ clen' = clen /\ grams' = {} /\ added' = 0
      /\ held' = [slot \in 0 .. n(s) - 1 |-> slot]
      /\ i' = IF at' = "letters" THEN n(s) - 1 ELSE 0
  BY DEF Call
<1>2. /\ at' \in {"letters", "vectors"}
      /\ at' = "vectors" <=> function \in Triples \cup {"ComputeBiscoreFromDecodedMsgSse2"}
  BY DEF Call, Triples
<1>3. n(s) \in 1 .. 3 /\ (s = "tri" <=> n(s) = 3) /\ (s = "bi" <=> n(s) = 2)
  BY <1>1 DEF FunctionFits, n
<1>4. clen \in Nat /\ 3 <= clen /\ CT = 250
  BY DEF CT
<1>5. Covered' = 0
  BY <1>1, <1>2, <1>3, <1>4 DEF Covered
<1>6. First(n(s), 0) = {}
  BY DEF First
<1>7. held' \in [0 .. n(s) - 1 -> 0 .. CT - 1] /\ i' \in 0 .. clen + 16
  <2>1. \A slot \in 0 .. n(s) - 1 : slot \in 0 .. CT - 1
    BY <1>3, <1>4
  <2>2. held' \in [0 .. n(s) - 1 -> 0 .. CT - 1]
    BY <1>1, <2>1
  <2>3. i' \in 0 .. clen + 16
    BY <1>1, <1>3, <1>4
  <2> QED
    BY <2>2, <2>3
<1>8. at' = "letters" => HeldBefore'
  BY <1>1, <1>3, <1>4 DEF HeldBefore
<1>9. at' = "vectors" => i' = 0 /\ i' <= clen - 1 /\ i' <= clen - 2
  BY <1>1, <1>4
<1> QED
  BY <1>1, <1>2, <1>5, <1>6, <1>7, <1>8, <1>9 DEF WalkInv

\* A step of any function.
LEMMA ComputeScoreKeeps ==
  ASSUME WalkInv, clen \in 3 .. CT, ComputeScore
  PROVE  WalkInv' /\ clen' = clen /\ score' = score
<1>1. WalkInv'
  <2>1. CASE triscoreBasic \/ biscoreBasic \/ uniscoreBasic \/ icscoreBasic
    BY <2>1, BasicKeeps
  <2>2. CASE \/ ComputeUniscoreFromDecodedMsg \/ ComputeBiscoreFromDecodedMsg
             \/ ComputeIcscoreFromDecodedMsgSsse3 \/ ComputeIcscoreFromDecodedMsgAvx2
    BY <2>2, NoInterleaveKeeps
  <2>3. CASE ComputeTriscoreFromDecodedMsgSse2
    BY <2>3, TriSse2Keeps
  <2>4. CASE ComputeTriscoreFromDecodedMsgAvx2
    BY <2>4, TriAvx2Keeps
  <2>5. CASE ComputeBiscoreFromDecodedMsgSse2
    BY <2>5, BiSse2Keeps
  <2> QED
    BY <2>1, <2>2, <2>3, <2>4, <2>5 DEF ComputeScore
<1>2. clen' = clen /\ score' = score
  <2>1. \A size : WindowBlock(size) => UNCHANGED << clen, score >>
    BY DEF WindowBlock
  <2>2. \A c : (VectorOf(c) \/ TailOf(c)) => UNCHANGED << clen, score >>
    BY DEF VectorOf, TailOf, Lanes
  <2>3. BasicBlock => UNCHANGED << clen, score >>
    BY DEF BasicBlock
  <2>4. \A sum : (Return \/ ReturnIc(sum)) => UNCHANGED << clen, score >>
    BY DEF Return, ReturnIc
  <2>5. CASE triscoreBasic \/ biscoreBasic \/ uniscoreBasic \/ icscoreBasic
    BY <2>3, <2>4, <2>5 DEF triscoreBasic, biscoreBasic, uniscoreBasic, icscoreBasic
  <2>6. CASE ComputeUniscoreFromDecodedMsg \/ ComputeBiscoreFromDecodedMsg
    BY <2>1, <2>4, <2>6 DEF ComputeUniscoreFromDecodedMsg, ComputeBiscoreFromDecodedMsg
  <2>7. CASE ComputeIcscoreFromDecodedMsgSsse3 \/ ComputeIcscoreFromDecodedMsgAvx2
    BY <2>1, <2>4, <2>7 DEF CountLetters, ComputeIcscoreFromDecodedMsgSsse3,
                            ComputeIcscoreFromDecodedMsgAvx2
  <2>8. CASE ComputeTriscoreFromDecodedMsgSse2
    BY <2>2, <2>8 DEF ComputeTriscoreFromDecodedMsgSse2
  <2>9. CASE ComputeTriscoreFromDecodedMsgAvx2
    BY <2>2, <2>9 DEF ComputeTriscoreFromDecodedMsgAvx2
  <2>10. CASE ComputeBiscoreFromDecodedMsgSse2
    BY <2>1, <2>2, <2>4, <2>10 DEF ComputeBiscoreFromDecodedMsgSse2
  <2> QED
    BY <2>5, <2>6, <2>7, <2>8, <2>9, <2>10 DEF ComputeScore
<1> QED
  BY <1>1, <1>2

-----------------------------------------------------------------------------
(* The program.                                                            *)

\* The function of a score on any processor is one that computes it.
LEMMA AnyFunctionFits ==
  ASSUME NEW s \in Asked
  PROVE  \/ s = "tri" /\ FunctionOf(s) \in {"triscoreBasic"} \cup Triples
         \/ s = "bi"  /\ FunctionOf(s) \in {"biscoreBasic", "ComputeBiscoreFromDecodedMsgSse2",
                                            "ComputeBiscoreFromDecodedMsg"}
         \/ s = "uni" /\ FunctionOf(s) \in {"uniscoreBasic", "ComputeUniscoreFromDecodedMsg"}
         \/ s = "ic"  /\ FunctionOf(s) \in {"icscoreBasic", "ComputeIcscoreFromDecodedMsgSsse3",
                                            "ComputeIcscoreFromDecodedMsgAvx2"}
<1>1. s \in {"tri", "bi", "uni", "ic"}
  BY DEF Asked
<1>2. enigma_score_init(cpu) \in {"basic", "ssse3", "avx", "avx2"}
  BY DEF enigma_score_init
<1>3. CASE enigma_score_init(cpu) = "basic"
  BY <1>1, <1>3 DEF FunctionOf, enigmaScoreBasic
<1>4. CASE enigma_score_init(cpu) \in {"ssse3", "avx"}
  BY <1>1, <1>4 DEF FunctionOf, enigmaScoreSsse3, enigmaScoreAvx, Triples
<1>5. CASE enigma_score_init(cpu) = "avx2"
  BY <1>1, <1>5 DEF FunctionOf, enigmaScoreAvx2, Triples
<1> QED
  BY <1>2, <1>3, <1>4, <1>5

\* The start of the program.
LEMMA ScoringInvInit == Init => ScoringInv
BY DEF Init, ScoringInv, MainInv

\* Every step keeps what is true between two steps.
LEMMA ScoringInvStep == ScoringInv /\ [Next]_vars => ScoringInv'
<1> SUFFICES ASSUME ScoringInv, [Next]_vars
             PROVE  ScoringInv'
  OBVIOUS
<1>0. MainInv /\ (step = "score" => score \in Asked /\ WalkInv)
  BY DEF ScoringInv
<1>1. CASE enigma_cpu_flags_init
  <2>1. CASE Exit
    BY <1>0, <1>1, <2>1 DEF enigma_cpu_flags_init, Exit, dictVars, ScoringInv, MainInv
  <2>2. CASE ~ Exit
    <3>1. /\ cpu' = get_hardware_supported_cpu_flags(job.hw) /\ step' = "tri"
          /\ UNCHANGED << job, loaded, dictVars >>
      BY <1>1, <2>2 DEF enigma_cpu_flags_init
    <3>2. cpu' \subseteq {"ssse3", "avx", "avx2"}
      BY <3>1 DEF get_hardware_supported_cpu_flags
    <3> QED
      BY <1>0, <3>1, <3>2 DEF dictVars, ScoringInv, MainInv
  <2> QED
    BY <2>1, <2>2
<1>2. CASE Open
  <2>1. step' # "score"
    BY <1>2 DEF Open, Exit, main
  <2> QED
    BY <1>0, <1>2, <2>1 DEF Open, Opened, Exit, main, walk, dictVars, ScoringInv, MainInv
<1>3. CASE ReadLine
  <2>1. UNCHANGED << job, step, cpu, loaded, dict, walk >>
    BY <1>3 DEF ReadLine, read_line, main
  <2> QED
    BY <1>0, <2>1 DEF ScoringInv, MainInv, WalkInv, FunctionFits, Covered, HeldBefore, Asked, walk
<1>4. CASE Refuse
  BY <1>0, <1>4 DEF Refuse, Exit, dictVars, ScoringInv, MainInv
<1>5. CASE Loaded
  <2>1. dict \in {"tri", "bi", "uni"}
    BY <1>0, <1>5 DEF Loaded, EndOfFile, MainInv
  <2>2. step' \in {"bi", "uni", "ciphertext"}
    BY <1>5 DEF Loaded, secondDict
  <2> QED
    BY <1>0, <1>5, <2>1, <2>2 DEF Loaded, ScoringInv, MainInv
<1>6. CASE load_ciphertext
  <2>1. CASE step' = "exit"
    BY <1>0, <1>6, <2>1 DEF load_ciphertext, Exit, dictVars, ScoringInv, MainInv
  <2>2. CASE step' # "exit"
    <3>1. /\ job.letters >= 3 /\ clen' = UsedLength(job.letters) /\ step' = "optimize"
          /\ UNCHANGED << job, cpu, loaded, dictVars >>
      BY <1>6, <2>2 DEF load_ciphertext, Exit
    <3>2. job.letters \in 0 .. 2048
      BY <1>0, JobsAssumption DEF MainInv
    <3>3. clen' \in 3 .. CT
      <4>1. PICK letters \in 0 .. 2048 : letters = job.letters
        BY <3>2
      <4>2. letters \in Nat /\ letters >= 3
        BY <3>1, <4>1
      <4>3. UsedLength(letters) \in 3 .. CT
        BY <4>2 DEF UsedLength, CT
      <4>4. clen' = UsedLength(letters)
        BY <3>1, <4>1
      <4> QED
        BY <4>3, <4>4
    <3> QED
      BY <1>0, <3>1, <3>3 DEF dictVars, ScoringInv, MainInv
  <2> QED
    BY <2>1, <2>2
<1>7. CASE optimizeScore
  <2>1. /\ step = "optimize" /\ step' = "score" /\ UNCHANGED << job, cpu, loaded, dictVars >>
    BY <1>7 DEF optimizeScore
  <2>2. PICK s \in Asked : Call(s, FunctionOf(s))
    BY <1>7 DEF optimizeScore
  <2>3. score' = s /\ fn' = FunctionOf(s) /\ clen' = clen
    BY <2>2 DEF Call
  <2>4. FunctionFits'
    BY <2>3, AnyFunctionFits DEF FunctionFits, Triples
  <2>5. clen \in 3 .. CT
    BY <1>0, <2>1 DEF MainInv
  <2>6. WalkInv'
    BY <2>2, <2>4, <2>5, CallStarts
  <2>7. score' \in Asked'
    BY <2>1, <2>3 DEF Asked
  <2> QED
    BY <1>0, <2>1, <2>3, <2>5, <2>6, <2>7 DEF dictVars, ScoringInv, MainInv
<1>8. CASE Score
  <2>1. step = "score" /\ ComputeScore /\ UNCHANGED << job, step, cpu, loaded, dictVars >>
    BY <1>8 DEF Score, main
  <2>2. clen \in 3 .. CT
    BY <1>0, <2>1 DEF MainInv
  <2>3. WalkInv' /\ clen' = clen /\ score' = score
    BY <1>0, <2>1, <2>2, ComputeScoreKeeps
  <2>4. score' \in Asked'
    BY <1>0, <2>1, <2>3 DEF Asked
  <2> QED
    BY <1>0, <2>1, <2>3, <2>4 DEF dictVars, ScoringInv, MainInv
<1>9. CASE UNCHANGED vars
  BY <1>0, <1>9 DEF vars, main, dictVars, walk, ScoringInv, MainInv, WalkInv, FunctionFits,
                    Covered, HeldBefore, Asked
<1> QED
  BY <1>1, <1>2, <1>3, <1>4, <1>5, <1>6, <1>7, <1>8, <1>9 DEF Next

\* The invariant holds in every behaviour of the program.
LEMMA ScoringInvariant == Spec => []ScoringInv
BY ScoringInvInit, ScoringInvStep, PTL DEF Spec

\* The variables keep their types, and no score is asked for of fewer letters
\* than a trigram has or of more than the arrays hold, whatever the files hold.
THEOREM TypeCorrect == Spec => []TypeOK
<1>1. ScoringInv => TypeOK
  <2> SUFFICES ASSUME ScoringInv
               PROVE  TypeOK
    OBVIOUS
  <2>1. MainInv /\ (step = "score" => score \in Asked /\ WalkInv)
    BY DEF ScoringInv
  <2>2. step = "score" => \A slot \in DOMAIN held : held[slot] \in 0 .. CT - 1
    BY <2>1 DEF WalkInv
  <2> QED
    BY <2>1, <2>2 DEF TypeOK, MainInv, WalkInv
<1> QED
  BY <1>1, ScoringInvariant, PTL

\* On every processor, for every call, every length of the message and every
\* score: what is added are the n letters in a row of the message, each gram
\* once, and in the end all of them.
THEOREM EachGramOnce == Spec => []GramsScoredOnce
<1>1. ScoringInv => GramsScoredOnce
  <2> SUFFICES ASSUME ScoringInv, step = "score"
               PROVE  LET all == {[q \in 0 .. n(score) - 1 |-> p + q] : p \in 0 .. clen - n(score)}
                      IN /\ grams \subseteq all /\ added = Cardinality(grams)
                         /\ at = "done" => grams = all
    BY DEF GramsScoredOnce
  <2> DEFINE m == n(score)
  <2>1. WalkInv /\ clen \in 3 .. CT
    BY DEF ScoringInv, MainInv
  <2>2. m \in 1 .. 3 /\ i \in Nat /\ clen \in Nat /\ clen >= 3
    BY <2>1, SizeFits DEF WalkInv, CT
  <2>3. Covered \in 0 .. clen - m + 1
    <3>1. CASE at = "letters"
      <4>1. i \in m - 1 .. clen
        BY <2>1, <3>1 DEF WalkInv, HeldBefore
      <4> QED
        BY <2>2, <3>1, <4>1 DEF Covered
    <3>2. CASE at # "letters"
      BY <2>2, <3>2 DEF Covered
    <3> QED
      BY <3>1, <3>2
  <2>4. grams = First(m, Covered) /\ added = Covered
    BY <2>1 DEF WalkInv
  <2>5. First(m, Covered) \subseteq First(m, clen - m + 1)
    <3> DEFINE last == clen - m + 1
    <3>1. 0 .. Covered - 1 \subseteq 0 .. last - 1
      BY <2>2, <2>3
    <3> HIDE DEF last, m
    <3>2. First(m, Covered) \subseteq First(m, last)
      BY <3>1 DEF First
    <3> QED
      BY <3>2 DEF last
  <2>6. added = Cardinality(grams)
    <3>1. Covered \in Nat
      BY <2>2, <2>3
    <3> QED
      BY <2>2, <2>4, <3>1, FirstCounted
  <2>7. at = "done" => Covered = clen - m + 1
    BY DEF Covered
  <2>8. First(m, clen - m + 1) = {[q \in 0 .. m - 1 |-> p + q] : p \in 0 .. clen - m}
    <3> DEFINE last == clen - m + 1
    <3>1. 0 .. last - 1 = 0 .. clen - m
      BY <2>2
    <3> HIDE DEF last, m
    <3>2. First(m, last) = {Gram(m, p) : p \in 0 .. clen - m}
      BY <3>1 DEF First
    <3>3. {Gram(m, p) : p \in 0 .. clen - m} = {[q \in 0 .. m - 1 |-> p + q] : p \in 0 .. clen - m}
      BY DEF Gram
    <3> QED
      BY <3>2, <3>3 DEF last
  <2> QED
    BY <2>4, <2>5, <2>6, <2>7, <2>8
<1> QED
  BY <1>1, ScoringInvariant, PTL

-----------------------------------------------------------------------------
(* What a file says: keys and numbers, read from its beginning.            *)

\* A set of numbers up to a size that has a member has a greatest one.
LEMMA GreatestExists ==
  ASSUME NEW size \in Nat, NEW S \in SUBSET (1 .. size), S # {}
  PROVE  Max(S) \in S /\ \A y \in S : Max(S) >= y
<1> DEFINE Has(T) == \E m \in T : \A y \in T : m >= y
           P == {k \in Nat : \A T \in SUBSET (1 .. k) : T # {} => Has(T)}
<1>1. 0 \in P
  <2>1. 1 .. 0 = {}
    OBVIOUS
  <2> QED
    BY <2>1
<1>2. ASSUME NEW k \in Nat, k \in P PROVE k + 1 \in P
  <2>1. ASSUME NEW T \in SUBSET (1 .. k + 1), T # {} PROVE Has(T)
    <3>1. CASE k + 1 \in T
      BY <3>1
    <3>2. CASE k + 1 \notin T
      <4>1. T \in SUBSET (1 .. k)
        BY <3>2
      <4> QED
        BY <1>2, <2>1, <4>1
    <3> QED
      BY <3>1, <3>2
  <2> QED
    BY <1>2, <2>1
<1> HIDE DEF P
<1>3. Nat \subseteq P
  BY <1>1, <1>2, KT!InductionOnNat
<1>4. size \in P
  BY <1>3
<1>5. Has(S)
  BY <1>4 DEF P
<1> QED
  BY <1>5, Zenon DEF Max

\* The greatest member.
LEMMA GreatestIs ==
  ASSUME NEW size \in Nat, NEW S \in SUBSET (1 .. size), NEW m \in S, \A y \in S : m >= y
  PROVE  Max(S) = m
<1>1. Max(S) \in S /\ \A y \in S : Max(S) >= y
  BY GreatestExists
<1>2. PICK x \in 1 .. size : x = Max(S)
  BY <1>1
<1> QED
  BY <1>1, <1>2

LEMMA SmallerOfSame ==
  ASSUME NEW w \in Nat
  PROVE  Min({w, w}) = w
BY DEF Min

LEMMA WordsBehind ==
  ASSUME NEW W, NEW file \in Seq(W), NEW m \in 1 .. Len(file)
  PROVE  /\ SubSeq(file, m, Len(file)) # << >>
         /\ Head(SubSeq(file, m, Len(file))) = file[m]
         /\ Tail(SubSeq(file, m, Len(file))) = SubSeq(file, m + 1, Len(file))
         /\ SubSeq(file, m, Len(file)) \in Seq(W)
<1> DEFINE s == SubSeq(file, m, Len(file))
           t == SubSeq(file, m + 1, Len(file))
<1>1. s \in Seq(W) /\ Len(s) = Len(file) - m + 1 /\ \A j \in 1 .. Len(s) : s[j] = file[m + j - 1]
  OBVIOUS
<1>2. t \in Seq(W) /\ Len(t) = Len(file) - m /\ \A j \in 1 .. Len(t) : t[j] = file[m + 1 + j - 1]
  OBVIOUS
<1> HIDE DEF s, t
<1>3. s # << >> /\ Head(s) = file[m]
  BY <1>1
<1>4. Tail(s) \in Seq(W) /\ Len(Tail(s)) = Len(s) - 1 /\ \A j \in 1 .. Len(s) - 1 : Tail(s)[j] = s[j + 1]
  BY <1>1, <1>3, HeadTailProperties
<1>5. Len(Tail(s)) = Len(t) /\ \A j \in 1 .. Len(t) : Tail(s)[j] = t[j]
  <2>1. PICK size \in Nat : size = Len(file) /\ m \in 1 .. size
    OBVIOUS
  <2>2. Len(s) = size - m + 1 /\ Len(t) = size - m /\ Len(Tail(s)) = Len(s) - 1
    BY <1>1, <1>2, <1>4, <2>1
  <2>3. Len(Tail(s)) = Len(t)
    BY <2>1, <2>2
  <2>4. ASSUME NEW j \in 1 .. Len(t) PROVE Tail(s)[j] = t[j]
    <3>1. j \in 1 .. size - m /\ j \in 1 .. Len(s) - 1 /\ j + 1 \in 1 .. Len(s)
      BY <2>1, <2>2
    <3>2. Tail(s)[j] = s[j + 1]
      BY <1>4, <3>1
    <3>3. s[j + 1] = file[m + (j + 1) - 1]
      BY <1>1, <3>1
    <3>4. t[j] = file[m + 1 + j - 1]
      BY <1>2
    <3>5. m + (j + 1) - 1 = m + 1 + j - 1
      BY <2>1, <3>1
    <3> QED
      BY <3>2, <3>3, <3>4, <3>5
  <2> QED
    BY <2>3, <2>4
<1>6. Tail(s) = t
  <2> DEFINE u == Tail(s)
  <2>1. u \in Seq(W) /\ t \in Seq(W) /\ Len(u) = Len(t) /\ \A j \in 1 .. Len(u) : u[j] = t[j]
    BY <1>2, <1>4, <1>5
  <2> HIDE DEF u
  <2>2. u = t
    BY <2>1, SeqEqual
  <2> QED
    BY <2>2 DEF u
<1> QED
  BY <1>1, <1>3, <1>6 DEF s, t

Dicts == {"tri", "bi", "uni"}


\* What can stand where in a file of whole keys
LEMMA WordsOfFile ==
  ASSUME NEW d \in Dicts, NEW file \in Seq(Words), Readable(d, file), NEW p \in 1 .. Len(file)
  PROVE  /\ Width(d) \in 1 .. 3
         /\ NumberWord(file[p]) => p > 1 /\ ~ NumberWord(file[p - 1])
         /\ ~ NumberWord(file[p]) => /\ Len(file[p].text) = Width(d)
                                     /\ \A q \in 1 .. Width(d) : file[p].text[q] \in Alphabet
<1>1. Width(d) \in 1 .. 3
  BY DEF Width, Dicts
<1>2. p \in DOMAIN file
  OBVIOUS
<1> QED
  BY <1>1, <1>2 DEF Readable

\* The last number, a word further
LEMMA LastNumberNext ==
  ASSUME NEW file \in Seq(Words), NEW p \in Nat
  PROVE  /\ p \in 1 .. Len(file) /\ NumberWord(file[p]) => LastNumber(file, p) = file[p].num
         /\ p >= Len(file) \/ ~ NumberWord(file[p + 1]) =>
              LastNumber(file, p + 1) = LastNumber(file, p)
         /\ LastNumber(file, 0) = 0
<1> DEFINE Numbers(k) == {q \in DOMAIN file : q <= k /\ NumberWord(file[q])}
<1>1. PICK size \in Nat : size = Len(file) /\ DOMAIN file = 1 .. size
  OBVIOUS
<1>2. \A k : LastNumber(file, k) = IF Numbers(k) = {} THEN 0 ELSE file[Max(Numbers(k))].num
  BY DEF LastNumber
<1>3. ASSUME p \in 1 .. Len(file), NumberWord(file[p])
      PROVE  LastNumber(file, p) = file[p].num
  <2>1. Numbers(p) \in SUBSET (1 .. size) /\ p \in Numbers(p) /\ \A y \in Numbers(p) : p >= y
    BY <1>1, <1>3
  <2> HIDE DEF Numbers
  <2>2. Max(Numbers(p)) = p
    BY <2>1, GreatestIs
  <2>3. Numbers(p) # {}
    BY <2>1
  <2> QED
    BY <1>2, <2>2, <2>3
<1>4. ASSUME p >= Len(file) \/ ~ NumberWord(file[p + 1])
      PROVE  LastNumber(file, p + 1) = LastNumber(file, p)
  <2>1. ASSUME NEW q \in 1 .. size, q <= p + 1, NumberWord(file[q]) PROVE q <= p
    <3>1. q # p + 1
      BY <1>1, <1>4, <2>1
    <3> QED
      BY <2>1, <3>1
  <2>2. Numbers(p + 1) = Numbers(p)
    <3>1. \A q \in 1 .. size : q <= p => q <= p + 1
      OBVIOUS
    <3> QED
      BY <1>1, <2>1, <3>1
  <2> HIDE DEF Numbers
  <2> QED
    BY <1>2, <2>2
<1>5. LastNumber(file, 0) = 0
  <2>1. Numbers(0) = {}
    BY <1>1
  <2> HIDE DEF Numbers
  <2> QED
    BY <1>2, <2>1
<1> QED
  BY <1>3, <1>4, <1>5

\* What the first m words say: the last line with a key counts.
KeyPlaces(file, m) == {p \in 1 .. m : ~ NumberWord(file[p])}
PlacesOf(file, m, key) == {p \in KeyPlaces(file, m) : file[p].text = key}
WrittenBy(file, m) ==
  [key \in {file[p].text : p \in KeyPlaces(file, m)} |->
     LastNumber(file, Max(PlacesOf(file, m, key)) + 1)]

LEMMA WrittenByAll ==
  ASSUME NEW file \in Seq(Words)
  PROVE  Written(file) = WrittenBy(file, Len(file))
<1>1. DOMAIN file = 1 .. Len(file)
  OBVIOUS
<1>2. {p \in DOMAIN file : ~ NumberWord(file[p])} = KeyPlaces(file, Len(file))
  BY <1>1 DEF KeyPlaces
<1> QED
  BY <1>2 DEF Written, WrittenBy, PlacesOf

\* A line that is stored makes of what the lines before it say what they say
\* together with it.
LEMMA WrittenNext ==
  ASSUME NEW file \in Seq(Words), NEW m \in Nat, m + 1 <= Len(file), ~ NumberWord(file[m + 1]),
         NEW t \in {m + 1, m + 2}, t = m + 2 => NumberWord(file[m + 2])
  PROVE  WrittenBy(file, t)
           = Stored(WrittenBy(file, m), file[m + 1].text, LastNumber(file, m + 2))
<1> DEFINE new == file[m + 1].text
           v == WrittenBy(file, m)
           w == WrittenBy(file, t)
<1>1. KeyPlaces(file, t) = KeyPlaces(file, m) \cup {m + 1}
  <2>1. 1 .. t = 1 .. m \cup {m + 1} \/ (t = m + 2 /\ 1 .. t = 1 .. m \cup {m + 1, m + 2})
    OBVIOUS
  <2> QED
    BY <2>1 DEF KeyPlaces
<1>2. m + 1 \notin KeyPlaces(file, m) /\ KeyPlaces(file, m) \in SUBSET (1 .. m)
  BY DEF KeyPlaces
<1>3. {file[p].text : p \in KeyPlaces(file, t)} = {file[p].text : p \in KeyPlaces(file, m)} \cup {new}
  BY <1>1
<1>4. DOMAIN v = {file[p].text : p \in KeyPlaces(file, m)}
  BY DEF WrittenBy
<1>5. w = [key \in DOMAIN v \cup {new} |-> LastNumber(file, Max(PlacesOf(file, t, key)) + 1)]
  BY <1>3, <1>4 DEF WrittenBy
<1>6. Max(PlacesOf(file, t, new)) = m + 1
  <2>1. /\ PlacesOf(file, t, new) \in SUBSET (1 .. m + 1) /\ m + 1 \in PlacesOf(file, t, new)
        /\ \A y \in PlacesOf(file, t, new) : m + 1 >= y
    BY <1>1, <1>2 DEF PlacesOf
  <2>2. m + 1 \in Nat
    OBVIOUS
  <2> HIDE DEF new
  <2> QED
    BY <2>1, <2>2, GreatestIs
<1>7. ASSUME NEW key, key # new
      PROVE  PlacesOf(file, t, key) = PlacesOf(file, m, key)
  BY <1>1, <1>7 DEF PlacesOf
<1>8. \A key \in DOMAIN v : v[key] = LastNumber(file, Max(PlacesOf(file, m, key)) + 1)
  BY DEF WrittenBy
<1>9. (m + 1) + 1 = m + 2
  OBVIOUS
<1> HIDE DEF v, w, new
<1>10. \A key \in DOMAIN v \cup {new} :
         LastNumber(file, Max(PlacesOf(file, t, key)) + 1)
           = IF key = new THEN LastNumber(file, m + 2) ELSE v[key]
  <2> SUFFICES ASSUME NEW key \in DOMAIN v \cup {new}
               PROVE  LastNumber(file, Max(PlacesOf(file, t, key)) + 1)
                        = IF key = new THEN LastNumber(file, m + 2) ELSE v[key]
    OBVIOUS
  <2>1. CASE key = new
    BY <1>6, <1>9, <2>1
  <2>2. CASE key # new
    BY <1>7, <1>8, <2>2
  <2> QED
    BY <2>1, <2>2
<1>11. w = [key \in DOMAIN v \cup {new} |-> IF key = new THEN LastNumber(file, m + 2) ELSE v[key]]
  BY <1>5, <1>10
<1> QED
  BY <1>11 DEF Stored, v, w, new

\* Nothing has been read.
LEMMA WrittenNothing ==
  ASSUME NEW file \in Seq(Words)
  PROVE  WrittenBy(file, 0) = << >>
<1>1. KeyPlaces(file, 0) = {}
  BY DEF KeyPlaces
<1>2. {file[p].text : p \in KeyPlaces(file, 0)} = {}
  BY <1>1
<1>3. WrittenBy(file, 0) = [key \in {} |-> LastNumber(file, Max(PlacesOf(file, 0, key)) + 1)]
  BY <1>2 DEF WrittenBy
<1> QED
  BY <1>3

-----------------------------------------------------------------------------
(* Loading.                                                                *)

\* The next line of a file of whole keys: the key is taken as it is.
LEMMA ReadableLine ==
  ASSUME NEW file \in Seq(Words), dict \in Dicts, Readable(dict, file),
         NEW m \in 0 .. Len(file), rest = SubSeq(file, m + 1, Len(file)), rest # << >>,
         m < Len(file) => ~ NumberWord(file[m + 1])
  PROVE  /\ m + 1 \in 1 .. Len(file)
         /\ ~ Rejects(KeyRead) /\ KeyRead = file[m + 1].text
         /\ BehindKey = SubSeq(file, m + 2, Len(file))
<1> DEFINE width == Width(dict)
           p == m + 1
           key == file[p].text
<1>1. p \in 1 .. Len(file)
  <2>1. CASE m = Len(file)
    <3>1. rest = << >>
      BY <2>1
    <3> QED
      BY <3>1
  <2>2. CASE m < Len(file)
    BY <2>2
  <2> QED
    BY <2>1, <2>2
<1>2. ~ NumberWord(file[p])
  BY <1>1
<1>3. width \in 1 .. 3 /\ Len(key) = width /\ \A q \in 1 .. width : key[q] \in Alphabet
  BY <1>1, <1>2, WordsOfFile
<1>5. key \in Seq(STRING)
  <2>1. file[p] \in Words
    BY <1>1
  <2> QED
    BY <2>1 DEF Words
<1>6. Head(rest) = file[p] /\ Tail(rest) = SubSeq(file, p + 1, Len(file))
  BY <1>1, WordsBehind
<1> HIDE DEF width
<1>8. KeyRead = key
  <2>1. Min({Width(dict), Len(Head(rest).text)}) = width
    <3>1. Len(Head(rest).text) = width
      BY <1>3, <1>6
    <3>2. Min({width, width}) = width
      BY <1>3, SmallerOfSame
    <3> QED
      BY <3>1, <3>2 DEF width
  <2>2. KeyRead = SubSeq(key, 1, width)
    BY <1>6, <2>1 DEF KeyRead
  <2> HIDE DEF key
  <2>3. SubSeq(key, 1, width) = key
    BY <1>3, <1>5
  <2> QED
    BY <2>2, <2>3
<1>9. BehindKey = Tail(rest)
  <2> HIDE DEF key
  <2>1. SubSeq(key, width + 1, width) = << >>
    BY <1>3, <1>5
  <2>2. SubSeq(Head(rest).text, Width(dict) + 1, Len(Head(rest).text)) = << >>
    BY <1>3, <1>6, <2>1 DEF width, key
  <2> QED
    BY <2>2 DEF BehindKey
<1>10. ~ Rejects(KeyRead)
  <2>1. DOMAIN key = 1 .. width
    BY <1>3, <1>5
  <2> HIDE DEF key
  <2> QED
    BY <1>3, <1>8, <2>1 DEF Rejects, width
<1>12. p + 1 = m + 2
  OBVIOUS
<1> HIDE DEF p
<1> QED
  BY <1>1, <1>6, <1>8, <1>9, <1>10, <1>12 DEF p

\* Whatever the file holds, what is left to be read are words.
LEMMA RestStaysWords ==
  ASSUME rest \in Seq(Words), rest # << >>, dict \in Dicts, value \in Int, read_line
  PROVE  rest' \in Seq(Words) /\ value' \in Int
<1>1. Head(rest) \in Words /\ Tail(rest) \in Seq(Words)
  BY HeadTailProperties
<1> DEFINE left == SubSeq(Head(rest).text, Width(dict) + 1, Len(Head(rest).text))
           word == [Head(rest) EXCEPT !.text = left]
<1>2. left \in Seq(STRING)
  <2>1. PICK t \in Seq(STRING) : t = Head(rest).text
    BY <1>1 DEF Words
  <2>2. PICK w \in 1 .. 3 : w = Width(dict)
    BY DEF Width, Dicts
  <2>3. SubSeq(t, w + 1, Len(t)) \in Seq(STRING)
    OBVIOUS
  <2> QED
    BY <2>1, <2>2, <2>3
<1> HIDE DEF left
<1>3. word \in Words
  BY <1>1, <1>2 DEF Words
<1> HIDE DEF word
<1>4. BehindKey \in Seq(Words)
  <2>1. BehindKey = IF left = << >> THEN Tail(rest) ELSE << word >> \o Tail(rest)
    BY DEF BehindKey, left, word
  <2>2. << word >> \in Seq(Words)
    BY <1>3
  <2>3. << word >> \o Tail(rest) \in Seq(Words)
    BY <1>1, <2>2, ConcatProperties
  <2> QED
    BY <1>1, <2>1, <2>3
<1> DEFINE number == BehindKey # << >> /\ NumberWord(Head(BehindKey))
<1>5. /\ value' = IF number THEN Head(BehindKey).num ELSE value
      /\ rest' = IF number THEN Tail(BehindKey) ELSE BehindKey
  BY DEF read_line
<1>6. CASE number
  <2>1. Head(BehindKey) \in Words /\ Tail(BehindKey) \in Seq(Words)
    BY <1>4, <1>6, HeadTailProperties
  <2>2. Head(BehindKey).num \in Int
    BY <2>1 DEF Words
  <2> QED
    BY <1>5, <1>6, <2>1, <2>2
<1>7. CASE ~ number
  BY <1>4, <1>5, <1>7
<1> QED
  BY <1>6, <1>7

\* Every key stored is one of the dictionary.
KeysFit(d) ==
  \A key \in DOMAIN tables[d] :
    Len(key) = Width(d) /\ \A q \in DOMAIN key : key[q] \in Alphabet

\* The dictionaries are loaded one after the other.
InTurn ==
  /\ step = "cpu" => dict = "none" /\ loaded = {}
  /\ step = "tri" => dict \in {"none", "tri"} /\ loaded = {}
  /\ step \in {"bi", "uni"} =>
       step = secondDict /\ dict \in {"none", step} /\ loaded = {"tri"}
  /\ step \in {"ciphertext", "optimize", "score"} =>
       dict = "none" /\ loaded = {"tri", secondDict}

\* So many words have been read, up to the end of a line, and the table holds what
\* they say.
ReadSoFar(file) ==
  \E m \in 0 .. Len(file) :
    /\ rest = SubSeq(file, m + 1, Len(file))
    /\ m < Len(file) => ~ NumberWord(file[m + 1])
    /\ tables[dict] = WrittenBy(file, m)
    /\ value = LastNumber(file, m)

LoadInv ==
  /\ rest \in Seq(Words) /\ value \in Int
  /\ DOMAIN tables = Dicts /\ \A d \in Dicts : KeysFit(d)
  /\ InTurn
  /\ \A d \in Dicts \ (loaded \cup {dict}) : tables[d] = << >>
  /\ \A d \in loaded : Readable(d, FileOf(d)) => tables[d] = Written(FileOf(d))
  /\ dict # "none" /\ Readable(dict, FileOf(dict)) => step # "exit" /\ ReadSoFar(FileOf(dict))

\* The files of a job are words.
LEMMA FilesAreWords ==
  ASSUME job \in Jobs, NEW d
  PROVE  FileOf(d) \in Seq(Words)
BY JobsAssumption DEF FileOf

\* What the actions that load nothing leave as it is.
LEMMA NothingLoads ==
  ASSUME LoadInv, UNCHANGED << job, loaded, tables, dict, rest, value >>,
         InTurn', dict = "none" \/ step' = step
  PROVE  LoadInv'
BY DEF LoadInv, KeysFit, ReadSoFar, FileOf

\* A file is opened.
LEMMA OpenLoads ==
  ASSUME MainInv, LoadInv, Open
  PROVE  LoadInv'
<1>1. step \in {"tri", "bi", "uni"} /\ dict = "none"
  BY DEF Open
<1>2. CASE Opened(step, FileOf(step)) /\ UNCHANGED << tables, main, walk >>
  <2>1. /\ dict' = step /\ rest' = FileOf(step) /\ value' = 0
        /\ UNCHANGED << tables, job, step, loaded >>
    BY <1>2 DEF Opened, main
  <2>2. FileOf(step) \in Seq(Words)
    BY FilesAreWords DEF MainInv
  <2>3. step \in Dicts /\ step \notin loaded /\ tables[step] = << >>
    BY <1>1 DEF LoadInv, InTurn, Dicts
  <2>4. InTurn'
    BY <1>1, <2>1 DEF LoadInv, InTurn, secondDict
  <2>5. Readable(dict', FileOf(dict')) => ReadSoFar(FileOf(dict))'
    <3> DEFINE file == FileOf(step)
    <3>1. SUFFICES ASSUME Readable(step, file)
                   PROVE  \E m \in 0 .. Len(file) :
                            /\ file = SubSeq(file, m + 1, Len(file))
                            /\ m < Len(file) => ~ NumberWord(file[m + 1])
                            /\ tables[step] = WrittenBy(file, m)
                            /\ 0 = LastNumber(file, m)
      BY <2>1 DEF ReadSoFar, FileOf
    <3> HIDE DEF file
    <3>2. file \in Seq(Words)
      BY <2>2 DEF file
    <3>3. 0 \in 0 .. Len(file) /\ 0 + 1 = 1 /\ SubSeq(file, 1, Len(file)) = file /\ 0 \in Nat
      BY <3>2
    <3>4. WrittenBy(file, 0) = << >> /\ LastNumber(file, 0) = 0
      BY <3>2, <3>3, WrittenNothing, LastNumberNext
    <3>5. 0 < Len(file) => ~ NumberWord(file[1])
      <4> SUFFICES ASSUME 0 < Len(file) PROVE ~ NumberWord(file[1])
        OBVIOUS
      <4>1. 1 \in 1 .. Len(file) /\ ~ (1 > 1)
        BY <3>2
      <4> QED
        BY <2>3, <3>1, <3>2, <4>1, WordsOfFile
    <3> QED
      BY <2>3, <3>3, <3>4, <3>5
  <2>6. \A d \in Dicts : KeysFit(d)'
    BY <2>1 DEF LoadInv, KeysFit
  <2>7. \A d \in loaded' : Readable(d, FileOf(d)') => tables'[d] = Written(FileOf(d)')
    BY <2>1 DEF LoadInv, FileOf
  <2>8. \A d \in Dicts \ (loaded' \cup {dict'}) : tables'[d] = << >>
    BY <1>1, <2>1 DEF LoadInv, Dicts
  <2>9. step' # "exit"
    BY <1>1, <2>1
  <2> QED
    BY <2>1, <2>2, <2>4, <2>5, <2>6, <2>7, <2>8, <2>9 DEF LoadInv, FileOf
<1>3. CASE Exit
  <2>1. UNCHANGED << job, loaded, tables, dict, rest, value >> /\ step' = "exit"
    BY <1>3 DEF Exit, dictVars
  <2>2. InTurn'
    BY <2>1 DEF InTurn
  <2> QED
    BY <1>1, <2>1, <2>2, NothingLoads
<1> QED
  BY <1>2, <1>3 DEF Open

\* A line is read.
LEMMA LineLoads ==
  ASSUME MainInv, LoadInv, ReadLine
  PROVE  LoadInv'
<1> DEFINE file == FileOf(dict)
<1>1. /\ UNCHANGED << job, step, loaded, dict >> /\ step # "exit"
      /\ dict # "none" /\ rest # << >> /\ ~ Rejects(KeyRead) /\ read_line
      /\ tables' = [tables EXCEPT ![dict] = Stored(@, KeyRead, value')]
  BY DEF ReadLine, read_line, main
<1>2. dict \in Dicts /\ file \in Seq(Words)
  BY <1>1, FilesAreWords DEF MainInv, Dicts
<1>3. rest' \in Seq(Words) /\ value' \in Int
  BY <1>1, <1>2, RestStaysWords DEF LoadInv
<1>4. DOMAIN tables' = Dicts /\ \A d \in Dicts \ {dict} : tables'[d] = tables[d]
  BY <1>1 DEF LoadInv
<1>5. tables'[dict] = Stored(tables[dict], KeyRead, value')
  BY <1>1, <1>2 DEF LoadInv
<1>6. \A d \in Dicts : KeysFit(d)'
  <2>1. \A d \in Dicts \ {dict} : KeysFit(d)'
    BY <1>4 DEF LoadInv, KeysFit
  <2>2. Len(KeyRead) = Width(dict) /\ \A q \in DOMAIN KeyRead : KeyRead[q] \in Alphabet
    BY <1>1 DEF Rejects
  <2>3. DOMAIN tables'[dict] = DOMAIN tables[dict] \cup {KeyRead}
    BY <1>5 DEF Stored
  <2>4. KeysFit(dict)
    BY <1>2 DEF LoadInv
  <2>5. KeysFit(dict)'
    BY <1>1, <2>2, <2>3, <2>4 DEF KeysFit
  <2> QED
    BY <1>1, <2>1, <2>5
<1>7. dict \notin loaded
  BY <1>1 DEF LoadInv, InTurn, MainInv
<1>8. \A d \in loaded' : Readable(d, FileOf(d)') => tables'[d] = Written(FileOf(d)')
  <2>1. loaded \subseteq Dicts \ {dict}
    BY <1>7 DEF MainInv, Dicts
  <2> QED
    BY <1>1, <1>4, <2>1 DEF LoadInv, FileOf
<1>9. \A d \in Dicts \ (loaded' \cup {dict'}) : tables'[d] = << >>
  BY <1>1, <1>4 DEF LoadInv
<1>10. ASSUME Readable(dict, file) PROVE ReadSoFar(FileOf(dict))'
  <2>1. PICK m \in 0 .. Len(file) :
          /\ rest = SubSeq(file, m + 1, Len(file))
          /\ m < Len(file) => ~ NumberWord(file[m + 1])
          /\ tables[dict] = WrittenBy(file, m)
          /\ value = LastNumber(file, m)
    BY <1>1, <1>10 DEF LoadInv, ReadSoFar
  <2> HIDE DEF file
  <2>2. /\ m + 1 \in 1 .. Len(file) /\ KeyRead = file[m + 1].text
        /\ BehindKey = SubSeq(file, m + 2, Len(file))
    BY <1>1, <1>2, <1>10, <2>1, ReadableLine
  <2>3. m \in Nat /\ m + 1 <= Len(file) /\ ~ NumberWord(file[m + 1]) /\ m + 1 \in Nat
    BY <1>2, <2>1, <2>2
  <2>4. LastNumber(file, m + 1) = LastNumber(file, m)
    BY <1>2, <2>3, LastNumberNext
  <2>5. file' = file
    BY <1>1 DEF file, FileOf
  <2>6. CASE m + 2 <= Len(file) /\ NumberWord(file[m + 2])
    <3>1. m + 2 \in 1 .. Len(file) /\ m + 2 \in Nat /\ m + 2 \in 0 .. Len(file)
          /\ (m + 2) + 1 = m + 3
      BY <2>3, <2>6
    <3>2. BehindKey # << >> /\ Head(BehindKey) = file[m + 2]
          /\ Tail(BehindKey) = SubSeq(file, (m + 2) + 1, Len(file))
      BY <1>2, <2>2, <3>1, WordsBehind
    <3>3. value' = file[m + 2].num /\ rest' = SubSeq(file, (m + 2) + 1, Len(file))
      BY <1>1, <2>6, <3>2 DEF read_line
    <3>4. LastNumber(file, m + 2) = file[m + 2].num
      BY <1>2, <2>6, <3>1, LastNumberNext
    <3>5. m + 2 < Len(file) => ~ NumberWord(file[(m + 2) + 1])
      <4> SUFFICES ASSUME m + 2 < Len(file) PROVE ~ NumberWord(file[(m + 2) + 1])
        OBVIOUS
      <4>1. (m + 2) + 1 \in 1 .. Len(file) /\ ((m + 2) + 1) - 1 = m + 2
        BY <1>2, <3>1
      <4> QED
        BY <1>2, <1>10, <2>6, <4>1, WordsOfFile
    <3>6. tables'[dict] = WrittenBy(file, m + 2)
      BY <1>2, <1>5, <2>1, <2>2, <2>3, <2>6, <3>3, <3>4, WrittenNext
    <3> QED
      BY <1>1, <2>5, <3>1, <3>3, <3>4, <3>5, <3>6 DEF ReadSoFar, file
  <2>7. CASE ~ (m + 2 <= Len(file) /\ NumberWord(file[m + 2]))
    <3>1. m + 1 \in 0 .. Len(file) /\ (m + 1) + 1 = m + 2
      BY <2>3
    <3>2. ~ (BehindKey # << >> /\ NumberWord(Head(BehindKey)))
      <4>1. CASE m + 2 <= Len(file)
        <5>1. m + 2 \in 1 .. Len(file)
          BY <2>3, <4>1
        <5>2. Head(BehindKey) = file[m + 2]
          BY <1>2, <2>2, <5>1, WordsBehind
        <5> QED
          BY <2>7, <4>1, <5>2
      <4>2. CASE ~ (m + 2 <= Len(file))
        <5>1. BehindKey = << >>
          BY <1>2, <2>2, <2>3, <4>2
        <5> QED
          BY <5>1
      <4> QED
        BY <4>1, <4>2
    <3>3. value' = value /\ rest' = SubSeq(file, (m + 1) + 1, Len(file))
      BY <1>1, <2>2, <3>1, <3>2 DEF read_line
    <3>4. m + 1 >= Len(file) \/ ~ NumberWord(file[(m + 1) + 1])
      BY <1>2, <2>3, <2>7, <3>1
    <3>5. LastNumber(file, m + 2) = LastNumber(file, m + 1)
      BY <1>2, <2>3, <3>1, <3>4, LastNumberNext
    <3>6. value' = LastNumber(file, m + 1) /\ value' = LastNumber(file, m + 2)
      BY <2>1, <2>4, <3>3, <3>5
    <3>7. m + 1 # m + 2
      BY <2>3
    <3>8. tables'[dict] = WrittenBy(file, m + 1)
      BY <1>2, <1>5, <2>1, <2>2, <2>3, <3>6, <3>7, WrittenNext
    <3>9. m + 1 < Len(file) => ~ NumberWord(file[(m + 1) + 1])
      BY <1>2, <2>3, <3>4
    <3> QED
      BY <1>1, <2>5, <3>1, <3>3, <3>6, <3>8, <3>9 DEF ReadSoFar, file
  <2> QED
    BY <2>6, <2>7
<1>11. InTurn'
  BY <1>1 DEF LoadInv, InTurn, secondDict
<1>12. FileOf(dict)' = file
  BY <1>1 DEF FileOf
<1> QED
  BY <1>1, <1>3, <1>4, <1>6, <1>8, <1>9, <1>10, <1>11, <1>12 DEF LoadInv

\* The line that ends the program is not one of a file of whole keys.
LEMMA RefusedIsIllFormed ==
  ASSUME MainInv, LoadInv, Refuse
  PROVE  LoadInv'
<1> DEFINE file == FileOf(dict)
<1>1. /\ step # "exit" /\ step' = "exit" /\ dict # "none" /\ rest # << >> /\ Rejects(KeyRead)
      /\ UNCHANGED << job, loaded, tables, dict, rest, value >>
  BY DEF Refuse, IllegalLine, Exit, dictVars
<1>2. dict \in Dicts /\ file \in Seq(Words)
  BY <1>1, FilesAreWords DEF MainInv, Dicts
<1>3. ~ Readable(dict, file)
  <2> SUFFICES ASSUME Readable(dict, file) PROVE FALSE
    OBVIOUS
  <2>1. PICK m \in 0 .. Len(file) : /\ rest = SubSeq(file, m + 1, Len(file))
                                    /\ m < Len(file) => ~ NumberWord(file[m + 1])
    BY <1>1 DEF LoadInv, ReadSoFar
  <2> HIDE DEF file
  <2>2. ~ Rejects(KeyRead)
    BY <1>1, <1>2, <2>1, ReadableLine
  <2> QED
    BY <1>1, <2>2
<1>4. InTurn'
  BY <1>1 DEF InTurn
<1> QED
  BY <1>1, <1>3, <1>4 DEF LoadInv, KeysFit, FileOf

\* The end of a file
LEMMA LastLineLoads ==
  ASSUME MainInv, LoadInv, Loaded
  PROVE  LoadInv'
<1> DEFINE file == FileOf(dict)
<1>1. /\ step # "exit" /\ dict # "none" /\ rest = << >>
      /\ dict' = "none" /\ loaded' = loaded \cup {dict}
      /\ step' = IF dict = "tri" THEN secondDict ELSE "ciphertext"
      /\ UNCHANGED << job, tables, rest, value >>
  BY DEF Loaded, EndOfFile
<1>2. dict \in Dicts /\ file \in Seq(Words)
  BY <1>1, FilesAreWords DEF MainInv, Dicts
<1>3. ASSUME Readable(dict, file) PROVE tables[dict] = Written(file)
  <2>1. PICK m \in 0 .. Len(file) : /\ rest = SubSeq(file, m + 1, Len(file))
                                    /\ tables[dict] = WrittenBy(file, m)
    BY <1>1, <1>3 DEF LoadInv, ReadSoFar
  <2> HIDE DEF file
  <2>2. m = Len(file)
    <3> SUFFICES ASSUME m < Len(file) PROVE FALSE
      BY <1>2, <2>1
    <3>1. m + 1 \in 1 .. Len(file)
      BY <1>2
    <3>2. rest # << >>
      BY <1>2, <2>1, <3>1, WordsBehind
    <3> QED
      BY <1>1, <3>2
  <2> QED
    BY <1>2, <2>1, <2>2, WrittenByAll
<1>4. InTurn'
  <2>1. secondDict' = secondDict /\ secondDict \in {"bi", "uni"}
    BY <1>1 DEF secondDict
  <2>2. /\ dict = "tri" => step = "tri" /\ loaded = {}
        /\ dict # "tri" => dict = secondDict /\ loaded = {"tri"}
    BY <1>1, <2>1 DEF LoadInv, InTurn, MainInv
  <2> QED
    BY <1>1, <2>1, <2>2 DEF InTurn
<1>5. \A d \in loaded' : Readable(d, FileOf(d)') => tables'[d] = Written(FileOf(d)')
  BY <1>1, <1>3 DEF LoadInv, FileOf
<1>6. \A d \in Dicts \ (loaded' \cup {dict'}) : tables'[d] = << >>
  BY <1>1 DEF LoadInv
<1>7. \A d \in Dicts : KeysFit(d)'
  BY <1>1 DEF LoadInv, KeysFit
<1> QED
  BY <1>1, <1>4, <1>5, <1>6, <1>7 DEF LoadInv

\* The start of the program.
LEMMA LoadInvInit == Init => LoadInv
<1> SUFFICES ASSUME Init PROVE LoadInv
  OBVIOUS
<1>1. /\ step = "cpu" /\ dict = "none" /\ loaded = {} /\ rest = << >> /\ value = 0
      /\ DOMAIN tables = Dicts /\ \A d \in Dicts : tables[d] = << >>
  BY DEF Init, Dicts
<1>2. DOMAIN << >> = {}
  OBVIOUS
<1>3. \A d \in Dicts : KeysFit(d)
  BY <1>1, <1>2 DEF KeysFit
<1>4. InTurn
  BY <1>1 DEF InTurn
<1> QED
  BY <1>1, <1>3, <1>4 DEF LoadInv

\* Every step
LEMMA LoadInvStep == MainInv /\ LoadInv /\ [Next]_vars => LoadInv'
<1> SUFFICES ASSUME MainInv, LoadInv, [Next]_vars PROVE LoadInv'
  OBVIOUS
<1> DEFINE same == UNCHANGED << job, loaded, tables, dict, rest, value >>
<1>1. CASE enigma_cpu_flags_init
  <2>1. same /\ step = "cpu" /\ step' \in {"exit", "tri"}
    BY <1>1 DEF enigma_cpu_flags_init, Exit, dictVars
  <2>2. dict = "none" /\ InTurn'
    BY <2>1 DEF LoadInv, InTurn
  <2> QED
    BY <2>1, <2>2, NothingLoads
<1>2. CASE Open
  BY <1>2, OpenLoads
<1>3. CASE ReadLine
  BY <1>3, LineLoads
<1>4. CASE Refuse
  BY <1>4, RefusedIsIllFormed
<1>5. CASE Loaded
  BY <1>5, LastLineLoads
<1>6. CASE load_ciphertext
  <2>1. same /\ step = "ciphertext" /\ step' \in {"exit", "optimize"}
    BY <1>6 DEF load_ciphertext, Exit, dictVars
  <2>2. dict = "none" /\ InTurn'
    BY <2>1 DEF LoadInv, InTurn, secondDict
  <2> QED
    BY <2>1, <2>2, NothingLoads
<1>7. CASE optimizeScore
  <2>1. same /\ step = "optimize" /\ step' = "score"
    BY <1>7 DEF optimizeScore, dictVars
  <2>2. dict = "none" /\ InTurn'
    BY <2>1 DEF LoadInv, InTurn, secondDict
  <2> QED
    BY <2>1, <2>2, NothingLoads
<1>8. CASE Score
  <2>1. same /\ step' = step
    BY <1>8 DEF Score, main, dictVars
  <2>2. InTurn'
    BY <2>1 DEF LoadInv, InTurn, secondDict
  <2> QED
    BY <2>1, <2>2, NothingLoads
<1>9. CASE UNCHANGED vars
  <2>1. same /\ step' = step
    BY <1>9 DEF vars, main, dictVars
  <2>2. InTurn'
    BY <2>1 DEF LoadInv, InTurn, secondDict
  <2> QED
    BY <2>1, <2>2, NothingLoads
<1> QED
  BY <1>1, <1>2, <1>3, <1>4, <1>5, <1>6, <1>7, <1>8, <1>9 DEF Next

\* The dictionaries that are loaded are what the invariant says.
LEMMA LoadInvSays == MainInv /\ (step = "score" => score \in Asked) /\ LoadInv => DictionaryAsWritten
<1> SUFFICES ASSUME MainInv, step = "score" => score \in Asked, LoadInv
             PROVE  DictionaryAsWritten
  OBVIOUS
<1>1. step = "score" => {score} \ {"ic"} \subseteq loaded
  BY DEF LoadInv, InTurn, Asked, secondDict
<1>2. ASSUME NEW d \in loaded
      PROVE  /\ Readable(d, FileOf(d)) => tables[d] = Written(FileOf(d))
             /\ \A key \in DOMAIN tables[d] :
                  Len(key) = Width(d) /\ \A q \in DOMAIN key : key[q] \in Alphabet
  <2>1. d \in Dicts
    BY DEF MainInv, Dicts
  <2>2. KeysFit(d)
    BY <2>1 DEF LoadInv
  <2> QED
    BY <2>2 DEF LoadInv, KeysFit
<1>3. step = "exit" /\ dict # "none" => ~ Readable(dict, FileOf(dict))
  BY DEF LoadInv
<1> QED
  BY <1>1, <1>2, <1>3 DEF DictionaryAsWritten

\* A score is only looked up in a dictionary that has been loaded, and every
\* loaded dictionary holds what its file says if that is made of whole keys: for
\* every key the number of its last line, whatever the order of the lines and
\* however often a key comes up, and for a line without a number that of a line
\* before it in the same file.  No key of another length or of other signs is
\* ever stored, and no file of whole keys is refused.
THEOREM DictionariesAsWritten == Spec => []DictionaryAsWritten
<1>1. ScoringInv => MainInv /\ (step = "score" => score \in Asked)
  BY DEF ScoringInv
<1> QED
  BY <1>1, ScoringInvariant, LoadInvInit, LoadInvStep, LoadInvSays, PTL DEF Spec

-----------------------------------------------------------------------------
(* Sums of functions over finite sets.                                     *)

\* What holds for a set if it holds for the set without any of its members
\* holds for all finite sets.  The property is given as the sets it holds for.
LEMMA FiniteInduction ==
  ASSUME NEW S, IsFiniteSet(S), NEW P, {} \in P,
         \A s \in SUBSET S : (s # {} /\ \A x \in s : s \ {x} \in P) => s \in P
  PROVE  S \in P
<1> DEFINE Q == {k \in Nat : \A s \in SUBSET S : Cardinality(s) = k => s \in P}
<1>1. \A s \in SUBSET S : IsFiniteSet(s) /\ Cardinality(s) \in Nat
  BY FS_Subset, FS_CardinalityType
<1>2. 0 \in Q
  <2>1. ASSUME NEW s \in SUBSET S, Cardinality(s) = 0 PROVE s \in P
    BY <1>1, <2>1, FS_EmptySet
  <2> QED
    BY <2>1
<1>3. ASSUME NEW k \in Nat, k \in Q PROVE k + 1 \in Q
  <2>1. ASSUME NEW s \in SUBSET S, Cardinality(s) = k + 1 PROVE s \in P
    <3>1. s # {}
      BY <1>1, <2>1, FS_EmptySet
    <3>2. ASSUME NEW x \in s PROVE s \ {x} \in P
      <4>1. Cardinality(s \ {x}) = (k + 1) - 1
        BY <1>1, <2>1, FS_RemoveElement
      <4>2. s \ {x} \in SUBSET S /\ (k + 1) - 1 = k
        OBVIOUS
      <4> QED
        BY <1>3, <4>1, <4>2
    <3> QED
      BY <3>1, <3>2
  <2> QED
    BY <1>3, <2>1
<1> HIDE DEF Q
<1>4. Nat \subseteq Q
  BY <1>2, <1>3, KT!InductionOnNat
<1> QED
  BY <1>1, <1>4 DEF Q

first(s) == CHOOSE x \in s : TRUE

\* The equation of the community modules' sum
Adds(g, S, h) ==
  h = [s \in SUBSET S |-> IF s = {} THEN 0 ELSE g[first(s)] + h[s \ {first(s)}]]

\* A member is chosen, and what is left is smaller.
LEMMA FirstChosen ==
  ASSUME NEW s, s # {}
  PROVE  first(s) \in s
BY DEF first

\* There is a function as the sum defines it.
LEMMA AddsExists ==
  ASSUME NEW S, IsFiniteSet(S), NEW g
  PROVE  \E h : Adds(g, S, h)
<1> DEFINE At(h, s) == IF s = {} THEN 0 ELSE g[first(s)] + h[s \ {first(s)}]
           P == {k \in Nat : \E h : \A s \in SUBSET S : Cardinality(s) <= k => h[s] = At(h, s)}
<1>1. \A s \in SUBSET S : IsFiniteSet(s) /\ Cardinality(s) \in Nat
  BY FS_Subset, FS_CardinalityType
<1>2. ASSUME NEW s \in SUBSET S, s # {}
      PROVE  s \ {first(s)} \in SUBSET S /\ Cardinality(s \ {first(s)}) = Cardinality(s) - 1
  <2>1. first(s) \in s
    BY <1>2, FirstChosen
  <2> QED
    BY <1>1, <2>1, FS_RemoveElement
<1>3. 0 \in P
  <2> DEFINE h == [s \in SUBSET S |-> 0]
  <2>1. ASSUME NEW s \in SUBSET S, Cardinality(s) <= 0 PROVE h[s] = At(h, s)
    <3>1. Cardinality(s) = 0
      BY <1>1, <2>1
    <3>2. s = {}
      BY <1>1, <3>1, FS_EmptySet
    <3> QED
      BY <3>2
  <2> HIDE DEF h, At
  <2>2. \E u : \A s \in SUBSET S : Cardinality(s) <= 0 => u[s] = At(u, s)
    BY <2>1, Zenon
  <2> QED
    BY <2>2
<1>4. ASSUME NEW k \in Nat, k \in P PROVE k + 1 \in P
  <2>1. PICK h : \A s \in SUBSET S : Cardinality(s) <= k => h[s] = At(h, s)
    BY <1>4
  <2> DEFINE e == [s \in SUBSET S |-> IF Cardinality(s) <= k THEN h[s] ELSE At(h, s)]
  <2>2. \A s \in SUBSET S : e[s] = At(h, s)
    BY <2>1
  <2>3. \A s \in SUBSET S : Cardinality(s) <= k => e[s] = h[s]
    OBVIOUS
  <2> HIDE DEF e
  <2>4. ASSUME NEW s \in SUBSET S, Cardinality(s) <= k + 1 PROVE At(e, s) = At(h, s)
    <3>1. CASE s = {}
      BY <3>1
    <3>2. CASE s # {}
      <4>1. s \ {first(s)} \in SUBSET S /\ Cardinality(s \ {first(s)}) <= k
        <5>1. PICK c \in Nat : c = Cardinality(s)
          BY <1>1
        <5>2. c - 1 <= k
          BY <2>4, <5>1
        <5> QED
          BY <1>2, <3>2, <5>1, <5>2
      <4> QED
        BY <2>3, <3>2, <4>1
    <3> QED
      BY <3>1, <3>2
  <2>5. \A s \in SUBSET S : Cardinality(s) <= k + 1 => e[s] = At(e, s)
    BY <2>2, <2>4, Zenon
  <2> HIDE DEF At
  <2>6. \E u : \A s \in SUBSET S : Cardinality(s) <= k + 1 => u[s] = At(u, s)
    BY <2>5, Zenon
  <2> QED
    BY <2>6
<1> HIDE DEF P
<1>5. Cardinality(S) \in P
  <2>1. Nat \subseteq P
    BY <1>3, <1>4, KT!InductionOnNat
  <2> QED
    BY <1>1, <2>1
<1>6. PICK h : \A s \in SUBSET S : Cardinality(s) <= Cardinality(S) => h[s] = At(h, s)
  BY <1>5 DEF P
<1>7. \A s \in SUBSET S : Cardinality(s) <= Cardinality(S)
  BY FS_Subset
<1> DEFINE e == [s \in SUBSET S |-> h[s]]
<1>8. ASSUME NEW s \in SUBSET S PROVE e[s] = At(e, s)
  <2>1. e[s] = At(h, s)
    BY <1>6, <1>7
  <2>2. At(e, s) = At(h, s)
    BY <1>2
  <2> QED
    BY <2>1, <2>2
<1>9. e = [s \in SUBSET S |-> At(e, s)]
  BY <1>8
<1>10. Adds(g, S, e)
  BY <1>9 DEF Adds
<1> QED
  BY <1>10

\* The sum of the community modules is that function's value.
LEMMA SumIsAdds ==
  ASSUME NEW S, IsFiniteSet(S), NEW g
  PROVE  \E h : Adds(g, S, h) /\ SumFunctionOnSet(g, S) = h[S]
<1> DEFINE sum == CHOOSE h : Adds(g, S, h)
<1>1. SumFunctionOnSet(g, S) = sum[S]
  BY DEF SumFunctionOnSet, FoldFunctionOnSet, MapThenFoldSet, Adds, first
<1>2. \E h : Adds(g, S, h)
  BY AddsExists
<1>3. Adds(g, S, sum)
  BY <1>2, Zenon
<1> HIDE DEF sum
<1> QED
  BY <1>1, <1>3

\* Only one function fulfils the equation.
LEMMA AddsUnique ==
  ASSUME NEW S, IsFiniteSet(S), NEW T \in SUBSET S, NEW g, NEW h, NEW e,
         Adds(g, S, h), Adds(g, T, e)
  PROVE  h[T] = e[T]
<1> DEFINE P == {s \in SUBSET T : h[s] = e[s]}
<1>1. /\ \A s \in SUBSET S : h[s] = IF s = {} THEN 0 ELSE g[first(s)] + h[s \ {first(s)}]
      /\ \A s \in SUBSET T : e[s] = IF s = {} THEN 0 ELSE g[first(s)] + e[s \ {first(s)}]
  BY DEF Adds
<1>2. {} \in P
  BY <1>1
<1>3. ASSUME NEW s \in SUBSET T, s # {}, \A x \in s : s \ {x} \in P PROVE s \in P
  <2>1. first(s) \in s
    BY <1>3, FirstChosen
  <2>2. h[s \ {first(s)}] = e[s \ {first(s)}]
    BY <1>3, <2>1
  <2> QED
    BY <1>1, <1>3, <2>2
<1>4. IsFiniteSet(T)
  BY FS_Subset
<1> HIDE DEF P
<1>5. T \in P
  BY <1>2, <1>3, <1>4, FiniteInduction, Zenon
<1> QED
  BY <1>5 DEF P

\* A sum is the chosen term and the sum of the others.
LEMMA SumByFirst ==
  ASSUME NEW S, IsFiniteSet(S), NEW g
  PROVE  SumFunctionOnSet(g, S) =
           IF S = {} THEN 0 ELSE g[first(S)] + SumFunctionOnSet(g, S \ {first(S)})
<1>1. PICK h : Adds(g, S, h) /\ SumFunctionOnSet(g, S) = h[S]
  BY SumIsAdds
<1>2. h[S] = IF S = {} THEN 0 ELSE g[first(S)] + h[S \ {first(S)}]
  <2>1. S \in SUBSET S
    OBVIOUS
  <2> QED
    BY <1>1, <2>1 DEF Adds
<1> DEFINE T == S \ {first(S)}
<1>3. T \in SUBSET S /\ IsFiniteSet(T)
  BY FS_Subset
<1> HIDE DEF T
<1>4. PICK e : Adds(g, T, e) /\ SumFunctionOnSet(g, T) = e[T]
  BY <1>3, SumIsAdds
<1>5. h[T] = e[T]
  BY <1>1, <1>3, <1>4, AddsUnique
<1> QED
  BY <1>1, <1>2, <1>4, <1>5 DEF T

\* The sum over nothing.
LEMMA SumOfNone == ASSUME NEW g PROVE SumFunctionOnSet(g, {}) = 0
<1>1. IsFiniteSet({})
  BY FS_EmptySet
<1> QED
  BY <1>1, SumByFirst

\* A sum of numbers is one.
LEMMA SumIsNumber ==
  ASSUME NEW S, IsFiniteSet(S), NEW g, \A y \in S : g[y] \in Int
  PROVE  SumFunctionOnSet(g, S) \in Int
<1> DEFINE P == {s \in SUBSET S : SumFunctionOnSet(g, s) \in Int}
<1>1. {} \in P
  BY SumOfNone
<1>2. ASSUME NEW s \in SUBSET S, s # {}, \A x \in s : s \ {x} \in P PROVE s \in P
  <2>1. first(s) \in s /\ IsFiniteSet(s)
    BY <1>2, FirstChosen, FS_Subset
  <2>2. SumFunctionOnSet(g, s) = g[first(s)] + SumFunctionOnSet(g, s \ {first(s)})
    BY <1>2, <2>1, SumByFirst
  <2>3. SumFunctionOnSet(g, s \ {first(s)}) \in Int
    BY <1>2, <2>1
  <2> QED
    BY <2>1, <2>2, <2>3
<1> HIDE DEF P
<1>3. S \in P
  BY <1>1, <1>2, FiniteInduction, Zenon
<1> QED
  BY <1>3 DEF P

\* Any term can be taken out of a sum.
LEMMA SumSplit ==
  ASSUME NEW S, IsFiniteSet(S), NEW g, \A y \in S : g[y] \in Int, NEW x \in S
  PROVE  SumFunctionOnSet(g, S) = g[x] + SumFunctionOnSet(g, S \ {x})
<1> DEFINE Sum(s) == SumFunctionOnSet(g, s)
           P == {s \in SUBSET S : \A z \in s : Sum(s) = g[z] + Sum(s \ {z})}
<1>1. {} \in P
  OBVIOUS
<1>2. ASSUME NEW s \in SUBSET S, s # {}, \A z \in s : s \ {z} \in P PROVE s \in P
  <2> DEFINE y == first(s)
  <2>1. y \in s /\ IsFiniteSet(s)
    BY <1>2, FirstChosen, FS_Subset
  <2>2. Sum(s) = g[y] + Sum(s \ {y})
    BY <1>2, <2>1, SumByFirst
  <2> HIDE DEF y
  <2>3. ASSUME NEW z \in s PROVE Sum(s) = g[z] + Sum(s \ {z})
    <3>1. CASE z = y
      BY <2>2, <3>1
    <3>2. CASE z # y
      <4> DEFINE t == (s \ {y}) \ {z}
      <4>3. t = (s \ {z}) \ {y} /\ t \in SUBSET S
        OBVIOUS
      <4>1. Sum(s \ {y}) = g[z] + Sum(t)
        BY <1>2, <2>1, <3>2
      <4>2. Sum(s \ {z}) = g[y] + Sum(t)
        <5>1. Sum(s \ {z}) = g[y] + Sum((s \ {z}) \ {y})
          BY <1>2, <2>1, <3>2
        <5> QED
          BY <4>3, <5>1
      <4> HIDE DEF t
      <4>4. IsFiniteSet(t)
        BY <4>3, FS_Subset
      <4>5. Sum(t) \in Int
        BY <4>3, <4>4, SumIsNumber
      <4>6. g[y] \in Int /\ g[z] \in Int
        BY <2>1
      <4> HIDE DEF Sum
      <4> QED
        BY <2>2, <4>1, <4>2, <4>5, <4>6
    <3> QED
      BY <3>1, <3>2
  <2> QED
    BY <2>3
<1> HIDE DEF P
<1>3. S \in P
  BY <1>1, <1>2, FiniteInduction, Zenon
<1> QED
  BY <1>3 DEF P

\* The same terms, the same sum.
LEMMA SumOfSame ==
  ASSUME NEW S, IsFiniteSet(S), NEW g, NEW e, \A y \in S : g[y] = e[y]
  PROVE  SumFunctionOnSet(g, S) = SumFunctionOnSet(e, S)
<1> DEFINE P == {s \in SUBSET S : SumFunctionOnSet(g, s) = SumFunctionOnSet(e, s)}
<1>1. {} \in P
  BY SumOfNone
<1>2. ASSUME NEW s \in SUBSET S, s # {}, \A x \in s : s \ {x} \in P PROVE s \in P
  <2>1. first(s) \in s /\ IsFiniteSet(s)
    BY <1>2, FirstChosen, FS_Subset
  <2>2. /\ SumFunctionOnSet(g, s) = g[first(s)] + SumFunctionOnSet(g, s \ {first(s)})
        /\ SumFunctionOnSet(e, s) = e[first(s)] + SumFunctionOnSet(e, s \ {first(s)})
    BY <1>2, <2>1, SumByFirst
  <2>3. SumFunctionOnSet(g, s \ {first(s)}) = SumFunctionOnSet(e, s \ {first(s)})
    BY <1>2, <2>1
  <2> QED
    BY <2>1, <2>2, <2>3
<1> HIDE DEF P
<1>3. S \in P
  BY <1>1, <1>2, FiniteInduction, Zenon
<1> QED
  BY <1>3 DEF P

\* The sum over a set is that over a part of it and that over the rest.
LEMMA SumOfParts ==
  ASSUME NEW S, IsFiniteSet(S), NEW g, \A y \in S : g[y] \in Int, NEW T \in SUBSET S
  PROVE  SumFunctionOnSet(g, S) = SumFunctionOnSet(g, T) + SumFunctionOnSet(g, S \ T)
<1> DEFINE Sum(s) == SumFunctionOnSet(g, s)
           P == {t \in SUBSET T : Sum(S) = Sum(t) + Sum(S \ t)}
<1>0. \A s \in SUBSET S : IsFiniteSet(s) /\ Sum(s) \in Int
  <2> SUFFICES ASSUME NEW s \in SUBSET S PROVE IsFiniteSet(s) /\ Sum(s) \in Int
    OBVIOUS
  <2>1. IsFiniteSet(s)
    BY FS_Subset
  <2> QED
    BY <2>1, SumIsNumber
<1>1. {} \in P
  <2>1. Sum({}) = 0 /\ S \ {} = S /\ Sum(S) \in Int
    BY <1>0, SumOfNone
  <2> HIDE DEF Sum
  <2> QED
    BY <2>1
<1>2. ASSUME NEW t \in SUBSET T, t # {}, \A x \in t : t \ {x} \in P PROVE t \in P
  <2>1. PICK x \in t : TRUE
    BY <1>2
  <2>2. Sum(S) = Sum(t \ {x}) + Sum(S \ (t \ {x}))
    BY <1>2, <2>1
  <2>3. Sum(t) = g[x] + Sum(t \ {x})
    BY <1>0, <2>1, SumSplit
  <2> DEFINE r == S \ (t \ {x})
  <2>4. r \in SUBSET S /\ x \in r /\ r \ {x} = S \ t
    BY <2>1
  <2>8. Sum(S) = Sum(t \ {x}) + Sum(r)
    BY <2>2
  <2> HIDE DEF r
  <2>5. Sum(r) = g[x] + Sum(r \ {x})
    BY <1>0, <2>4, SumSplit
  <2>9. Sum(r) = g[x] + Sum(S \ t)
    BY <2>4, <2>5
  <2>6. Sum(t \ {x}) \in Int /\ Sum(S \ t) \in Int /\ g[x] \in Int
    BY <1>0
  <2> HIDE DEF Sum
  <2>7. Sum(S) = Sum(t) + Sum(S \ t)
    BY <2>3, <2>6, <2>8, <2>9
  <2> QED
    BY <2>7
<1> HIDE DEF P
<1>3. IsFiniteSet(T)
  BY FS_Subset
<1>4. T \in P
  BY <1>1, <1>2, <1>3, FiniteInduction, Zenon
<1> QED
  BY <1>4 DEF P

\* Terms that are at most so many times those of another sum
LEMMA SumBelow ==
  ASSUME NEW S, IsFiniteSet(S), NEW g, NEW e,
         \A y \in S : g[y] \in Nat /\ e[y] \in Nat /\ g[y] <= 127 * e[y]
  PROVE  /\ SumFunctionOnSet(g, S) \in Nat /\ SumFunctionOnSet(e, S) \in Nat
         /\ SumFunctionOnSet(g, S) <= 127 * SumFunctionOnSet(e, S)
<1> DEFINE G(s) == SumFunctionOnSet(g, s)
           E(s) == SumFunctionOnSet(e, s)
           P == {s \in SUBSET S : G(s) \in Nat /\ E(s) \in Nat /\ G(s) <= 127 * E(s)}
<1>1. {} \in P
  BY SumOfNone
<1>2. ASSUME NEW s \in SUBSET S, s # {}, \A x \in s : s \ {x} \in P PROVE s \in P
  <2>1. PICK x \in s : IsFiniteSet(s)
    BY <1>2, FS_Subset
  <2>2. G(s) = g[x] + G(s \ {x}) /\ E(s) = e[x] + E(s \ {x})
    <3>1. \A y \in s : g[y] \in Int /\ e[y] \in Int
      OBVIOUS
    <3> QED
      BY <2>1, <3>1, SumSplit
  <2>3. G(s \ {x}) \in Nat /\ E(s \ {x}) \in Nat /\ G(s \ {x}) <= 127 * E(s \ {x})
    BY <1>2
  <2>4. g[x] \in Nat /\ e[x] \in Nat /\ g[x] <= 127 * e[x]
    OBVIOUS
  <2> HIDE DEF G, E
  <2>5. G(s) \in Nat /\ E(s) \in Nat /\ G(s) <= 127 * E(s)
    BY <2>2, <2>3, <2>4
  <2> QED
    BY <2>5
<1> HIDE DEF P
<1>3. S \in P
  BY <1>1, <1>2, FiniteInduction, Zenon
<1> QED
  BY <1>3 DEF P

\* A sum that grows by one at one place
LEMMA SumGrows ==
  ASSUME NEW S, IsFiniteSet(S), NEW g, NEW e, NEW x \in S, NEW more \in Int,
         \A y \in S : g[y] \in Int, e[x] = g[x] + more, \A y \in S \ {x} : e[y] = g[y]
  PROVE  SumFunctionOnSet(e, S) = SumFunctionOnSet(g, S) + more
<1> DEFINE T == S \ {x}
<1>1. IsFiniteSet(T) /\ \A y \in S : e[y] \in Int
  BY FS_Subset
<1>2. SumFunctionOnSet(e, T) = SumFunctionOnSet(g, T)
  BY <1>1, SumOfSame
<1>3. SumFunctionOnSet(e, S) = e[x] + SumFunctionOnSet(e, T)
  BY <1>1, SumSplit
<1>4. SumFunctionOnSet(g, S) = g[x] + SumFunctionOnSet(g, T)
  BY SumSplit
<1>5. SumFunctionOnSet(g, T) \in Int /\ g[x] \in Int
  BY <1>1, SumIsNumber
<1> HIDE DEF T
<1> QED
  BY <1>2, <1>3, <1>4, <1>5

\* The last term of a sum over places in a row.
LEMMA SumOfNext ==
  ASSUME NEW k \in Nat, NEW g, \A y \in 0 .. k : g[y] \in Int
  PROVE  /\ SumFunctionOnSet(g, 0 .. k) = SumFunctionOnSet(g, 0 .. k - 1) + g[k]
         /\ SumFunctionOnSet(g, 0 .. k - 1) \in Int
<1>1. IsFiniteSet(0 .. k) /\ IsFiniteSet(0 .. k - 1)
  BY FS_Interval
<1>2. k \in 0 .. k /\ (0 .. k) \ {k} = 0 .. k - 1
  OBVIOUS
<1>3. SumFunctionOnSet(g, 0 .. k) = g[k] + SumFunctionOnSet(g, 0 .. k - 1)
  BY <1>1, <1>2, SumSplit
<1>4. SumFunctionOnSet(g, 0 .. k - 1) \in Int
  BY <1>1, <1>2, SumIsNumber
<1> QED
  BY <1>2, <1>3, <1>4

-----------------------------------------------------------------------------
(* Letters counted.                                                        *)

\* How often each letter comes up among the first k of a message
Places(t, k, c) == {p \in 0 .. k - 1 : t[p] = c}
Counted(t, k) == [c \in 0 .. 25 |-> Cardinality(Places(t, k, c))]

\* Where it comes up in a block behind them
InBlock(t, k, size, c) == {j \in 1 .. size : t[k + j - 1] = c}

\* Places are counted by a number.
LEMMA PlacesFinite ==
  ASSUME NEW t, NEW k \in Nat, NEW c
  PROVE  IsFiniteSet(Places(t, k, c)) /\ Cardinality(Places(t, k, c)) \in Nat
<1>1. IsFiniteSet(0 .. k - 1)
  BY FS_Interval
<1>2. Places(t, k, c) \in SUBSET (0 .. k - 1)
  BY DEF Places
<1>3. IsFiniteSet(Places(t, k, c))
  BY <1>1, <1>2, FS_Subset
<1> QED
  BY <1>3, FS_CardinalityType

\* A block of letters behind the first k of them
LEMMA CountedBlock ==
  ASSUME NEW t, NEW k \in Nat, NEW size \in Nat, NEW c
  PROVE  Cardinality(Places(t, k + size, c))
           = Cardinality(Places(t, k, c)) + Cardinality(InBlock(t, k, size, c))
<1> DEFINE A == Places(t, k, c)
           B == {p \in k .. k + size - 1 : t[p] = c}
           J == {j \in 1 .. size : t[k + j - 1] = c}
           g == [j \in J |-> k + j - 1]
<1>1. Places(t, k + size, c) = A \cup B
  <2>1. 0 .. k + size - 1 = 0 .. k - 1 \cup k .. k + size - 1
    OBVIOUS
  <2> QED
    BY <2>1 DEF Places
<1>2. A \cap B = {}
  BY DEF Places
<1>3. IsFiniteSet(1 .. size) /\ J \in SUBSET (1 .. size)
  BY FS_Interval
<1>4. IsFiniteSet(J)
  BY <1>3, FS_Subset
<1>5. /\ g \in [J -> B]
      /\ \A a, b \in J : g[a] = g[b] => a = b
      /\ \A p \in B : \E j \in J : g[j] = p
  <2>1. \A j \in J : k + j - 1 \in k .. k + size - 1 /\ k + j - 1 \in B
    OBVIOUS
  <2>2. \A p \in B : p - k + 1 \in J /\ k + (p - k + 1) - 1 = p
    <3> SUFFICES ASSUME NEW p \in B PROVE p - k + 1 \in J /\ k + (p - k + 1) - 1 = p
      OBVIOUS
    <3>1. p \in k .. k + size - 1 /\ t[p] = c
      OBVIOUS
    <3>2. p - k + 1 \in 1 .. size /\ k + (p - k + 1) - 1 = p
      BY <3>1
    <3> QED
      BY <3>1, <3>2
  <2>3. g \in [J -> B]
    BY <2>1
  <2>4. \A a, b \in J : g[a] = g[b] => a = b
    <3> SUFFICES ASSUME NEW a \in J, NEW b \in J, g[a] = g[b] PROVE a = b
      OBVIOUS
    <3>1. k + a - 1 = k + b - 1 /\ a \in Int /\ b \in Int
      OBVIOUS
    <3> QED
      BY <3>1
  <2>5. \A p \in B : \E j \in J : g[j] = p
    BY <2>2
  <2> QED
    BY <2>3, <2>4, <2>5
<1> HIDE DEF g
<1>6. g \in Bijection(J, B)
  BY <1>5 DEF Bijection, Injection, Surjection, IsInjective
<1>7. IsFiniteSet(B) /\ Cardinality(B) = Cardinality(J)
  <2>1. ExistsBijection(J, B)
    BY <1>6 DEF ExistsBijection
  <2> QED
    BY <1>4, <2>1, FS_Bijection
<1>8. IsFiniteSet(A)
  BY PlacesFinite
<1> HIDE DEF A, B, J
<1>9. Cardinality(A \cup B) = Cardinality(A) + Cardinality(B)
  <2>1. Cardinality(A \cup B) = Cardinality(A) + Cardinality(B) - Cardinality(A \cap B)
    BY <1>7, <1>8, FS_Union
  <2>2. Cardinality(A \cap B) = 0
    BY <1>2, FS_EmptySet
  <2>3. Cardinality(A) \in Nat /\ Cardinality(B) \in Nat
    BY <1>7, <1>8, FS_CardinalityType
  <2> QED
    BY <2>1, <2>2, <2>3
<1> QED
  BY <1>1, <1>7, <1>9 DEF A, J, InBlock

\* The letter that is counted next
LEMMA CountedNext ==
  ASSUME NEW t, NEW m \in Nat, NEW c
  PROVE  Cardinality(Places(t, m + 1, c))
           = Cardinality(Places(t, m, c)) + (IF c = t[m] THEN 1 ELSE 0)
<1> DEFINE J == {j \in 1 .. 1 : t[m + j - 1] = c}
<1>1. Cardinality(Places(t, m + 1, c)) = Cardinality(Places(t, m, c)) + Cardinality(J)
  <2>1. 1 \in Nat
    OBVIOUS
  <2> QED
    BY <2>1, CountedBlock DEF InBlock
<1>2. J = IF c = t[m] THEN {1} ELSE {}
  <2>1. 1 .. 1 = {1} /\ m + 1 - 1 = m
    OBVIOUS
  <2> QED
    BY <2>1
<1>3. Cardinality(J) = IF c = t[m] THEN 1 ELSE 0
  BY <1>2, FS_EmptySet, FS_Singleton
<1> HIDE DEF J
<1> QED
  BY <1>1, <1>3

\* ... makes their sum one more.
LEMMA CountedMore ==
  ASSUME NEW t, NEW m \in Nat, t[m] \in 0 .. 25,
         SumFunctionOnSet(Counted(t, m), 0 .. 25) = m
  PROVE  SumFunctionOnSet(Counted(t, m + 1), 0 .. 25) = m + 1
<1>1. PICK g : g = Counted(t, m)
  OBVIOUS
<1>2. PICK e : e = Counted(t, m + 1)
  OBVIOUS
<1>3. PICK x \in 0 .. 25 : x = t[m]
  OBVIOUS
<1>4. \A c \in 0 .. 25 : g[c] \in Int
  <2>1. \A c \in 0 .. 25 : g[c] = Cardinality(Places(t, m, c))
    BY <1>1 DEF Counted
  <2>2. \A c : Cardinality(Places(t, m, c)) \in Int
    BY PlacesFinite
  <2> QED
    BY <2>1, <2>2
<1>5. ASSUME NEW c \in 0 .. 25 PROVE e[c] = g[c] + (IF c = x THEN 1 ELSE 0)
  <2>1. e[c] = Cardinality(Places(t, m + 1, c)) /\ g[c] = Cardinality(Places(t, m, c))
    BY <1>1, <1>2 DEF Counted
  <2>2. Cardinality(Places(t, m + 1, c))
           = Cardinality(Places(t, m, c)) + (IF c = t[m] THEN 1 ELSE 0)
    BY CountedNext
  <2> QED
    BY <1>3, <2>1, <2>2
<1>6. \A c \in (0 .. 25) \ {x} : e[c] = g[c]
  <2> SUFFICES ASSUME NEW c \in (0 .. 25) \ {x} PROVE e[c] = g[c]
    OBVIOUS
  <2>1. e[c] = g[c] + 0 /\ g[c] \in Int
    BY <1>4, <1>5
  <2> QED
    BY <2>1
<1>7. e[x] = g[x] + 1 /\ 1 \in Int
  BY <1>5
<1>8. IsFiniteSet(0 .. 25)
  <2>1. 0 \in Int /\ 25 \in Int
    OBVIOUS
  <2> QED
    BY <2>1, FS_Interval
<1>9. SumFunctionOnSet(e, 0 .. 25) = SumFunctionOnSet(g, 0 .. 25) + 1
  BY <1>4, <1>6, <1>7, <1>8, SumGrows
<1> QED
  BY <1>1, <1>2, <1>9

\* Together the letters come up as often as there are places.
LEMMA CountedAll ==
  ASSUME NEW t \in [0 .. CT - 1 -> 0 .. 25], NEW k \in 0 .. CT
  PROVE  /\ Counted(t, k) \in [0 .. 25 -> Nat]
         /\ SumFunctionOnSet(Counted(t, k), 0 .. 25) = k
<1> DEFINE Sum(m) == SumFunctionOnSet(Counted(t, m), 0 .. 25)
           P == {m \in Nat : Sum(m) = m}
<1>1. \A m \in Nat : Counted(t, m) \in [0 .. 25 -> Nat]
  BY PlacesFinite DEF Counted
<1>2. IsFiniteSet(0 .. 25)
  <2>1. 0 \in Int /\ 25 \in Int
    OBVIOUS
  <2> QED
    BY <2>1, FS_Interval
<1>3. 0 \in P
  <2> DEFINE none == [c \in 0 .. 25 |-> 0]
  <2>1. \A c : Places(t, 0, c) = {}
    BY DEF Places
  <2>2. Counted(t, 0) = none
    BY <2>1, FS_EmptySet DEF Counted
  <2>3. \A s \in SUBSET (0 .. 25) : SumFunctionOnSet(none, s) = 0
    <3> DEFINE R == {s \in SUBSET (0 .. 25) : SumFunctionOnSet(none, s) = 0}
    <3>1. {} \in R
      BY SumOfNone
    <3> SUFFICES ASSUME NEW T \in SUBSET (0 .. 25) PROVE T \in R
      OBVIOUS
    <3>2. ASSUME NEW s \in SUBSET T, s # {}, \A x \in s : s \ {x} \in R PROVE s \in R
      <4>1. first(s) \in s /\ IsFiniteSet(s)
        BY <1>2, <3>2, FirstChosen, FS_Subset
      <4>2. SumFunctionOnSet(none, s) = none[first(s)] + SumFunctionOnSet(none, s \ {first(s)})
        BY <3>2, <4>1, SumByFirst
      <4>3. SumFunctionOnSet(none, s \ {first(s)}) = 0
        BY <3>2, <4>1
      <4>4. none[first(s)] = 0
        BY <4>1
      <4> HIDE DEF none
      <4> QED
        BY <4>2, <4>3, <4>4
    <3>3. IsFiniteSet(T)
      BY <1>2, FS_Subset
    <3> HIDE DEF R
    <3> QED
      BY <3>1, <3>2, <3>3, FiniteInduction, Zenon
  <2> QED
    BY <2>2, <2>3
<1>4. ASSUME NEW m \in 0 .. CT - 1, m \in P PROVE m + 1 \in P
  <2>1. m \in Nat /\ m + 1 \in Nat /\ t[m] \in 0 .. 25
    BY DEF CT
  <2>2. SumFunctionOnSet(Counted(t, m), 0 .. 25) = m
    BY <1>4
  <2> QED
    BY <2>1, <2>2, CountedMore
<1> HIDE DEF P
<1>5. 0 .. CT \subseteq P
  <2>1. CT \in Nat
    BY DEF CT
  <2> QED
    BY <1>3, <1>4, <2>1, KT!InductionUpTo
<1>6. k \in P /\ k \in Nat
  BY <1>5 DEF CT
<1> QED
  BY <1>1, <1>6 DEF P

-----------------------------------------------------------------------------
(* The index of coincidence.                                               *)

\* A byte of the count less one
LEMMA ByteBelow ==
  ASSUME NEW z \in Int, -1 <= z, z <= 127
  PROVE  Signed(z % 256) = z
<1>1. CASE z < 0
  <2>1. z = -1 /\ z % 256 = z + 256
    BY <1>1
  <2>2. z % 256 >= 128 /\ (z % 256) - 256 = z
    BY <2>1
  <2> QED
    BY <2>2 DEF Signed
<1>2. CASE z >= 0
  <2>1. z % 256 = z
    BY <1>2
  <2>2. ~ (z >= 128)
    OBVIOUS
  <2> QED
    BY <2>1, <2>2 DEF Signed
<1> QED
  BY <1>1, <1>2

\* A sum of sixteen bits that is small enough
LEMMA SmallWord ==
  ASSUME NEW z \in Nat, z <= 31750
  PROVE  Word(z) = z /\ Saturated(z) = z /\ z # sat_max
<1>1. z % 65536 = z
  OBVIOUS
<1>2. ~ (z > 32767) /\ ~ (z < -32768) /\ z # 32767
  OBVIOUS
<1> QED
  BY <1>1, <1>2 DEF Word, Saturated, sat_max

\* As long as no letter comes up 129 times: the signed byte is the count less
\* one, and a product has sixteen bits.
LEMMA ProductOfBytes ==
  ASSUME NEW a \in Nat, a <= 128
  PROVE  /\ a * Signed((a - 1) % 256) = Pairs(a)
         /\ Pairs(a) \in Nat /\ Pairs(a) <= 127 * a
<1>1. Signed((a - 1) % 256) = a - 1
  <2>1. PICK z \in Int : z = a - 1
    OBVIOUS
  <2>2. Signed(z % 256) = z
    BY <2>1, ByteBelow
  <2> QED
    BY <2>1, <2>2
<1>2. a * (a - 1) \in Nat /\ a * (a - 1) <= 127 * a
  <2>1. CASE a = 0
    BY <2>1
  <2>2. CASE a > 0
    <3>1. PICK b \in Nat : b = a - 1 /\ b <= 127
      BY <2>2
    <3>2. a * b \in Nat /\ a * b <= a * 127
      BY <3>1
    <3>3. a * 127 = 127 * a
      OBVIOUS
    <3> QED
      BY <3>1, <3>2, <3>3
  <2> QED
    BY <2>1, <2>2
<1> QED
  BY <1>1, <1>2 DEF Pairs

\* Two terms of a sum are not more than all of it.
LEMMA TwoOfSum ==
  ASSUME NEW S, IsFiniteSet(S), NEW g, \A y \in S : g[y] \in Nat,
         NEW x \in S, NEW y \in S \ {x}
  PROVE  g[x] + g[y] <= SumFunctionOnSet(g, S)
<1> DEFINE T == S \ {x}
           U == T \ {y}
<1>1. IsFiniteSet(T) /\ IsFiniteSet(U) /\ \A z \in S : g[z] \in Int
  BY FS_Subset
<1>2. SumFunctionOnSet(g, S) = g[x] + SumFunctionOnSet(g, T)
  BY <1>1, SumSplit
<1>3. SumFunctionOnSet(g, T) = g[y] + SumFunctionOnSet(g, U)
  BY <1>1, SumSplit
<1>4. SumFunctionOnSet(g, U) \in Nat
  <2>1. \A z \in U : g[z] \in Nat /\ g[z] <= 127 * g[z]
    OBVIOUS
  <2> HIDE DEF U
  <2> QED
    BY <1>1, <2>1, SumBelow
<1>5. g[x] \in Nat /\ g[y] \in Nat
  OBVIOUS
<1> HIDE DEF T, U
<1> QED
  BY <1>2, <1>3, <1>4, <1>5

\* A part of a sum is not more than all of it.
LEMMA PartOfSum ==
  ASSUME NEW S, IsFiniteSet(S), NEW g, \A y \in S : g[y] \in Nat, NEW T \in SUBSET S
  PROVE  SumFunctionOnSet(g, T) \in Nat /\ SumFunctionOnSet(g, T) <= SumFunctionOnSet(g, S)
<1>1. IsFiniteSet(T) /\ IsFiniteSet(S \ T) /\ \A z \in S : g[z] \in Int
  BY FS_Subset
<1>2. SumFunctionOnSet(g, S) = SumFunctionOnSet(g, T) + SumFunctionOnSet(g, S \ T)
  BY <1>1, SumOfParts
<1>3. SumFunctionOnSet(g, T) \in Nat /\ SumFunctionOnSet(g, S \ T) \in Nat
  <2>1. \A z \in S : g[z] \in Nat /\ g[z] <= 127 * g[z]
    OBVIOUS
  <2> QED
    BY <1>1, <2>1, SumBelow
<1> QED
  BY <1>2, <1>3

\* Four terms
LEMMA SumOfFour ==
  ASSUME NEW g, \A y \in 0 .. 3 : g[y] \in Int
  PROVE  SumFunctionOnSet(g, 0 .. 3) = g[0] + g[1] + g[2] + g[3]
<1> DEFINE Sum(k) == SumFunctionOnSet(g, 0 .. k)
<1>1. ASSUME NEW k \in Nat, k <= 3
      PROVE  Sum(k) = Sum(k - 1) + g[k]
  <2>1. \A y \in 0 .. k : y \in 0 .. 3
    BY <1>1
  <2>2. \A y \in 0 .. k : g[y] \in Int
    BY <2>1
  <2> QED
    BY <2>2, SumOfNext
<1>2. Sum(0 - 1) = 0
  <2>1. 0 .. 0 - 1 = {}
    OBVIOUS
  <2> QED
    BY <2>1, SumOfNone
<1> HIDE DEF Sum
<1>3. 3 - 1 = 2 /\ 2 - 1 = 1 /\ 1 - 1 = 0
  OBVIOUS
<1>4. g[0] \in Int /\ g[1] \in Int /\ g[2] \in Int /\ g[3] \in Int
  OBVIOUS
<1>5. /\ Sum(0) = Sum(0 - 1) + g[0] /\ Sum(1) = Sum(1 - 1) + g[1]
      /\ Sum(2) = Sum(2 - 1) + g[2] /\ Sum(3) = Sum(3 - 1) + g[3]
  <2>1. 0 \in Nat /\ 1 \in Nat /\ 2 \in Nat /\ 3 \in Nat /\ 0 <= 3 /\ 1 <= 3 /\ 2 <= 3 /\ 3 <= 3
    OBVIOUS
  <2> QED
    BY <1>1, <2>1
<1>6. Sum(3) = g[0] + g[1] + g[2] + g[3]
  BY <1>2, <1>3, <1>4, <1>5
<1> QED
  BY <1>6 DEF Sum

\* What is true of the counts of a message when no letter comes up too often
FewOfEach ==
  /\ f \in [0 .. 25 -> Nat] /\ \A c \in 0 .. 25 : f[c] < 129
  /\ SumFunctionOnSet(f, 0 .. 25) <= CT

\* Then the pairs of equal letters fit a word.
LEMMA FewPairs ==
  ASSUME FewOfEach
  PROVE  /\ \A c \in 0 .. 25 : /\ f[c] \in Nat /\ f[c] <= 128
                                /\ PairsOf[c] \in Nat /\ PairsOf[c] = Pairs(f[c])
         /\ SumFunctionOnSet(PairsOf, 0 .. 25) \in Nat
         /\ SumFunctionOnSet(PairsOf, 0 .. 25) <= 31750
         /\ IsFiniteSet(0 .. 25)
<1>1. IsFiniteSet(0 .. 25)
  <2>1. 0 \in Int /\ 25 \in Int
    OBVIOUS
  <2> QED
    BY <2>1, FS_Interval
<1>2. ASSUME NEW c \in 0 .. 25
      PROVE  /\ f[c] \in Nat /\ f[c] <= 128 /\ PairsOf[c] = Pairs(f[c])
             /\ PairsOf[c] \in Nat /\ PairsOf[c] <= 127 * f[c]
  <2>1. f[c] \in Nat /\ f[c] < 129
    BY DEF FewOfEach
  <2>3. f[c] <= 128
    BY <2>1
  <2>2. PairsOf[c] = Pairs(f[c])
    BY DEF PairsOf
  <2> QED
    BY <2>1, <2>2, <2>3, ProductOfBytes
<1>3. \A c \in 0 .. 25 : PairsOf[c] \in Nat /\ f[c] \in Nat /\ PairsOf[c] <= 127 * f[c]
  BY <1>2
<1>4. /\ SumFunctionOnSet(PairsOf, 0 .. 25) \in Nat /\ SumFunctionOnSet(f, 0 .. 25) \in Nat
      /\ SumFunctionOnSet(PairsOf, 0 .. 25) <= 127 * SumFunctionOnSet(f, 0 .. 25)
  BY <1>1, <1>3, SumBelow
<1>5. SumFunctionOnSet(f, 0 .. 25) <= 250
  BY DEF FewOfEach, CT
<1>6. SumFunctionOnSet(PairsOf, 0 .. 25) <= 31750
  BY <1>4, <1>5
<1> QED
  BY <1>1, <1>2, <1>4, <1>6

\* The sum of all pairs
LEMMA AllPairs == SumFunction(PairsOf) = SumFunctionOnSet(PairsOf, 0 .. 25)
<1>1. DOMAIN PairsOf = 0 .. 25
  BY DEF PairsOf
<1> QED
  BY <1>1 DEF SumFunction

\* Every fourth letter
Class(s) == {c \in 0 .. 25 : c % 4 = s}

\* A sum over all letters is four sums over every fourth of them.
LEMMA SumOfClasses ==
  ASSUME NEW g, \A c \in 0 .. 25 : g[c] \in Int
  PROVE  /\ SumFunctionOnSet(g, 0 .. 25) = SumFunctionOnSet(g, Class(0)) + SumFunctionOnSet(g, Class(1))
                                           + SumFunctionOnSet(g, Class(2)) + SumFunctionOnSet(g, Class(3))
         /\ \A s : SumFunctionOnSet(g, Class(s)) \in Int
<1> DEFINE Sum(T) == SumFunctionOnSet(g, T)
           R1 == (0 .. 25) \ Class(0)
           R2 == R1 \ Class(1)
<1>1. Class(0) \in SUBSET (0 .. 25) /\ R1 \in SUBSET (0 .. 25)
  BY DEF Class
<1>2. Class(1) \in SUBSET R1 /\ R2 \in SUBSET (0 .. 25)
  BY DEF Class
<1>3. Class(2) \in SUBSET R2 /\ R2 \ Class(2) = Class(3)
  <2>1. \A c \in 0 .. 25 : c % 4 \in {0, 1, 2, 3}
    OBVIOUS
  <2> QED
    BY <2>1 DEF Class
<1>4. IsFiniteSet(0 .. 25)
  <2>1. 0 \in Int /\ 25 \in Int
    OBVIOUS
  <2> QED
    BY <2>1, FS_Interval
<1> HIDE DEF R1, R2
<1>5. IsFiniteSet(R1) /\ IsFiniteSet(R2)
  BY <1>1, <1>2, <1>4, FS_Subset
<1>6. Sum(0 .. 25) = Sum(Class(0)) + Sum(R1)
  BY <1>1, <1>4, SumOfParts DEF R1
<1>7. Sum(R1) = Sum(Class(1)) + Sum(R2)
  <2>1. \A c \in R1 : g[c] \in Int
    BY <1>1
  <2> QED
    BY <1>2, <1>5, <2>1, SumOfParts DEF R2
<1>8. Sum(R2) = Sum(Class(2)) + Sum(Class(3))
  <2>1. \A c \in R2 : g[c] \in Int
    BY <1>2
  <2>2. Sum(R2) = Sum(Class(2)) + Sum(R2 \ Class(2))
    BY <1>3, <1>5, <2>1, SumOfParts
  <2> QED
    BY <1>3, <2>2
<1>9. ASSUME NEW s PROVE Sum(Class(s)) \in Int
  <2>1. Class(s) \in SUBSET (0 .. 25)
    BY DEF Class
  <2>2. IsFiniteSet(Class(s)) /\ \A c \in Class(s) : g[c] \in Int
    BY <1>4, <2>1, FS_Subset
  <2> QED
    BY <2>2, SumIsNumber
<1>10. Sum(Class(0)) \in Int /\ Sum(Class(1)) \in Int /\ Sum(Class(2)) \in Int /\ Sum(Class(3)) \in Int
  BY <1>9
<1>11. \A s : Sum(Class(s)) \in Int
  BY <1>9
<1> HIDE DEF Sum
<1>12. Sum(0 .. 25) = Sum(Class(0)) + Sum(Class(1)) + Sum(Class(2)) + Sum(Class(3))
  BY <1>6, <1>7, <1>8, <1>10
<1> QED
  BY <1>11, <1>12 DEF Sum

\* The scalar function: four sums of every fourth letter.
LEMMA BasicSumExact ==
  ASSUME FewOfEach
  PROVE  IcSumBasic = SumFunction(PairsOf)
<1> DEFINE Sum(T) == SumFunctionOnSet(PairsOf, T)
           q == [s \in 0 .. 3 |-> Word(Sum(Class(s)))]
<1>1. /\ IsFiniteSet(0 .. 25) /\ \A c \in 0 .. 25 : PairsOf[c] \in Nat
      /\ Sum(0 .. 25) \in Nat /\ Sum(0 .. 25) <= 31750
  BY FewPairs
<1>2. /\ Sum(0 .. 25) = Sum(Class(0)) + Sum(Class(1)) + Sum(Class(2)) + Sum(Class(3))
      /\ \A s : Sum(Class(s)) \in Int
  <2>1. \A c \in 0 .. 25 : PairsOf[c] \in Int
    BY <1>1
  <2> QED
    BY <2>1, SumOfClasses
<1>3. ASSUME NEW s \in 0 .. 3 PROVE q[s] = Sum(Class(s))
  <2>1. Class(s) \in SUBSET (0 .. 25)
    BY DEF Class
  <2>2. Sum(Class(s)) \in Nat /\ Sum(Class(s)) <= Sum(0 .. 25)
    BY <1>1, <2>1, PartOfSum
  <2>3. PICK a : a = Sum(Class(s))
    OBVIOUS
  <2>4. a \in Nat /\ a <= 31750
    <3> HIDE DEF Sum
    <3> QED
      BY <1>1, <2>2, <2>3
  <2>5. Word(a) = a
    BY <2>4, SmallWord
  <2>6. q[s] = Word(Sum(Class(s)))
    OBVIOUS
  <2> HIDE DEF q, Sum
  <2> QED
    BY <2>3, <2>5, <2>6
<1>4. IcSumBasic = SumFunctionOnSet(q, 0 .. 3)
  <2>1. DOMAIN q = 0 .. 3
    OBVIOUS
  <2>2. IcSumBasic = SumFunction(q)
    BY DEF IcSumBasic, Class
  <2> HIDE DEF q
  <2> QED
    BY <2>1, <2>2 DEF SumFunction
<1> HIDE DEF q
<1>5. SumFunctionOnSet(q, 0 .. 3) = q[0] + q[1] + q[2] + q[3]
  <2>1. \A s \in 0 .. 3 : q[s] \in Int
    BY <1>2, <1>3
  <2> QED
    BY <2>1, SumOfFour
<1>6. q[0] = Sum(Class(0)) /\ q[1] = Sum(Class(1)) /\ q[2] = Sum(Class(2)) /\ q[3] = Sum(Class(3))
  BY <1>3
<1>7. SumFunction(PairsOf) = Sum(0 .. 25)
  BY AllPairs
<1> HIDE DEF Sum
<1> QED
  BY <1>2, <1>4, <1>5, <1>6, <1>7

\* A sum over all letters is one over thirteen pairs of them.
LEMMA SumOfLanes ==
  ASSUME NEW g, NEW w, \A c \in 0 .. 25 : g[c] \in Int,
         \A p \in 0 .. 12 : w[p] = g[2 * p] + g[2 * p + 1]
  PROVE  SumFunctionOnSet(w, 0 .. 12) = SumFunctionOnSet(g, 0 .. 25)
<1> DEFINE R == {k \in Nat : SumFunctionOnSet(w, 0 .. k - 1) = SumFunctionOnSet(g, 0 .. 2 * k - 1)}
<1>1. 0 \in R
  <2>1. 0 .. 0 - 1 = {} /\ 0 .. 2 * 0 - 1 = {}
    OBVIOUS
  <2> QED
    BY <2>1, SumOfNone
<1>2. ASSUME NEW k \in 0 .. 13 - 1, k \in R PROVE k + 1 \in R
  <2>1. ASSUME NEW p \in 0 .. 12
        PROVE  2 * p \in 0 .. 25 /\ 2 * p + 1 \in 0 .. 25 /\ w[p] = g[2 * p] + g[2 * p + 1] /\ w[p] \in Int
    <3>1. 2 * p \in 0 .. 25 /\ 2 * p + 1 \in 0 .. 25
      OBVIOUS
    <3> QED
      BY <3>1
  <2>2. /\ SumFunctionOnSet(w, 0 .. k) = SumFunctionOnSet(w, 0 .. k - 1) + w[k]
        /\ SumFunctionOnSet(w, 0 .. k - 1) \in Int
    <3>1. k \in Nat /\ \A y \in 0 .. k : y \in 0 .. 12
      OBVIOUS
    <3>2. \A y \in 0 .. k : w[y] \in Int
      BY <2>1, <3>1
    <3> QED
      BY <3>1, <3>2, SumOfNext
  <2>3. PICK m \in Nat : m = 2 * k
    OBVIOUS
  <2>4. m + 1 \in Nat /\ m + 1 <= 25 /\ (m + 1) - 1 = m
    BY <2>3
  <2>5. SumFunctionOnSet(g, 0 .. m + 1) = SumFunctionOnSet(g, 0 .. m) + g[m + 1]
    <3>1. \A y \in 0 .. m + 1 : y \in 0 .. 25
      BY <2>4
    <3>2. \A y \in 0 .. m + 1 : g[y] \in Int
      BY <3>1
    <3> QED
      BY <2>4, <3>2, SumOfNext
  <2>6. /\ SumFunctionOnSet(g, 0 .. m) = SumFunctionOnSet(g, 0 .. m - 1) + g[m]
        /\ SumFunctionOnSet(g, 0 .. m - 1) \in Int
    <3>1. \A y \in 0 .. m : y \in 0 .. 25
      BY <2>4
    <3>2. \A y \in 0 .. m : g[y] \in Int
      BY <3>1
    <3> QED
      BY <3>2, SumOfNext
  <2>7. w[k] = g[m] + g[m + 1] /\ g[m] \in Int /\ g[m + 1] \in Int
    <3>1. k \in 0 .. 12
      OBVIOUS
    <3>2. m \in 0 .. 25 /\ m + 1 \in 0 .. 25
      BY <2>3, <2>4
    <3> QED
      BY <2>3, <3>1, <3>2
  <2>8. SumFunctionOnSet(w, 0 .. k - 1) = SumFunctionOnSet(g, 0 .. m - 1)
    BY <1>2, <2>3
  <2>9. SumFunctionOnSet(w, 0 .. k) = SumFunctionOnSet(g, 0 .. m + 1)
    <3>1. PICK a \in Int : a = SumFunctionOnSet(g, 0 .. m - 1)
      BY <2>6
    <3>2. PICK b \in Int : b = g[m]
      BY <2>7
    <3>3. PICK c \in Int : c = g[m + 1]
      BY <2>7
    <3>4. SumFunctionOnSet(w, 0 .. k) = a + (b + c)
      BY <2>2, <2>7, <2>8, <3>1, <3>2, <3>3
    <3>5. SumFunctionOnSet(g, 0 .. m + 1) = (a + b) + c
      BY <2>5, <2>6, <3>1, <3>2, <3>3
    <3>6. a + (b + c) = (a + b) + c
      OBVIOUS
    <3> QED
      BY <3>4, <3>5, <3>6
  <2>10. k + 1 \in Nat /\ (k + 1) - 1 = k /\ 2 * (k + 1) - 1 = m + 1
    BY <2>3
  <2> QED
    BY <2>9, <2>10
<1> HIDE DEF R
<1>3. 13 \in R
  <2>1. 13 \in Nat /\ 13 \in 0 .. 13
    OBVIOUS
  <2>2. 0 .. 13 \subseteq R
    BY <1>1, <1>2, <2>1, KT!InductionUpTo
  <2> QED
    BY <2>1, <2>2
<1>4. 13 - 1 = 12 /\ 2 * 13 - 1 = 25
  OBVIOUS
<1> QED
  BY <1>3, <1>4 DEF R

\* A lane of two letters is their pairs, and is not saturated.
LEMMA LaneExact ==
  ASSUME FewOfEach, NEW p \in 0 .. 12
  PROVE  /\ maddubs(f[2 * p], f[2 * p + 1]) = PairsOf[2 * p] + PairsOf[2 * p + 1]
         /\ PairsOf[2 * p] + PairsOf[2 * p + 1] \in Nat
         /\ PairsOf[2 * p] + PairsOf[2 * p + 1] <= 31750
<1>1. PICK x \in 0 .. 25 : x = 2 * p
  OBVIOUS
<1>2. PICK y \in (0 .. 25) \ {x} : y = 2 * p + 1
  BY <1>1
<1>3. PICK a \in Nat : a = f[x] /\ a <= 128 /\ PairsOf[x] = Pairs(a)
  BY FewPairs
<1>4. PICK b \in Nat : b = f[y] /\ b <= 128 /\ PairsOf[y] = Pairs(b)
  BY FewPairs
<1>5. a * Signed((a - 1) % 256) = Pairs(a) /\ Pairs(a) \in Nat
  BY <1>3, ProductOfBytes
<1>6. b * Signed((b - 1) % 256) = Pairs(b) /\ Pairs(b) \in Nat
  BY <1>4, ProductOfBytes
<1>7. PairsOf[x] + PairsOf[y] <= SumFunctionOnSet(PairsOf, 0 .. 25)
  <2>1. IsFiniteSet(0 .. 25) /\ \A c \in 0 .. 25 : PairsOf[c] \in Nat
    BY FewPairs
  <2> QED
    BY <2>1, TwoOfSum
<1>8. SumFunctionOnSet(PairsOf, 0 .. 25) \in Nat /\ SumFunctionOnSet(PairsOf, 0 .. 25) <= 31750
  BY FewPairs
<1>9. PICK z \in Nat : z = Pairs(a) + Pairs(b) /\ z <= 31750
  BY <1>3, <1>4, <1>5, <1>6, <1>7, <1>8
<1>10. maddubs(a, b) = z
  <2>1. maddubs(a, b) = Saturated(z)
    BY <1>5, <1>6, <1>9 DEF maddubs
  <2> QED
    BY <1>9, <2>1, SmallWord
<1> QED
  BY <1>1, <1>2, <1>3, <1>4, <1>9, <1>10

\* The vector functions: thirteen lanes of two letters each, none saturated.
LEMMA VectorSumExact ==
  ASSUME FewOfEach
  PROVE  IcSumVector = SumFunction(PairsOf)
<1> DEFINE lane == [p \in 0 .. 12 |-> maddubs(f[2 * p], f[2 * p + 1])]
           words == [p \in 0 .. 12 |-> Word(lane[p])]
<1>1. ASSUME NEW p \in 0 .. 12
      PROVE  /\ lane[p] = PairsOf[2 * p] + PairsOf[2 * p + 1] /\ lane[p] # sat_max
             /\ words[p] = PairsOf[2 * p] + PairsOf[2 * p + 1]
  <2>1. PICK z \in Nat : z = PairsOf[2 * p] + PairsOf[2 * p + 1] /\ z <= 31750
                         /\ maddubs(f[2 * p], f[2 * p + 1]) = z
    BY LaneExact
  <2>2. Word(z) = z /\ z # sat_max
    BY <2>1, SmallWord
  <2>3. lane[p] = z /\ words[p] = Word(lane[p])
    BY <2>1
  <2> HIDE DEF lane, words
  <2> QED
    BY <2>1, <2>2, <2>3
<1>2. IcSumVector = Word(SumFunction(words))
  <2>1. ~ \E p \in 0 .. 12 : lane[p] = sat_max
    BY <1>1
  <2> QED
    BY <2>1 DEF IcSumVector
<1>3. SumFunction(words) = SumFunctionOnSet(words, 0 .. 12)
  <2>1. DOMAIN words = 0 .. 12
    OBVIOUS
  <2> HIDE DEF words
  <2> QED
    BY <2>1 DEF SumFunction
<1> HIDE DEF words, lane
<1>4. PICK total \in Nat : total = SumFunctionOnSet(PairsOf, 0 .. 25) /\ total <= 31750
  BY FewPairs
<1>5. SumFunctionOnSet(words, 0 .. 12) = total
  <2>1. \A c \in 0 .. 25 : PairsOf[c] \in Int
    BY FewPairs
  <2>2. SumFunctionOnSet(words, 0 .. 12) = SumFunctionOnSet(PairsOf, 0 .. 25)
    BY <1>1, <2>1, SumOfLanes
  <2> QED
    BY <1>4, <2>2
<1>6. Word(total) = total
  BY <1>4, SmallWord
<1> QED
  BY <1>2, <1>3, <1>4, <1>5, <1>6, AllPairs

\* What has been counted of the message, and what the sum is when all of it has.
CountInv ==
  /\ at # "vectors" /\ f = Counted(Texts[text], i)
  /\ at = "done" => i = clen /\ ((\A c \in 0 .. 25 : f[c] < 129) => result = IndexOfCoincidence)

IcInv ==
  /\ text = job.text
  /\ step = "score" /\ score = "ic" => CountInv

\* The message is one of letters.
LEMMA MessageOfLetters ==
  ASSUME MainInv, IcInv
  PROVE  Texts[text] \in [0 .. CT - 1 -> 0 .. 25]
<1>1. job \in Jobs
  BY DEF MainInv
<1>2. text = job.text
  BY DEF IcInv
<1>3. Texts[job.text] \in [0 .. CT - 1 -> 0 .. 25]
  BY <1>1, JobsAssumption, SMTT(30)
<1> QED
  BY <1>2, <1>3, Zenon

\* The part of the message that is scored is not longer than the message.
LEMMA LengthFits ==
  ASSUME clen \in 3 .. CT
  PROVE  clen \in 0 .. CT /\ clen <= CT
<1>1. CT \in Nat
  BY DEF CT
<1> QED
  BY <1>1

\* When all letters are counted, each sum is the index of coincidence.
LEMMA SumsAreIndex ==
  ASSUME Texts[text] \in [0 .. CT - 1 -> 0 .. 25], clen \in 3 .. CT,
         f = Counted(Texts[text], clen), \A c \in 0 .. 25 : f[c] < 129
  PROVE  IcSumBasic = IndexOfCoincidence /\ IcSumVector = IndexOfCoincidence
<1>1. clen \in 0 .. CT /\ clen <= CT
  BY LengthFits
<1>2. Counted(Texts[text], clen) \in [0 .. 25 -> Nat] /\ SumFunctionOnSet(Counted(Texts[text], clen), 0 .. 25) = clen
  BY <1>1, CountedAll
<1>3. FewOfEach
  BY <1>1, <1>2 DEF FewOfEach
<1>4. PairsOf = [c \in 0 .. 25 |-> Pairs(Cardinality({p \in 0 .. clen - 1 : Texts[text][p] = c}))]
  BY DEF PairsOf, Counted, Places
<1>5. SumFunction(PairsOf) = IndexOfCoincidence
  BY <1>4 DEF IndexOfCoincidence
<1> QED
  BY <1>3, <1>5, BasicSumExact, VectorSumExact

\* A block of letters is counted.
LEMMA BlockCounted ==
  ASSUME i \in Nat, f = Counted(Texts[text], i), NEW block, NEW size \in Nat,
         DOMAIN block = 1 .. size, \A j \in 1 .. size : block[j] = i + j - 1,
         Count(block), i' = i + size, text' = text
  PROVE  f' = Counted(Texts[text'], i')
<1> DEFINE t == Texts[text]
           more(c) == {j \in DOMAIN block : t[block[j]] = c}
<1>1. f' = [c \in 0 .. 25 |-> f[c] + Cardinality(more(c))]
  BY DEF Count
<1>2. ASSUME NEW c \in 0 .. 25
      PROVE  f[c] + Cardinality(more(c)) = Cardinality(Places(t, i + size, c))
  <2>1. f[c] = Cardinality(Places(t, i, c))
    BY DEF Counted
  <2>2. more(c) = InBlock(t, i, size, c)
    BY DEF InBlock
  <2> HIDE DEF t, more
  <2>3. PICK k \in Nat : k = i
    OBVIOUS
  <2>4. Cardinality(Places(t, k + size, c)) = Cardinality(Places(t, k, c)) + Cardinality(InBlock(t, k, size, c))
    BY CountedBlock
  <2> QED
    BY <2>1, <2>2, <2>3, <2>4
<1>3. Counted(t, i + size) = [c \in 0 .. 25 |-> Cardinality(Places(t, i + size, c))]
  BY DEF Counted
<1> HIDE DEF t, more
<1>4. f' = Counted(t, i + size)
  BY <1>1, <1>2, <1>3
<1> QED
  BY <1>4 DEF t

\* A step of a function of the index of coincidence
LEMMA CountStep ==
  ASSUME MainInv, IcInv, WalkInv, step = "score", score = "ic", ComputeScore
  PROVE  CountInv' /\ text' = text
<1>1. /\ CountInv /\ Texts[text] \in [0 .. CT - 1 -> 0 .. 25] /\ clen \in 3 .. CT
      /\ clen \in Nat /\ i \in Nat /\ n(score) = 1
  <2>1. CountInv
    BY DEF IcInv
  <2>2. Texts[text] \in [0 .. CT - 1 -> 0 .. 25]
    BY MessageOfLetters
  <2>3. clen \in 3 .. CT
    BY DEF MainInv
  <2>4. clen \in Nat
    BY <2>3 DEF CT
  <2>5. i \in Nat
    BY <2>4 DEF WalkInv
  <2> QED
    BY <2>1, <2>2, <2>3, <2>4, <2>5, Sizes
<1>2. fn \in {"icscoreBasic", "ComputeIcscoreFromDecodedMsgSsse3", "ComputeIcscoreFromDecodedMsgAvx2"}
  BY DEF WalkInv, FunctionFits
<1>3. CASE BasicBlock /\ Count(Block)
  <2>1. at = "letters" /\ i < clen /\ i' = i + Len(Block) /\ UNCHANGED << text, at >>
    BY <1>3 DEF BasicBlock
  <2>2. /\ Len(Block) \in {1, 4, 16} /\ DOMAIN Block = 1 .. Len(Block)
        /\ \A j \in 1 .. Len(Block) : Block[j] = i + j - 1
    BY <1>1, <2>1, BlockLetters
  <2>3. f' = Counted(Texts[text'], i')
    <3>1. PICK size \in Nat : size = Len(Block)
      BY <2>2
    <3>2. DOMAIN Block = 1 .. size /\ \A j \in 1 .. size : Block[j] = i + j - 1
      BY <2>2, <3>1
    <3>3. f = Counted(Texts[text], i) /\ i' = i + size /\ Count(Block) /\ text' = text
      BY <1>1, <1>3, <2>1, <3>1 DEF CountInv
    <3> QED
      BY <1>1, <3>2, <3>3, BlockCounted
  <2> QED
    BY <2>1, <2>3 DEF CountInv
<1>4. CASE CountLetters
  <2>1. at = "letters" /\ i' = i + 1 /\ UNCHANGED << text, at >> /\ Count(decode(0))
    BY <1>4 DEF CountLetters, WindowBlock
  <2>2. DOMAIN decode(0) = 1 .. 1 /\ \A j \in 1 .. 1 : decode(0)[j] = i + j - 1
    BY <1>1 DEF decode
  <2>3. f' = Counted(Texts[text'], i')
    <3>1. 1 \in Nat /\ f = Counted(Texts[text], i)
      BY <1>1 DEF CountInv
    <3> QED
      BY <1>1, <2>1, <2>2, <3>1, BlockCounted
  <2> QED
    BY <2>1, <2>3 DEF CountInv
<1>5. ASSUME NEW sum \in {IcSumBasic, IcSumVector}, ReturnIc(sum) PROVE CountInv' /\ text' = text
  <2>1. /\ at = "letters" /\ i >= clen /\ at' = "done" /\ result' = sum
        /\ UNCHANGED << text, clen, i, f >>
    BY <1>5 DEF ReturnIc
  <2>2. i = clen
    <3>1. i <= clen
      BY <1>1, <2>1 DEF WalkInv, HeldBefore
    <3> QED
      BY <1>1, <2>1, <3>1
  <2>3. (\A c \in 0 .. 25 : f[c] < 129) => sum = IndexOfCoincidence
    BY <1>1, <2>2, SumsAreIndex DEF CountInv
  <2>4. IndexOfCoincidence' = IndexOfCoincidence
    BY <2>1 DEF IndexOfCoincidence
  <2>5. f' = Counted(Texts[text'], i')
    BY <1>1, <2>1 DEF CountInv
  <2> QED
    BY <2>1, <2>2, <2>3, <2>4, <2>5 DEF CountInv
<1> QED
  BY <1>2, <1>3, <1>4, <1>5 DEF ComputeScore, triscoreBasic, biscoreBasic, uniscoreBasic, icscoreBasic,
     ComputeUniscoreFromDecodedMsg, ComputeBiscoreFromDecodedMsg,
     ComputeTriscoreFromDecodedMsgSse2, ComputeBiscoreFromDecodedMsgSse2,
     ComputeTriscoreFromDecodedMsgAvx2, ComputeIcscoreFromDecodedMsgSsse3,
     ComputeIcscoreFromDecodedMsgAvx2

\* Nothing is counted when a function is called.
LEMMA CountStarts ==
  ASSUME NEW s \in Asked, s = "ic", Call(s, FunctionOf(s))
  PROVE  CountInv'
<1>1. FunctionOf(s) \in {"icscoreBasic", "ComputeIcscoreFromDecodedMsgSsse3",
                         "ComputeIcscoreFromDecodedMsgAvx2"}
  BY AnyFunctionFits
<1>2. at' = "letters" /\ i' = n(s) - 1 /\ f' = [c \in 0 .. 25 |-> 0] /\ text' = text
  BY <1>1 DEF Call
<1>3. i' = 0
  BY <1>2, Sizes
<1>4. \A t : Counted(t, 0) = [c \in 0 .. 25 |-> 0]
  <2>1. \A t, c : Places(t, 0, c) = {}
    BY DEF Places
  <2>2. Cardinality({}) = 0
    BY FS_EmptySet
  <2> QED
    BY <2>1, <2>2 DEF Counted
<1>5. f' = Counted(Texts[text'], i')
  BY <1>2, <1>3, <1>4
<1> QED
  BY <1>2, <1>5 DEF CountInv

\* The start of the program.
LEMMA IcInvInit == Init => IcInv
BY DEF Init, IcInv

\* What has been counted stays true from step to step.
LEMMA IcInvStep == ScoringInv /\ IcInv /\ [Next]_vars => IcInv'
<1> SUFFICES ASSUME ScoringInv, IcInv, [Next]_vars
             PROVE  IcInv'
  OBVIOUS
<1>0. MainInv /\ (step = "score" => WalkInv)
  BY DEF ScoringInv
<1>1. ASSUME UNCHANGED << walk, job >>, step' = "score" => step = "score"
      PROVE  IcInv'
  <2>1. text' = text /\ job' = job /\ (CountInv <=> CountInv') /\ score' = score
    BY <1>1 DEF walk, CountInv, IndexOfCoincidence
  <2> QED
    BY <1>1, <2>1 DEF IcInv
<1>2. CASE enigma_cpu_flags_init \/ Open \/ ReadLine \/ Refuse \/ Loaded \/ UNCHANGED vars
  <2>1. UNCHANGED << walk, job >>
    BY <1>2 DEF enigma_cpu_flags_init, Open, ReadLine, Refuse, Loaded, Exit, vars, main
  <2>2. step' = "score" => step = "score"
    BY <1>2 DEF enigma_cpu_flags_init, Open, ReadLine, Refuse, Loaded, Exit, vars, main, secondDict
  <2> QED
    BY <1>1, <2>1, <2>2
<1>3. CASE load_ciphertext
  <2>1. text' = text /\ job' = job /\ step' # "score"
    BY <1>3 DEF load_ciphertext, Exit, walk
  <2> QED
    BY <2>1 DEF IcInv
<1>4. CASE optimizeScore
  <2>1. job' = job
    BY <1>4 DEF optimizeScore
  <2>2. PICK s \in Asked : Call(s, FunctionOf(s))
    BY <1>4 DEF optimizeScore
  <2>3. score' = s /\ text' = text
    BY <2>2 DEF Call
  <2>4. s = "ic" => CountInv'
    BY <2>2, CountStarts
  <2> QED
    BY <2>1, <2>3, <2>4 DEF IcInv
<1>5. CASE Score
  <2>1. step = "score" /\ step' = step /\ job' = job /\ ComputeScore
    BY <1>5 DEF Score, main
  <2>2. clen \in 3 .. CT
    BY <1>0, <2>1 DEF MainInv
  <2>3. score' = score
    BY <1>0, <2>1, <2>2, ComputeScoreKeeps
  <2>4. CASE score = "ic"
    <3>1. CountInv' /\ text' = text
      BY <1>0, <2>1, <2>4, CountStep
    <3> QED
      BY <2>1, <3>1 DEF IcInv
  <2>5. CASE score # "ic"
    <3>1. text' = text
      BY <2>1 DEF ComputeScore, triscoreBasic, biscoreBasic, uniscoreBasic, icscoreBasic,
         ComputeUniscoreFromDecodedMsg, ComputeBiscoreFromDecodedMsg,
         ComputeTriscoreFromDecodedMsgSse2, ComputeBiscoreFromDecodedMsgSse2,
         ComputeTriscoreFromDecodedMsgAvx2, ComputeIcscoreFromDecodedMsgSsse3,
         ComputeIcscoreFromDecodedMsgAvx2, CountLetters, BasicBlock, WindowBlock, VectorOf, TailOf,
         Lanes, Return, ReturnIc
    <3> QED
      BY <2>1, <2>3, <2>5, <3>1 DEF IcInv
  <2> QED
    BY <2>4, <2>5
<1> QED
  BY <1>2, <1>3, <1>4, <1>5 DEF Next

\* As long as no letter of the message comes up 129 times, the index of
\* coincidence is the same on every processor, for every message and length,
\* although the sums have sixteen bits and the vectors saturate.
THEOREM IndexIsExactBelow129 == Spec => []IcExactBelow129
<1>1. IcInv => IcExactBelow129
  BY DEF IcInv, CountInv, IcExactBelow129, IcComputed
<1> QED
  BY <1>1, ScoringInvariant, IcInvInit, IcInvStep, PTL DEF Spec
=============================================================================
