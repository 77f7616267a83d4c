----------------------------- MODULE MCScoring -------------------------------
(***************************************************************************)
(* Files of every kind with a short message, and messages of many lengths  *)
(* and letters with short files.                                           *)
(***************************************************************************)
EXTENDS Scoring

T(letters) == [text |-> letters, num |-> 0]
N(number)  == [text |-> << >>, num |-> number]

\* Lines of a file for keys of three, two and one letters: good ones, one more
\* with the same key, a key too long by one letter or a whole key, one too
\* short, a foreign sign, a missing number, a number too many
Lines(width) ==
  LET A == [q \in 1 .. width |-> "a"]
      B == [q \in 1 .. width |-> IF q = width THEN "b" ELSE "a"]
  IN {<< T(A), N(1) >>, << T(A), N(2) >>, << T(B), N(3) >>,
      << T(A \o << "b" >>), N(4) >>, << T(A \o B), N(5) >>, << T(SubSeq(A, 2, width)), N(6) >>,
      << T(SubSeq(B, 1, width - 1) \o << "_" >>), N(7) >>, << T(B) >>, << T(A), N(8), N(9) >>}

FilesOf(width) ==
  {<< >>} \cup Lines(width) \cup
  {l1 \o l2 : l1 \in Lines(width), l2 \in Lines(width)}

Good(width) == << T([q \in 1 .. width |-> "a"]), N(1) >>

Basic == [ssse3 |-> FALSE, avx |-> FALSE, avx2 |-> FALSE, osxsave |-> FALSE, ymm_state |-> FALSE]
Ssse3 == [Basic EXCEPT !.ssse3 = TRUE]
Avx   == [Ssse3 EXCEPT !.avx = TRUE, !.osxsave = TRUE, !.ymm_state = TRUE]
Avx2  == [Avx EXCEPT !.avx2 = TRUE]
OldSystem == [Avx2 EXCEPT !.osxsave = FALSE, !.ymm_state = FALSE]
NarrowOnly == [Avx2 EXCEPT !.ymm_state = FALSE]

Job(hw, optimizer, first, second, letters, foreign, t) ==
  [hw |-> hw, optimizer |-> optimizer, first |-> first, second |-> second,
   letters |-> letters, foreign |-> foreign, text |-> t]

SecondWidth(optimizer) == IF optimizer = "Krah" THEN 2 ELSE 1

FileJobs ==
  UNION {{Job(Avx2, o, file, Good(SecondWidth(o)), 5, FALSE, 0) : file \in FilesOf(3)}
         \cup {Job(Avx2, o, Good(3), file, 5, FALSE, 0) : file \in FilesOf(SecondWidth(o))} :
           o \in {"Krah", "AV"}}

StartJobs ==
  {Job(hw, "Krah", Good(3), Good(2), letters, foreign, 0) :
     hw \in {Basic, OldSystem, NarrowOnly}, letters \in {0, 2, 3, 251, 2048}, foreign \in BOOLEAN}

\* Two blocks of sixteen with every remainder, and the end of the arrays
MCLengths == 3 .. 52 \cup 240 .. 250

ScoreJobs ==
  {Job(hw, o, Good(3), Good(SecondWidth(o)), len, FALSE, 0) :
     hw \in {Basic, Ssse3, Avx2}, o \in {"Krah", "AV"}, len \in MCLengths}
  \cup {Job(hw, "Krah", Good(3), Good(2), len, FALSE, t) :
          hw \in {Basic, Ssse3, Avx, Avx2}, len \in {182, 249, 250}, t \in {60, 125, 128}}

MCJobs == FileJobs \cup StartJobs \cup ScoreJobs

\* Messages in which one letter comes up most of the time
CommonLetterJobs ==
  {Job(hw, "Krah", Good(3), Good(2), len, FALSE, t) :
     hw \in {Basic, Ssse3, Avx2}, len \in {200, 250}, t \in {129, 181, 190, 250}}

\* The first two letters of the alphabet, which share a lane, t times each, or
\* the first one as often as there is room
MCTexts ==
  [t \in {0, 60, 125, 128, 129, 181, 190, 250} |->
     [p \in 0 .. CT - 1 |-> IF p < t THEN 0 ELSE IF p < 2 * t THEN 1 ELSE p % 26]]
=============================================================================
