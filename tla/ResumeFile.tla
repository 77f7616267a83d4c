----------------------------- MODULE ResumeFile ------------------------------
(***************************************************************************)
(* The resume file as a text: what print_state (src/resume_out.c) writes,  *)
(* what happens to a file until the next -R - nothing, a write that was    *)
(* cut off, or a user who edits the documented format - and what set_state *)
(* (src/resume_in.c) makes of it.                                          *)
(*                                                                         *)
(* The file is its fields in order, without the '=' between them; fields   *)
(* 1 to 8 are the first line, 9 to 12 the second.  A number is the value   *)
(* strtol finds and whether nothing but the number is there.               *)
(***************************************************************************)
EXTENDS KeyText, Stecker

CONSTANTS
  Searches,     \* states of a search that may be saved
  KeyTexts,     \* what a user may write for a key,
  Numbers,      \* for a number
  Lists,        \* and for the plugs
  MaxRounds     \* bound on the files written

MAX_SCORE == 2147483646
INT_MAX   == 2147483647
SwModes   == 0 .. 2

StateOf(model) ==
  [from : KeyOf(model), to : KeyOf(model), ckey : KeyOf(model), gkey : KeyOf(model),
   sw_mode : SwModes, pass : 0 .. MAX_SCORE, firstpass : BOOLEAN,
   stbrett : Involutions, plugs : [sf : Board, count : 0 .. N], score : 0 .. MAX_SCORE]

\* A state a search can be in: module KeySweep says that its keys are
\* admissible, module StbrettOptimizer that its plugs are the board's.
Searchable(s) ==
  /\ \E model \in Models : s \in StateOf(model)
  /\ \A key \in {s.from, s.to, s.ckey, s.gkey} : Admissible(key)
  /\ ~ keycmp_greater(s.from, s.ckey)
  /\ ~ keycmp_greater(s.ckey, s.to)
  /\ s.plugs = get_stecker(s.stbrett)

\* What the places of a text hold: digits, letters, numbers.
ASSUME ResumeAssumption ==
  /\ \A s \in Searches : Searchable(s)
  /\ \A text \in KeyTexts : /\ text.walze \in Seq(Int) /\ text.ring \in Seq(Letter)
                            /\ text.mesg \in Seq(Letter)
  /\ \A number \in Numbers : number \in [value : Int, clean : BOOLEAN]
  /\ \A list \in Lists : list \in Seq(Letters)
  /\ N <= 26
  /\ MaxRounds \in Nat

VARIABLES
  stage,      \* "search", "file" while no process runs, or "refused"
  search,     \* the state of the search, and what it was when last saved
  file,       \* the fields of 00hc.resume
  damage,     \* history: what has happened to the file
  rounds      \* files written

vars == << stage, search, file, damage, rounds >>

-----------------------------------------------------------------------------
(* print_state.                                                            *)

Number(n) == [value |-> n, clean |-> TRUE]

Fields(s) ==
  << s.from.model,
     print_key_rings(s.from), print_key_rings(s.to), print_key_rings(s.ckey),
     Number(s.sw_mode), Number(s.pass), Number(IF s.firstpass THEN 1 ELSE 0),
     Number(MAX_SCORE),
     s.from.model, print_key_rings(s.gkey), PlugList(s.plugs), Number(s.score) >>

Init ==
  /\ stage = "search"
  /\ search \in Searches
  /\ file = << >> /\ damage = "none" /\ rounds = 0

print_state ==
  /\ stage = "search" /\ rounds < MaxRounds
  /\ stage' = "file"
  /\ file' = Fields(search)
  /\ damage' = "none"
  /\ rounds' = rounds + 1
  /\ UNCHANGED search

-----------------------------------------------------------------------------
(* What may happen to the file.                                            *)

\* The fields up to the n-th are there, of the last one nothing or a part.
CutBetween(n) ==
  /\ stage = "file" /\ damage = "none"
  /\ file' = SubSeq(file, 1, n)
  /\ damage' = "cut"
  /\ UNCHANGED << stage, search, rounds >>

PowerOfTen == << 10, 100, 1000, 10000, 100000, 1000000, 10000000, 100000000,
                 1000000000 >>

\* The last d digits of the score are missing.
CutWithinScore(d) ==
  /\ stage = "file" /\ damage = "none"
  /\ file[12].value >= PowerOfTen[d]
  /\ file' = [file EXCEPT ![12] = Number(@.value \div PowerOfTen[d])]
  /\ damage' = "score"
  /\ UNCHANGED << stage, search, rounds >>

Edit(n, field) ==
  /\ stage = "file" /\ damage = "none"
  /\ file' = [file EXCEPT ![n] = field]
  /\ damage' = "edited"
  /\ UNCHANGED << stage, search, rounds >>

-----------------------------------------------------------------------------
(* set_state.                                                              *)

\* NLINE1 and NLINE2: fgets leaves what does not fit to the next line.
MutantNLINE1 == 73     \* mutant: only nine digits of a pass
NLINE1 == 76
NLINE2 == 58

Width(n) == 1 + Cardinality({e \in 1 .. 9 : n >= PowerOfTen[e]})
KeyWidth(model)   == IF model = "M4" THEN 14 ELSE 12
ModelWidth(model) == IF model = "H" THEN 1 ELSE 2

Line1Fits ==
  ModelWidth(file[1]) + 3 * KeyWidth(file[1]) + Width(file[5].value)
    + Width(file[6].value) + Width(file[7].value) + Width(file[8].value)
    + 7 + 1 < NLINE1

Line2Fits ==
  ModelWidth(file[9]) + KeyWidth(file[9]) + Len(file[11]) + Width(file[12].value)
    + 3 + 1 < NLINE2

MutantScan(number) == IF number.clean THEN number.value ELSE -1   \* mutant: no bounds

scan_posint(number) ==
  IF number.clean /\ 0 <= number.value /\ number.value < INT_MAX
  THEN number.value ELSE -1

\* get_sw_mode and get_firstpass compare texts.
Digit(number) == IF number.clean THEN number.value ELSE -1

MutantWithinRange(from, to, ckey) == ~ keycmp_greater(from, ckey)   \* mutant: to is forgotten
WithinRange(from, to, ckey) ==
  /\ ~ keycmp_greater(from, ckey)
  /\ ~ keycmp_greater(ckey, to)

\* Both lines are there, with seven and with three '='.
Complete == Len(file) = 12

Acceptable ==
  /\ Complete /\ Line1Fits /\ Line2Fits
  /\ LET model == file[1]
     IN /\ model \in Models
        /\ Digit(file[5]) \in SwModes
        /\ scan_posint(file[6]) # -1
        /\ Digit(file[7]) \in {0, 1}
        /\ scan_posint(file[8]) = MAX_SCORE
        /\ RangeAccepted(file[2], file[3], model)
        /\ Accepted(file[4], model)
        /\ WithinRange(set_key(file[2], model), set_key(file[3], model),
                       set_key(file[4], model))
        /\ file[9] = model
        /\ Accepted(file[10], model)
        /\ PlugsAccepted(file[11])
        /\ scan_posint(file[12]) # -1

set_state ==
  /\ stage = "file"
  /\ Acceptable
  /\ search' = [from      |-> set_key(file[2], file[1]),
                to        |-> set_key(file[3], file[1]),
                ckey      |-> set_key(file[4], file[1]),
                sw_mode   |-> file[5].value,
                pass      |-> scan_posint(file[6]),
                firstpass |-> file[7].value = 1,
                gkey      |-> set_key(file[10], file[1]),
                stbrett   |-> set_stecker(file[11]),
                plugs     |-> get_stecker(set_stecker(file[11])),
                score     |-> scan_posint(file[12])]
  /\ stage' = "search"
  /\ UNCHANGED << file, damage, rounds >>

\* "resume file is not in the right format", or a fatal error of set_key
Refuse ==
  /\ stage = "file"
  /\ ~ Acceptable
  /\ stage' = "refused"
  /\ UNCHANGED << search, file, damage, rounds >>

Next ==
  \/ print_state
  \/ \E n \in 0 .. 11 : CutBetween(n)
  \/ \E d \in 1 .. 9 : CutWithinScore(d)
  \/ \E n \in {1, 9}, model \in Models : Edit(n, model)
  \/ \E n \in {2, 3, 4, 10}, text \in KeyTexts : Edit(n, text)
  \/ \E n \in 5 .. 8 \cup {12}, number \in Numbers : Edit(n, number)
  \/ \E list \in Lists : Edit(11, list)
  \/ set_state
  \/ Refuse

Spec == Init /\ [][Next]_vars

-----------------------------------------------------------------------------
(* Properties.                                                             *)

TypeOK ==
  /\ stage \in {"search", "file", "refused"}
  /\ Len(file) \in 0 .. 12
  /\ search.pass \in 0 .. MAX_SCORE /\ search.score \in 0 .. MAX_SCORE
  /\ damage \in {"none", "cut", "score", "edited"}
  /\ rounds \in 0 .. MaxRounds

\* What was saved is what is resumed: the bounds, the position, the mode,
\* the pass and the best key with its plugs and its score come back from an
\* undamaged file as they were, whatever their size.
SavedIsRestored ==
  [][stage = "file" /\ damage = "none" /\ stage' # "file" =>
       stage' = "search" /\ UNCHANGED search]_vars

\* A file that ends too early is refused, except where it ends within the
\* score: then all but the score is as it was, and the score is lower.
CutIsNoticed ==
  [][stage = "file" /\ stage' = "search" =>
       /\ damage # "cut"
       /\ damage = "score" => /\ search'.score < search.score
                              /\ UNCHANGED [search EXCEPT !.score = 0]]_vars

\* Whatever a user writes into the file, what is resumed is a search: a
\* position between the bounds, keys the loops can start from, a plugboard.
ResumedIsSearchable == Searchable(search)

\* The digits of a wheel: "digits 1-5, no repetitions" for the H and
\* "digits 1-8, no repetitions" for the others (set_walze).
WheelDigits ==
  \A key \in {search.from, search.to, search.ckey, search.gkey} :
     LET wheels == {key.slot.l, key.slot.m, key.slot.r}
     IN wheels \subseteq 1 .. (IF key.model = "H" THEN 5 ELSE 8) /\ Cardinality(wheels) = 3
=============================================================================
