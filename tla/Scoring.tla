------------------------------ MODULE Scoring --------------------------------
(***************************************************************************)
(* From the start of the program to a score (src/optima/enigma.c,          *)
(* src/optimizer.c, src/load_ciphertext.c): what the processor can do, the *)
(* two dictionaries of the optimizer, the ciphertext, and one of the       *)
(* scores the optimizer asks for.  Deciphering is DecoderLookup's part.    *)
(***************************************************************************)
EXTENDS Dictionaries, Scores, Processor

CONSTANT Jobs    \* how the program is called, and what its files hold

ASSUME JobsAssumption ==
  \A job \in Jobs :
    /\ job.hw \in Hardware /\ job.optimizer \in {"Krah", "AV"}
    /\ job.first \in Seq(Words) /\ job.second \in Seq(Words)
    /\ job.letters \in 0 .. 2048      \* what the array holds
    /\ job.foreign \in BOOLEAN        \* signs other than letters and space
    /\ Texts[job.text] \in [0 .. CT - 1 -> 0 .. 25]

VARIABLES
  job, step,     \* the call, and how far main has come
  cpu,           \* enigma_cpu_flags
  loaded         \* the dictionaries that have been loaded

main == << job, step, cpu, loaded >>
vars == << main, dictVars, walk >>

\* loadDictionaries asks which optimizer it is, the optimizers ask for scores.
secondDict == IF job.optimizer = "Krah" THEN "bi" ELSE "uni"
Asked == IF job.optimizer = "Krah" THEN {"ic", "bi", "tri"} ELSE {"ic", "uni", "tri"}

FileOf(d) == IF d = "tri" THEN job.first ELSE job.second

Init ==
  /\ job \in Jobs /\ step = "cpu" /\ cpu = {} /\ loaded = {}
  /\ tables = [d \in {"tri", "bi", "uni"} |-> << >>]
  /\ dict = "none" /\ rest = << >> /\ value = 0
  /\ score = "none" /\ fn = "none" /\ text = job.text /\ clen = 0
  /\ i = 0 /\ held = << >> /\ at = "done" /\ grams = {} /\ added = 0
  /\ f = << >> /\ result = 0

Exit == step' = "exit" /\ UNCHANGED << job, cpu, loaded, dictVars, walk >>

enigma_cpu_flags_init ==
  /\ step = "cpu"
  /\ IF xgetbv_faults(job.hw) THEN Exit
     ELSE /\ cpu' = get_hardware_supported_cpu_flags(job.hw)
          /\ step' = "tri"
          /\ UNCHANGED << job, loaded, dictVars, walk >>

Open ==
  /\ step \in {"tri", "bi", "uni"} /\ dict = "none"
  /\ \/ Opened(step, FileOf(step)) /\ UNCHANGED << tables, main, walk >>
     \/ Exit                                   \* the file cannot be opened

ReadLine == step # "exit" /\ read_line /\ UNCHANGED << main, walk >>

Refuse == step # "exit" /\ IllegalLine /\ Exit

Loaded ==
  /\ EndOfFile /\ step # "exit"
  /\ dict' = "none"
  /\ loaded' = loaded \cup {dict}
  /\ step' = IF dict = "tri" THEN secondDict ELSE "ciphertext"
  /\ UNCHANGED << job, cpu, tables, rest, value, walk >>

\* Mutant: a message of any length is scored.
MutantUsedLength(len) == len
UsedLength(len) == IF len < CT THEN len ELSE CT

load_ciphertext ==
  /\ step = "ciphertext"
  /\ \/ Exit                                   \* the file cannot be opened
     \/ (job.foreign \/ job.letters < 3) /\ Exit
     \/ /\ ~ job.foreign /\ job.letters >= 3
        /\ clen' = UsedLength(job.letters)
        /\ step' = "optimize"
        /\ UNCHANGED << job, cpu, loaded, dictVars, score, fn, text, i, held, at,
                        grams, added, f, result >>

FunctionOf(s) ==
  LET sf == enigma_score_init(cpu)
  IN CASE sf = "basic" -> enigmaScoreBasic(s) [] sf = "ssse3" -> enigmaScoreSsse3(s)
       [] sf = "avx"   -> enigmaScoreAvx(s)   [] sf = "avx2"  -> enigmaScoreAvx2(s)

optimizeScore ==
  /\ step = "optimize" /\ step' = "score"
  /\ \E s \in Asked : Call(s, FunctionOf(s))
  /\ UNCHANGED << job, cpu, loaded, dictVars >>

Score == step = "score" /\ ComputeScore /\ UNCHANGED << main, dictVars >>

Next ==
  \/ enigma_cpu_flags_init \/ Open \/ ReadLine \/ Refuse \/ Loaded
  \/ load_ciphertext \/ optimizeScore \/ Score

Spec == Init /\ [][Next]_vars

-----------------------------------------------------------------------------
(* Properties.                                                             *)

\* The variables keep their types; what is scored has at least the three
\* letters of a trigram and fits the arrays.
TypeOK ==
  /\ job \in Jobs /\ cpu \subseteq {"ssse3", "avx", "avx2"}
  /\ dict \in {"none", "tri", "bi", "uni"} /\ loaded \subseteq {"tri", "bi", "uni"}
  /\ step = "score" =>
       /\ score \in Asked /\ clen \in 3 .. CT
       /\ i \in 0 .. clen + 16 /\ at \in {"vectors", "letters", "done"}
       /\ \A slot \in DOMAIN held : held[slot] \in 0 .. CT - 1

\* Every dictionary a score is looked up in has been loaded, and holds what its
\* file says if that is made of whole keys: for every key the number of its last
\* line.  A line that lacks its number takes one of the same file that it has
\* passed, or zero, and never one that comes later or from the other dictionary.
\* Of no file, whatever it holds, does another key than n letters get in, and no
\* file of whole keys is refused.
DictionaryAsWritten ==
  /\ step = "score" => {score} \ {"ic"} \subseteq loaded
  /\ \A d \in loaded :
       /\ Readable(d, FileOf(d)) => tables[d] = Written(FileOf(d))
       /\ \A key \in DOMAIN tables[d] :
            Len(key) = Width(d) /\ \A q \in DOMAIN key : key[q] \in Alphabet
  /\ step = "exit" /\ dict # "none" => ~ Readable(dict, FileOf(dict))

\* On every processor, with however many letters a block, a vector or the rest
\* behind them has: every addition is for letters that follow each other in the
\* message, none is made twice, and in the end none is missing.
GramsScoredOnce ==
  LET all == {[q \in 0 .. n(score) - 1 |-> p + q] : p \in 0 .. clen - n(score)}
  IN step = "score" =>
       /\ grams \subseteq all /\ added = Cardinality(grams)
       /\ at = "done" => grams = all

IndexOfCoincidence ==
  SumFunction([c \in 0 .. 25 |-> Pairs(Cardinality({p \in 0 .. clen - 1 : Texts[text][p] = c}))])

IcComputed == step = "score" /\ score = "ic" /\ at = "done"

\* The index of coincidence is the same on every processor, whatever the width
\* of its sums, as long as no letter of the message comes up 129 times.
IcExactBelow129 ==
  IcComputed /\ (\A c \in 0 .. 25 : f[c] < 129) => result = IndexOfCoincidence

\* It is that for every message, saturated products being computed again.
IcExact == IcComputed => result = IndexOfCoincidence
=============================================================================
