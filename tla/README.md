# A verification of enigma-optima

enigma-optima breaks Enigma messages: for every key of a range it searches for
the plugboard under which the deciphered text looks most like language. It runs
for days, is stopped and resumed, and spends its time in code that has been
tuned until it no longer looks like the machine it simulates. This directory
holds TLA+ models of its logic, their checks by TLC and their proofs by TLAPS.

Paths below are relative to `src/libEnigma` unless they start with `optima` or
`doc`. `PROJECT.json` lists, for every definition, the lines it stands for.

## The system

One process with one thread; the operating system may send it signals and end
it at any time. Its only persistent state is the resume file `00hc.resume` and
the result file, to which results are appended.

| component | state | operations | what makes it correct |
|---|---|---|---|
| key, order of keys (`src/key.c`) | a key: reflector, wheels, rings, message setting | `init_key_low`, `keycmp`, `Key_equ` | a total order that the search follows |
| iterators (`include/iterators`) | a position, and copies of parts of it | `next_mesg`, `next_ringstellung`, `next_slot_*`, `next_ukw` | every key once, in order, also when entered in the middle |
| search loop (`src/hillclimb.c`) | `ckey`, `gkey`, `pass`, `firstpass`, testing order | one turn per key, one per pass, final save | every key of every pass is tried; results are reported |
| saving and stopping (`src/state.c`, `src/optimizer.c`, `optima/OS`) | resume file, `last_save_state`, `doShutdown` | `save_state`, `check_shutdown`, `on_new_best`, handler | the file is never ahead of the work; a stop is prompt and saved |
| key text, resume file (`src/input.c`, `src/resume_in.c`, `src/resume_out.c`) | the fields of the file | `print_state`, `set_state`, `set_key`, `set_range` | what is saved is restored; what is accepted is a search |
| plugboard (`src/stecker.c`) | table, list of plugs | `SwapStbrett`, `get_stecker`, `set_stecker`, orders of letters | the table is an involution, the list describes it |
| optimizers (`src/stbrett`) | table, best score, phase | the phases of Krah's and of VE3NEA's search | board and score stay together; it ends, on a hill top |
| stepping (`include/cipher_inlines.h`, `src/cipher.c`) | offsets of the wheels | `StepAllRings`, `GetNextTurnover`, `scrambler_state` | the forecast of the slow wheel is what the machine does |
| permutations of the wheels (`src/cipher.c`, `include/echar`) | tables of wheels, twice their length | `init_path_lookup_H_M3`, `_ALL`, `CalculatePermutationMap*` | a table entry is what the machine makes of a letter |
| decoders (`src/cipher.c`, `src/x86`) | one table per letter, or lookups with masks, one or more per bite of the message | `PrepareDecoderLookup`, the shuffles of `decodeMessage*` | every letter that is scored is the one the machine prints |
| scores (`src/scoreBasic.c`, `src/computeScoreNoInterleave.c`, `src/x86/computeScore*`) | counters, registers that hold the letters before, sums | `triscore`, `biscore`, `uniscore`, `icscore` of each processor | each n letters in a row are added once; all processors agree |
| dictionaries (`src/dict_load.cpp`, `src/dicts`) | `tridict`, `bidict`, `unidict` | `load_tridict`, `load_bidict`, `load_unidict` with their line loop over `fscanf` | a table holds what its file says |
| ciphertext (`src/load_ciphertext.c`) | the message, its length | `load_ciphertext` | what is scored has at least three letters and fits |
| processor detection (`src/cpu.c`) | `enigma_cpu_flags` | `enigma_cpu_flags_init`, `enigma_score_init`, `CipherInit` | the functions chosen read the tables that are prepared |
| program entry (`optima/enigma.c`) | options | `main` | files are read in an order that the search can rely on |

They call each other downwards: `main` reads the range or the resume file and
calls `optimizeScore`, which calls `hillclimb` with callbacks for saving,
stopping and reporting. For every key `hillclimb` checks for a shutdown, skips
the key if the slow wheel says so, prepares the decoder and calls an optimizer,
which calls the scores. State is shared through `struct State` (`ckey`, `gkey`,
`pass`), through the global `doShutdown` (set by the signal handler) and
`last_save_state`, and, over the life of processes, through the resume file.

The program starts by asking what the processor can do, loads the two
dictionaries its optimizer needs, and the ciphertext. The flags choose functions
at two places, `CipherInit` those that prepare a key and `enigma_score_init`
those that decipher and score, and the tables between them must be the same.

Hard about it are: the end of a process between any two steps and the position
it resumes at; the carry through four nested iterators that each hold a copy of
part of the key; bit tricks with carries that run over lanes; sequences of swaps
that must undo each other; double steps at the borders of bites; loops that are
unrolled or vectorised in another way for every processor, with rests of every
length; and limits of buffers, loops and words. The list `hazards` of `PROJECT.json` has them at their lines.

## Modules

```
KeySpace ── KeyIterators ──┐
   ├─────── KeyText ───────┴─ KeySweep                      MCKeySweep
   │           ├──┐              └ KeySweepProofs
   │   Stecker ───┴────────── ResumeFile                    MCResumeFile
   │      │                      └ ResumeFileProofs
   │      └────────────────── StbrettOptimizer              MCStbrettOptimizer
   │                             └ StbrettProofs
   └─────── Stepping ──────── CipherPath ── DecoderLookup   MCDecoderLookup (with Wheels)
                                 Processor ─┘  └ DecoderLookupProofs

Dictionaries, Scores, Processor ── Scoring                  MCScoring
                                      └ ScoringProofs

ExhaustiveSearch ◄┄ refines ┄ Hillclimb                     MCHillclimb (uses KeyIterators)
                                 └ HillclimbProofs          MCPeriodicSave

KeyTextProofs (texts of keys, induction): used by KeySweepProofs,
ResumeFileProofs, DecoderLookupProofs and ScoringProofs
SteckerProofs (plugboards, lists of plugs): used by StbrettProofs and
ResumeFileProofs
```

**KeySpace, KeyIterators.** Keys as records of small numbers, and the
iterators as operators that return the new value and whether it has overflowed.
The bit tricks are there: `next_mesg` adds in byte lanes with the lift of
`0x60E0E0E0` and takes it off as the code does; the slot iterator's masks are
sets of bit numbers, and the addition that skips the wheels in use is done on
their values, eight bits wide.

**KeySweep.** The nest of loops. Its state is what the code keeps between turns:
the key, the masks, the ring iterator's copy of the wheels. One action for each
loop that makes the turn. `NextKeyInOrder` compares each step with a definition
of "the next admissible key" made without the iterators; `ResumeKeepsOrder`
compares it with iterators created anew at the key; `EveryKeyCanBeResumed`
writes each key as text and reads it back.

**Hillclimb.** A search over its whole life: the user's starts with and without
`-R`, the loop with its callbacks in the order of the code, the clock as far as
`save_state` reads it, signals, crashes, and writes that fail or are cut. The
position of the process is `pc`; a file write is two steps, the truncating
`fopen` and the write with its `fsync`, with room for a crash between them. Keys
are abstract: a successor function and ranks, about which `HillclimbAssumption`
says what KeySweep checks of the iterators. `HandlesSignals` is TRUE for the
Windows build, where `InstallSighandler` registers the handler, and FALSE for
the Linux build, where it does not (see Findings). History variables record the
keys tried, the best score seen, and the best score in the result file.

**ExhaustiveSearch.** What the user is promised: in each pass every key of the
range is tried in order, results only get better, and the search is finished
only when nothing is left. `Hillclimb` implements it with
`finished <- (exit = "success")`; saving, stopping, crashing and resuming are
stutters.

**KeyText, ResumeFile.** The file by its fields, in the order of the format.
Parsing is translated separately from printing (`set_ukw` is not the inverse of
`UkwType_to_ALPHA` by definition), numbers are what `strtol` finds and whether
there is something behind, and the widths of the lines are compared with the
buffers they are read into. Between a save and a resume the file may be cut at
any field, lose digits of its last number, or have a field edited.

**Stecker, StbrettOptimizer.** The plugboard as a function, `get_stecker` and
`set_stecker`, and both optimizers. One action per pair of letters and case of
the code, which names the boards that are scored in their order, swap by swap: each
is made of what the undoing of the one before has left (`Undone`). Among them the
first with the highest score above the current one is taken, as the sequence of
`>` comparisons does, and its swaps are made again on the last undone board, or
what was pulled is put back there, so that an undoing that leaves out a swap is
seen in the board that is kept. Only the trials of the last phase, `ReswapTrials`,
are all made from the board. Scores are a parameter, `Score(kind, scoring, board)`.

**Stepping, CipherPath, Wheels, DecoderLookup.** The wheels by their offsets,
and the way of a letter through them. The code never takes the offset of a wheel
off: it adds the difference to the next wheel's, reading tables of double
length. CipherPath has these paths for any wiring, and beside them `Machine`,
which turns each wheel there and back; Wheels has the wiring of the program, the
way back written down a second time as in the code. DecoderLookup runs the loop
of `PrepareDecoderLookup` for bites of 16 and of 32 letters and then the
decoders, bite by bite, with both shuffles of a lane, or, without vectors,
`init_path_lookup` and the decoding by its table. The decoders go through every
bite of the message, also those for which the 24 lookups did not suffice: what
`nextBite` holds for them is left from an earlier key, and the model takes any
value it can have (`NextBite`). A call is a key with the length of a message and
the flags of the processor, `Calls`. Next to the loop and to the decoders runs
the machine, pressed key by key, with the plugboard.

**Processor, Dictionaries, Scores, Scoring.** From the start of `main` to one
score. Processor has the flags and both places that choose by them. Dictionaries
reads a file word by word as `fscanf` does, where a key can be too long, too
short or foreign and a number be missing; a number that a line does not have is
the one read before, in the same file. A word is a text or a number. A text has
neither digits nor signs, so that `ABC5`, which `%3s%d` reads as the key ABC with
the number 5, is the same two words as `ABC 5`. `Readable` files are those of
whole keys with one number behind each or none, and `Written` is what such a
file says, without reading it in order. Scores has the eleven functions that add up, one action per
block of the loop, with what is held in which register; instead of the sum it
keeps *which* letters have been added together, so that a gram left out, added
twice or put together of letters that are no neighbours is seen whatever the
dictionary holds. The index of coincidence is computed with its words, signed
bytes and saturation. Scoring composes the three in the order of `main`.

## Runs

| run | bounds | what it shows |
|---|---|---|
| `hc_safety` | four keys and one behind the range, two passes, two scores, two events of the environment | safety of the search, and that it implements ExhaustiveSearch |
| `hc_live` | the same with one score, under fairness | the search ends; a stop is answered |
| `key_sweep` | all reflectors and wheels of all models, rings and messages at and before a carry, two turns | order of the keys, resuming, texts of keys |
| `resume_file` | three models, ranges between the ends of the order, largest numbers, all plugboards of six letters | restoring, cut and edited files |
| `stbrett_optimizer` | six letters, eighty rugged scorings, three orders | both optimizers |
| `decoder_lookup` | all right wheel settings of a wheel with one and one with two notches, middle wheels around a notch, every model; 160 and 192 letters with vectors of either width, 64 without | lookups, forecast, and that what is deciphered is what the machine prints |
| `scores` | files of up to two lines of every kind, messages of 3 to 52 and 240 to 250 letters, six kinds of processor and system, both optimizers | dictionaries, the grams of every score, the index of coincidence below 129 equal letters |
| `hc_linux_signals`, `periodic_save`, `wheel_zero`, `decoder_long`, `ic_count` | | disagreements, see Findings |

Why the bounds are enough:

- `hc_*`: the keys are chosen so that one step of the search carries through all
  four loops (MCHillclimb asserts that the iterators say so), one of them inside
  the range and the last are skipped as end-loop keys, and the key behind the
  range is one the search could run into. Two events let a resumed search be hit
  again; two passes are the first one and one that is not. The scores 7 and 12
  are one that replaces nothing better and one whose text loses a digit to
  become another. The proofs below do not depend on any of this.
- `key_sweep`: every carry is between two neighbouring positions, so that from
  each choice of wheels two turns from the positions around a carry reach all of
  them: lanes, limits 13 and 26, skips of wheels, end of the order.
- `resume_file`: checks of `set_state` concern one field, or the order of three
  keys; an edit of one field meets each of them.
- `stbrett_optimizer`: two plugs and two free letters are all that a case of the
  code touches, and six letters is where they fit beside each other. The
  scorings disagree between phases, so that phases undo others and rounds repeat.
- `decoder_lookup`: 160 letters are as many as 24 lookups are enough for with
  bites of 16, and 192 with bites of 32; each of the lengths is run with both, so
  192 letters with bites of 16 also reach bites that were not prepared. The right wheel goes round
  more than six times, so each notch meets each place in a bite.
  The wiring is the program's own; the theorems about CipherPath hold for any.
  Text and board are fixed, with every letter in every lane.
- `scores`: 3 to 52 letters are up to three blocks or vectors of sixteen with all
  rests behind them; the lengths from 240 on are where the arrays end. Two lines are
  what it takes for a key to be overwritten, for the rest of a long key to become
  the next one, and for a missing number to be an older one. Of the index of
  coincidence the lengths at 181, where saturation becomes possible, and texts
  with the letters of a lane as frequent as a signed byte allows.

`CHECK_DEADLOCK FALSE` is given where the program ends: sweeps, optimizers, the
decoder loop and a score terminate, and a search may be left stopped.

**Fairness.** `hc_live` assumes `WF_vars(Step)`, the process goes on if it is
not ended, and weak fairness of a start by the user of a search that has not
succeeded; the events of the environment are not fair, and bounded. Without
the user's fairness a stopped search stays stopped. An optimizer is a function
call and is assumed to go on.

## Proofs

### The search

`HillclimbProofs` proves of `Hillclimb`, for every
set of keys, range, set of scores, number of passes, of events, and both values
of `HandlesSignals`:

| theorem | property |
|---|---|
| `TypeCorrect` | `TypeOK` |
| `NothingSkippedOnResume` | `FileNeverAhead` |
| `ResumeFileAccepted` | `FileIsAccepted` |
| `NoResultLost` | `BestIsReported` |
| `ExitMeansSavedAlways` | `ExitMeansSaved` |
| `BookkeepingAlways` | `Bookkeeping` |
| `SearchIsExhaustive` | `IsExhaustiveSearch` |
| `OrderSurvivesResume` | `FirstPassByFrequency` |
| `PositionAdvances` | `FileOnlyAdvances` |
| `NothingTriedTwice` | `NoRework` |
| `RequestHeeded` | `PromptStop` |

The assumption is `HillclimbAssumption`: within the range the successor of a key
has the next rank, and ranks are distinct (for the keys of the program that is
`NoKeySkipped` below). `FileNeverAhead` is not inductive: a
save copies the position in memory, of which it says nothing, and a resume
makes the file that position. The argument is the invariant `Bookkeeping`: the
position in memory is at every step one from which the search is complete
(everything before it is tried in this pass, everything in the passes above),
at the turn of a pass the whole range is; and a score is in `gkey` alone only
between its discovery and its report. Together with the type invariant and the
properties of the file it is inductive, and each theorem follows from it; the
refinement takes each step of `Hillclimb` to a step of ExhaustiveSearch or a
stutter under it.

The other four need to know how memory and file lag behind each other.
`Ordered` says of a readable file that it is of the first pass exactly if it
says so, which is what a resume takes the order of the plugs from; `Advancing`
that a running process is never behind the file; `Fresh` that nothing from the
position on has been tried, in memory while a process runs and in the file
while none does, as long as none has been cut short; `Heeded` that a process
which has tried one key since the request is on one of the paths to its end.
Most steps concern none of this: `OtherStepsQuiet` says so once, and the proofs
look at the turn of a key, the turn of a pass, writing and resuming only.

### The optimizers

`StbrettProofs` proves of `StbrettOptimizer`, for an
alphabet of any size, any scores and any testing order:

| theorem | property |
|---|---|
| `OptimizerTypes` | `TypeOK` |
| `BoardStaysPlugboard` | `StaysPlugboard` |
| `ScoreMatchesBoard` | `BestIsScoreOfBoard` |
| `ReturnsMatchingResult` | `ResultDescribesBoard` |
| `SearchEndsOnHilltop` | `EndsOnHilltop` |

The assumptions are that scores of plugboards are numbers and that a testing
order is a permutation of the letters (`OptimizerAssumption`). The inductive
invariant `IInv` holds board, score and list of plugs together. The score on
its own would not do: the last phase of Krah's optimizer moves the plugs that
the *list* names, so that the list must be the board's; and VE3NEA's optimizer
returns `jbest`, the score of the round before, which is the score of its board
only because no round ends below what the one before has reached. Every case of
the climbing loops is brought to one form, `Climbs`: the board and its score are
as before, or both are those of a better plugboard. That rests on lemmas about
swaps in `SteckerProofs` (swapping twice restores a table, so that each trial
begins at the bare board whatever was tried before; pulling a plug and
plugging two free letters make a plugboard of a plugboard) and about
`get_stecker`, whose list has each letter once for *any* number of letters, by
counting the letters below, at and above their partner.

`EndsOnHilltop` needs `Tried` beside it: while a round of VE3NEA's optimizer has
brought nothing, all pairs that the loops have left behind have been tried on
the board as it still is. For Krah's optimizer `ReswapTries` shows that the
three nested loops of the last phase, which the model numbers through, come to
each end of each plug with each free letter.

### The texts of keys

`KeyTextProofs` proves, for all keys of all models and not only those of the
runs: `KeyTextRoundTrip`, that `set_key` accepts what `print_key_rings` writes
of an admissible key and makes the same key of it; `KeyOrder`, that `keycmp` is a
strict total order whose equality is `Key_equ`'s; and from both
`SavedRangeAccepted`, that a position within its bounds is written as a range
that `set_range` accepts. They hold of every key `set_key` can make, those with
a wheel 0 included (finding 3).

The module also has the two induction lemmas that the others cite. They are
stated of a *set* of numbers (a set with 0 and with the successor of each of its
members contains all numbers), which needs no operator parameter.

### The iterators

`KeySweepProofs` proves of `KeySweep`, for any first keys that `set_key` accepts
(`SweepAssumption`) and any number of turns, so for the whole order and not only
for the surroundings of the carries that `key_sweep` visits:

| theorem | property |
|---|---|
| `TypeCorrect` | `TypeOK` |
| `AlwaysAdmissible` | `OnlyAdmissibleKeys` |
| `EveryKeyResumed` | `EveryKeyCanBeResumed` |
| `ResumedInOrder` | `ResumeKeepsOrder` |
| `NoKeySkipped` | `NextKeyInOrder` |
| `EndsAtLastKey` | `EndsBehindLastKey` |

The invariant `Inv` adds to the properties what the loops rely on from one key
to the next (`IteratorsInStep`): the masks of the slot iterator are those of the
wheels in the key, and the ring iterator's two wheels are the key's. It rests on
three theorems about the bit tricks: `AdjustFindsNext`, that the addition which
carries through the wheels in use finds the first free wheel; `SlotIterated`,
that `next_slot` with its masks goes through the wheels of a slot in their order,
the Greek wheel included; `LettersInOrder`, that the word with a letter in each
byte counts the letters over the borders of the bytes. `NoKeySkipped` then takes
the four loops one inside the other: what is inside has wrapped to its first
value exactly if what is outside is taken one further.

### The resume file

`ResumeFileProofs` proves of `ResumeFile`, for any searches, plugboards, texts,
numbers and lists:

| theorem | property |
|---|---|
| `TypeCorrect` | `TypeOK` |
| `SavedAlwaysRestored` | `SavedIsRestored` |
| `CutAlwaysNoticed` | `CutIsNoticed` |
| `AlwaysSearchable` | `ResumedIsSearchable` |

`ResumeAssumption` says that the searches that are saved are `Searchable`, and
what the places of a text hold; that there are at most 26 letters is what the
widths of the lines are made for. The invariant `Inv` says of the file what it
is of the search, for each kind of damage, and what a field may hold after an
edit. `PlugsRoundTrip` carries the plugs: `set_stecker` plugs pair after pair,
and an induction over the list shows that it makes the plugboard of its list
whatever order the pairs have. `AcceptedIsKey` says what `set_key` can be made
to return by any text: an admissible key, or one with a wheel 0. For this reason
`AlwaysSearchable` has a hypothesis, `NoneWritten`, that no key a user writes has
a zero for a wheel; without it the property is false, which is finding 3. The
run `resume_file` has no such text either, and `wheel_zero` has.

### The way through the wheels

The first part of `DecoderLookupProofs` takes any wiring with `TablesAssumption` (the table of the
way back is the inverse of the wheel, a reflector is an involution without a
fixed letter), any offsets and any letter:

| theorem | |
|---|---|
| `PathH_M3IsMachine`, `PathAllIsMachine` | the tables of the decoders without vectors are the machine |
| `ShuffleIsLookup` | two shuffles of sixteen bytes are one lookup in 26 letters |
| `LaneIsMachine` | a lane of the vector decoders is the machine |
| `EnigmaReciprocal` | the machine with a plugboard is its own inverse and maps no letter to itself |

The argument is that the differences telescope: "less one offset, plus the next"
is the difference the code adds (`Telescope`), and the second copy of a table is
the wrap (`FlatIsAdd`), so that between two wheels the code always has the
machine's letter short of one offset (`NextWheel`). Each path is that lemma once
per wheel; the vector decoders split it in the two ways through the right wheel
and a table for what is behind it. The missing Greek wheel is the identity in any
position. `TablesAssumption` is evaluated for the wiring in Wheels by
`decoder_lookup`.

### The decoders

The second part proves of `DecoderLookup`, for any wiring, keys, plugboards and
texts of 3 to 250 letters, and any processor (`LookupAssumption`):

| theorem | property |
|---|---|
| `TypeCorrect` | `TypeOK` |
| `AlwaysInStep` | `InStepWithMachine` |
| `LookupAlwaysHolds` | `LookupHoldsUnderMask` |
| `MasksAlwaysPartition` | `MasksPartitionBite` |
| `SlowWheelAlwaysForecast` | `SlowWheelForecast` |
| `SearchesAlwaysComplement` | `SearchesComplement` |
| `ShortMessagesPrepared` | `AllBitesPrepared`, up to `LettersPrepared` |
| `AlwaysDecodedAsMachine` | `DecodedAsMachine` |

The others follow from `Inv` (`LookupsFollowMachine`), these two also from a count
of the lookups. It says of each lookup
made, in finished bites and in the one being prepared, from which to which
letter the middle and the left wheel rest in the position it is for
(`Shares`), that these intervals follow each other without a gap, that the
wheels of the loop are those of the machine pressed `messagePosition` times
(`At`), and how many turnovers a bite can have had by its position (`Counted`):
one for each notch of the right wheel, and one double step. The count is what
keeps `MasksPartitionBite` within the five and four cases the decoders have.
`JumpIsWalk` shows that jumping to the next turnover is pressing keys until
there, by induction over the keys pressed. `ScramblerStateIsForecast` is about
two divisions that decide for the whole message whether the left wheel will
turn, and compares them with pressing all its keys. `DecodedAsMachine` then
takes each letter of a bite to the one mask it is under, and `LaneIsMachine` from
there.

That is so for the bites that were prepared. Whether all are, is a matter of the
limit of 24 lookups, about which `FewInv` counts (`LookupsWithinBudget`). Each
bite has one lookup; another one needs a turnover within the bite, and these have
their distance. `Slack` is how many steps the right and the middle wheel are from
their next notches, as if every wheel had two: a key uses up at most one, and one
that turns the middle wheel brings eleven back (`SlackStep`). So each further
lookup takes twelve keys, up to the slack there is (`Paid`). With bites of 32 that
is enough for 192 letters (`WideFew`). With bites of 16 it comes out one short,
but among ten bites there is then one at whose end the right wheel is at a notch,
where a turnover needs no lookup of its own (`Spared`); so it is enough for 160
(`NarrowFew`). `ShortMessagesPrepared` says that all bites of such a message are
prepared, for every key.
Neither bound can be raised: with one letter more there are keys for which a
bite is left (finding 4). `AlwaysDecodedAsMachine` follows: every letter of a
message up to these lengths is deciphered as by the machine, and in a longer one
every letter of the bites that were prepared.

### The scores

`ScoringProofs` proves of `Scoring`, for any jobs with `JobsAssumption`, so for
any files (sequences of `Words`) and any length of the message:

| theorem | property |
|---|---|
| `TypeCorrect` | `TypeOK` |
| `EachGramOnce` | `GramsScoredOnce` |
| `DictionariesAsWritten` | `DictionaryAsWritten` |
| `IndexIsExactBelow129` | `IcExactBelow129` |

`GramsScoredOnce` alone is not inductive: what a block adds depends on what the
registers hold. `WalkInv` says that between two blocks the grams added are those
that start at the first `Covered` letters, which follows from the loop's
counter, that the registers of a loop over letters hold the letters before it in
their order, and how far a loop over vectors may have come. `RegistersHold` and
`PartsBehind` are the core of it: in the unrolled loops of scoreBasic.c the
registers change their parts with every letter, three of them with blocks of 1,
4 and 16 letters, each one more than a multiple of three, two of them with
blocks of which only the single letter needs a move.

`DictionaryAsWritten` needs to know what a table holds half-way: `LoadInv` says
that while a readable file is read, what is left of it begins at a key, the
table is what the lines in front of it say, and `value` is the last number of
these (`ReadSoFar`), so that a line without a number gets the one of the line
before and never one of the dictionary loaded before; that the dictionaries are
loaded one after the other, and that a table nobody has loaded is empty.
`WrittenNext` is the step: one more line, with its number (`LastNumberNext`)
or without, overwrites its key and leaves the others. A file with keys that are
not whole is only asked to let no unfit key in, whatever `fscanf` makes of it
(`KeysFit`).

`IcExactBelow129` compares sums that are added in different orders. `CountInv`
says that between two blocks `f` is what the letters before the counter give
(`CountedBlock`). The community modules define a sum by choosing one member after
the other, so the lemmas on sums begin with there being such a function at all
(`AddsExists`), and show by induction over finite sets (`FiniteInduction`, the
property again given as the set of the sets it holds for) that any term and any
part can be taken out of a sum (`SumSplit`, `SumOfParts`). `CountedAll` then says
that the counts of all letters add up to the length, so that with no count above
128 all pairs together are at most 127 * 250 = 31750: no word wraps and no lane
saturates, and the sum over every fourth letter (`SumOfClasses`) and the one over
the thirteen lanes (`SumOfLanes`) are both that over all letters. From 129 on
`ByteBelow` is false, which is finding 5.

### Only model-checked

Liveness, which is out of the prover's reach: `SearchEnds`, `StopIsAnswered`,
`Terminates`. Every other property of a passing run is stated
by a theorem above.

What no theorem says: that the definitions the properties compare with are the
right ones. `Machine` and `Written`, and the order of `KeySweep`, are to be read.

`HillclimbAssumption` is what links KeySweep to the proofs about the search.
`NoKeySkipped` and `EndsAtLastKey` prove its content of the iterators; that the
abstract keys stand for these is by reading, the two are not composed.

## Findings

1. *Signals on Linux* (`hc_linux_signals`). `InstallSighandler` in
   `optima/OS/OsDefault.c` installs a zeroed `sigact`: the default action ends
   the process. `doc/enigma.txt:103` promises that the state is saved.
2. *Periodic save* (`periodic_save`). `save_state` sets `last_save_state` at
   each call, not at each save, so that only a gap of 120 seconds between two
   keys leads to a save.
3. *Wheel 0* (`wheel_zero`). `set_walze` accepts the digit 0 although its
   comments say 1-5 and 1-8. `RingType_to_bits` then shifts by -1.
4. *Long messages* (`decoder_long`). The loop of 24 lookups does not reach the
   end of messages near 250 letters. The decoder goes on to the end: for the
   bites left it takes what `nextBite` holds from an earlier key, so that their
   letters are those of lookups that belong elsewhere, or the program ends
   (`exit_d`). It begins at 161 letters with 16 a bite and at 193 with 32; up to
   160 and 192 it cannot happen (`ShortMessagesPrepared`).
5. *Index of coincidence* (`ic_count`). The vector functions multiply a count
   with the count less one as a signed byte. From 129 equal letters on the
   product is negative and not 32767, by which the code notices saturation. The
   scalar function is right.

Seen while modelling, without a run: the test before `xgetbv` takes AVX of the
processor for enough although the instruction is there only if the system says
so (`xgetbv_faults`); the vectors of the trigrams read up to two bytes behind
the last vector of the message, into lanes whose sums are not used; a file that
ends within a line of a dictionary is taken without a message; `doc/enigma.txt:194` allows any
`max_score` in the resume file, `set_state` only `MAX_SCORE`; `-n`, `-z`, `-k`,
`-x` and `-a` are documented but not options any more.

## Not modelled

- The letters of the ciphertext and the reading of its file: a parameter. More
  letters than its array of 2048 holds are not given (`JobsAssumption`).
- `scoreSimple.c` and `scoreNoInterleave.c`, which only the tests and benchmarks
  select, and dictionaries in strings, which only they load. Of
  `computeScoreNoInterleave.c` the functions that the vector scores use are
  modelled.
- The vector decoding of 32-bit builds, the same steps in other registers, and
  MMX, which nothing asks for.
- The getopt loop and the usage errors, which end the program before it has any
  state; display, banners and dates; random numbers, for which `rand_var` is
  modelled with any draw; the wording of result entries.
- Benchmarks, tests, dictionary data, BOINC job files.

Scores are a parameter of the optimizers (`Score` in StbrettOptimizer): what a
score adds up is Scoring's part, what a board's score leads to is theirs. In the
same way the keys are abstract in Hillclimb and concrete in KeySweep. A
composition in one state space would multiply models that share nothing but
these values.

## Plan

1. Done: the search (Hillclimb, ExhaustiveSearch) and the optimizers, with their
   proofs; the texts and the order of keys, with theirs; iterators (KeySweep);
   the paths through the wheels and the scores, with their proofs; decoders,
   dictionaries, processor, resume file.
2. Next to prove: that the keys of KeySweep with their order fulfil
   `HillclimbAssumption`, so that the proofs about the search are about these
   keys; how far the index of coincidence is off from 129 letters on.
3. Next to model: the usage errors of `main`, and what a ciphertext file may
   hold beyond letters.
