----------------------------- MODULE Hillclimb ------------------------------
(***************************************************************************)
(* A search: the loop of hillclimb (libEnigma/src/hillclimb.c), the        *)
(* shutdown check and the result report it is given (optimizer.c), the     *)
(* resume file (state.c, resume_in.c), the signal handler (optima/OS), and *)
(* the user who starts the program (optima/enigma.c), with or without -R.  *)
(*                                                                         *)
(* The process can end at any point.  What survives it is the resume file  *)
(* and the result file.  The clock matters to the periodic save only: it   *)
(* is kept as the age of last_save_state, up to the save interval.         *)
(***************************************************************************)
EXTENDS Integers, FiniteSets

CONSTANTS
  Key,             \* the keys of the range, and what may lie behind it
  From, To,        \* state->from, state->to
  NextKey,         \* where the four loops go from a key (module KeySweep)
  NoKey,           \* ... and that they end
  Rank,            \* the place of a key in the order of keycmp
  Endloop,         \* the keys scrambler_state_is_endloop skips
  Scores,          \* what the plugboard optimizer may find for a key
  MaxPass,         \* passes asked for
  Interval,        \* the 120 seconds of save_state, in ticks
  HandlesSignals,  \* InstallSighandler registers handle_signal
  MaxStops         \* bound on signals, kills and failing writes

ASSUME HillclimbAssumption ==
  /\ From \in Key /\ To \in Key
  /\ NoKey \notin Key
  /\ DOMAIN NextKey = Key
  /\ Rank \in [Key -> Nat]
  /\ Rank[From] <= Rank[To]
  /\ \A k \in Key : Rank[k] < Rank[To] =>
       /\ NextKey[k] \in Key
       /\ Rank[NextKey[k]] = Rank[k] + 1
  /\ \A j, k \in Key : Rank[j] = Rank[k] => j = k
  /\ Endloop \subseteq Key
  /\ Scores \subseteq Nat
  /\ MaxPass \in Nat \ {0}
  /\ Interval \in Nat \ {0}
  /\ HandlesSignals \in BOOLEAN
  /\ MaxStops \in Nat

VARIABLES
  pc,          \* where the process is, "down" if there is none
  exit,        \* how the last process ended
  ckey,        \* *state->ckey
  gkey,        \* *state->gkey: the best key and its score
  bestscore,   \* what optimize_score returned for ckey
  pass,        \* state->pass
  firstpass,   \* state->firstpass
  order,       \* how var was filled: by letter frequency or at random
  doShutdown,
  since,       \* age of last_save_state, Never while it is 0
  file,        \* 00hc.resume
  best,        \* best score in the result file
  tried,       \* history: the keys tried in each pass
  seen,        \* history: best score of a key tried
  overrun,     \* history: keys tried since doShutdown was set
  dirty,       \* history: a process has ended without saving
  stops        \* signals, kills and failing writes so far

process == << ckey, gkey, bestscore, pass, firstpass, order >>
history == << best, tried, seen, overrun >>
vars == << pc, exit, process, doShutdown, since, file, history, dirty, stops >>

Never  == -1
Passes == 1 .. MaxPass
Range  == {k \in Key : Rank[From] <= Rank[k] /\ Rank[k] <= Rank[To]}

Running == pc # "down"

\* set_state finds all its lines in the file.
Readable == file.state \in {"complete", "cut"}

NoFile == [state |-> "none", ckey |-> From, pass |-> MaxPass, firstpass |-> TRUE,
           gkey |-> [key |-> From, score |-> 0]]

Init ==
  /\ pc = "down" /\ exit = "none"
  /\ ckey = From /\ gkey = [key |-> From, score |-> 0] /\ bestscore = 0
  /\ pass = MaxPass /\ firstpass = TRUE /\ order = "frequency"
  /\ doShutdown = FALSE /\ since = Never
  /\ file = NoFile
  /\ best = 0 /\ tried = [p \in Passes |-> {}] /\ seen = 0
  /\ overrun = 0 /\ dirty = FALSE /\ stops = 0

-----------------------------------------------------------------------------
(* The user starts the program: main and optimizeScore.                    *)

Launch(current, global, passes, first) ==
  /\ ~ Running
  /\ ckey' = current /\ gkey' = global /\ bestscore' = 0
  /\ pass' = passes /\ firstpass' = first
  /\ order' = IF first THEN "frequency" ELSE "random"
  /\ pc' = IF passes > 0 THEN "check" ELSE "finish"
  /\ exit' = "none"
  /\ doShutdown' = FALSE /\ since' = Never
  /\ overrun' = 0
  /\ UNCHANGED << best, seen, dirty, stops >>

\* Without -R.  A user with a resume file to continue from uses it, a torn
\* one is removed.
Start ==
  /\ ~ Readable
  /\ file' = NoFile
  /\ Launch(From, [key |-> From, score |-> 0], MaxPass, TRUE)
  /\ tried' = [p \in Passes |-> {}]

\* The checks of set_state on a file that has all its lines
Accepted ==
  /\ Rank[From] <= Rank[file.ckey]
  /\ Rank[file.ckey] <= Rank[To]
  /\ file.pass >= 0
  /\ file.gkey.score >= 0

Resume ==
  /\ Readable /\ Accepted
  /\ Launch(file.ckey, file.gkey, file.pass, file.firstpass)
  /\ UNCHANGED << file, tried >>

\* "resume file is not in the right format", or it cannot be opened
ResumeRefused ==
  /\ ~ Running
  /\ ~ (Readable /\ Accepted)
  /\ exit' = "failure"
  /\ UNCHANGED << pc, process, doShutdown, since, file, history, dirty, stops >>

-----------------------------------------------------------------------------
(* save_state and check_shutdown.  The file is truncated when it is        *)
(* opened; print_state then writes, flushes and syncs it.  What a torn     *)
(* file held before is kept in the model, but nothing in the program sees  *)
(* it any more.                                                            *)

Truncate(next) ==
  /\ file' = [file EXCEPT !.state = "torn"]
  /\ pc' = next

MutantStopUnseen == FALSE      \* mutant: doShutdown is not volatile
MustStop == doShutdown

\* last_save_state is set at every call, whether or not anything is saved.
check_shutdown ==
  /\ pc = "check"
  /\ since' = 0
  /\ \/ MustStop /\ Truncate("write-shutdown")
     \/ ~ MustStop /\ since = Interval /\ Truncate("write-periodic")
     \/ ~ MustStop /\ since < Interval /\ pc' = "try" /\ UNCHANGED file
  /\ UNCHANGED << exit, process, doShutdown, history, dirty, stops >>

Writing == pc \in {"write-shutdown", "write-periodic", "write-final"}

\* Mutants: what is saved is the next key, the first key, the pass to come,
\* all passes, or a pass that is always the first.
MutantSaved(k, p, first, score) ==
  [state |-> "complete", ckey |-> k, pass |-> p, firstpass |-> first,
   gkey |-> [key |-> gkey.key, score |-> score]]
MutantSavesNext(state, score) ==
  MutantSaved(IF ckey = To THEN To ELSE NextKey[ckey], pass, firstpass, score)
MutantSavesFrom(state, score)     == MutantSaved(From, pass, firstpass, score)
MutantSavesNextPass(state, score) == MutantSaved(ckey, pass - 1, firstpass, score)
MutantSavesMaxPass(state, score)  == MutantSaved(ckey, MaxPass, firstpass, score)
MutantSavesFirst(state, score)    == MutantSaved(ckey, pass, TRUE, score)

Saved(state, score) ==
  [state |-> state, ckey |-> ckey, pass |-> pass, firstpass |-> firstpass,
   gkey |-> [key |-> gkey.key, score |-> score]]

MutantNoExit == IF pc = "write-final" THEN "down" ELSE "check"   \* exit( 111 ) is missing
AfterWrite   == IF pc = "write-periodic" THEN "try" ELSE "down"

print_state ==
  /\ Writing
  /\ file' = Saved("complete", gkey.score)
  /\ pc' = AfterWrite
  /\ exit' = CASE pc = "write-shutdown" -> "stopped"      \* exit( 111 )
               [] pc = "write-final"    -> "success"
               [] pc = "write-periodic" -> exit
  /\ UNCHANGED << process, doShutdown, since, history, dirty, stops >>

-----------------------------------------------------------------------------
(* The body of the loops in hillclimb.                                     *)

SkipEndloop ==
  /\ pc = "try" /\ ckey \in Endloop
  /\ bestscore' = 0
  /\ pc' = "endloop"
  /\ UNCHANGED << exit, ckey, gkey, pass, firstpass, order, doShutdown, since,
                  file, history, dirty, stops >>

MutantUnreported(score) ==      \* mutant: on_new_best is not called
  /\ pc = "try" /\ ckey \notin Endloop
  /\ bestscore' = score
  /\ gkey' = IF score > gkey.score THEN [key |-> ckey, score |-> score] ELSE gkey
  /\ pc' = "endloop"
  /\ UNCHANGED << exit, ckey, pass, firstpass, order, doShutdown, since, file,
                  history, dirty, stops >>

Evaluate(score) ==
  /\ pc = "try" /\ ckey \notin Endloop
  /\ bestscore' = score
  /\ IF score > gkey.score
     THEN gkey' = [key |-> ckey, score |-> score] /\ pc' = "report"
     ELSE pc' = "endloop" /\ UNCHANGED gkey
  /\ UNCHANGED << exit, ckey, pass, firstpass, order, doShutdown, since, file,
                  history, dirty, stops >>

\* print_key and print_plaintext flush and sync the result file.
on_new_best ==
  /\ pc = "report"
  /\ best' = IF gkey.score > best THEN gkey.score ELSE best
  /\ pc' = "endloop"
  /\ UNCHANGED << exit, process, doShutdown, since, file, tried, seen, overrun, dirty, stops >>

MutantNoBound == NextKey[ckey] = NoKey      \* mutant: state->to is not compared
EndOfRange    == ckey = To \/ NextKey[ckey] = NoKey

\* ENDLOOP: and the step of the four iterators
NextOrRestart ==
  /\ pc = "endloop"
  /\ IF EndOfRange
     THEN pc' = "restart" /\ UNCHANGED ckey
     ELSE pc' = "check" /\ ckey' = NextKey[ckey]
  /\ tried' = [tried EXCEPT ![pass] = @ \cup {ckey}]
  /\ seen' = IF bestscore > seen THEN bestscore ELSE seen
  /\ overrun' = IF doShutdown /\ overrun < 2 THEN overrun + 1 ELSE overrun
  /\ UNCHANGED << exit, gkey, bestscore, pass, firstpass, order, doShutdown,
                  since, file, best, dirty, stops >>

MutantSamePass == pass           \* mutants: --*pass is missing,
MutantFewPasses == pass > 2      \* the last pass is left out,
MutantStaleLo == ckey            \* lo = *state->from is missing
NextPass == pass - 1
MorePasses == pass > 1
lo == From

\* RESTART: and the head of the loop over passes
Restart ==
  /\ pc = "restart"
  /\ firstpass' = FALSE
  /\ order' = "random"
  /\ pass' = NextPass
  /\ IF MorePasses THEN pc' = "check" /\ ckey' = lo
                   ELSE pc' = "finish" /\ UNCHANGED ckey
  /\ UNCHANGED << exit, gkey, bestscore, doShutdown, since, file, history, dirty, stops >>

SaveFinal ==
  /\ pc = "finish"
  /\ since' = 0
  /\ Truncate("write-final")
  /\ UNCHANGED << exit, process, doShutdown, history, dirty, stops >>

-----------------------------------------------------------------------------
(* The environment.                                                        *)

Tick ==
  /\ Running
  /\ since' = IF since \in 0 .. Interval - 1 THEN since + 1 ELSE since
  /\ UNCHANGED << pc, exit, process, doShutdown, file, history, dirty, stops >>

Ends(how) ==
  /\ stops < MaxStops
  /\ stops' = stops + 1
  /\ pc' = "down" /\ exit' = how
  /\ dirty' = TRUE
  /\ UNCHANGED << process, doShutdown, since, file, history >>

\* A crash, SIGKILL, or a signal that arrives before InstallSighandler
Kill == Running /\ Ends("killed")

\* Without a handler the default action ends the process.  (The C runtime
\* of Windows resets the handler when it is called: the next signal kills.)
Signal ==
  /\ Running
  /\ IF HandlesSignals /\ ~ doShutdown
     THEN /\ stops < MaxStops
          /\ stops' = stops + 1
          /\ doShutdown' = TRUE
          /\ UNCHANGED << pc, exit, process, since, file, history, dirty >>
     ELSE Ends("signal")

\* err_open_fatal: the file is as it was
OpenFails ==
  /\ \/ pc = "check" /\ (MustStop \/ since = Interval)
     \/ pc = "finish"
  /\ Ends("failure")

\* What is left of a number when its last digits are.
LostDigits(n) == {m \in 1 .. n - 1 : \E d \in 1 .. 9 : m = n \div 10 ^ d}

\* A full disk or a crash can end the file within its last number, the score.
\* getline_resume does not ask for the end of the line.
CutShort(score) ==
  /\ Writing /\ stops < MaxStops
  /\ stops' = stops + 1
  /\ file' = Saved("cut", score)
  /\ pc' = "down" /\ exit' = "failure"
  /\ dirty' = TRUE
  /\ UNCHANGED << process, doShutdown, since, history >>

\* err_stream_fatal, and the check of the result file in on_new_best
WriteFails == (Writing \/ pc = "report") /\ Ends("failure")

-----------------------------------------------------------------------------
Step ==
  \/ check_shutdown
  \/ print_state
  \/ SkipEndloop
  \/ \E score \in Scores : Evaluate(score)
  \/ on_new_best
  \/ NextOrRestart
  \/ Restart
  \/ SaveFinal

User == Start \/ Resume \/ ResumeRefused

Environment == Tick \/ Kill \/ Signal \/ OpenFails \/ WriteFails

Next ==
  \/ Step \/ User \/ Environment
  \/ \E score \in LostDigits(gkey.score) : CutShort(score)

\* The process runs on, and a user who has nothing to show for it yet
\* starts the program again.
Fairness == WF_vars(Step) /\ WF_vars(exit # "success" /\ (Start \/ Resume))

Spec == Init /\ [][Next]_vars

FairSpec == Spec /\ Fairness

-----------------------------------------------------------------------------
(* Properties.                                                             *)

Checkpoint == [key : Key, score : Nat]

TypeOK ==
  /\ pc \in {"down", "check", "try", "report", "endloop", "restart", "finish",
             "write-shutdown", "write-periodic", "write-final"}
  /\ exit \in {"none", "success", "stopped", "failure", "killed", "signal"}
  /\ ckey \in Range /\ gkey \in Checkpoint /\ bestscore \in Nat
  /\ pass \in 0 .. MaxPass /\ firstpass \in BOOLEAN
  /\ pc \notin {"down", "finish", "write-final"} => pass > 0
  /\ order \in {"frequency", "random"}
  /\ doShutdown \in BOOLEAN /\ since \in Never .. Interval
  /\ file \in [state : {"none", "torn", "cut", "complete"}, ckey : Range,
               pass : 0 .. MaxPass, firstpass : BOOLEAN, gkey : Checkpoint]
  /\ best \in Nat /\ tried \in [Passes -> SUBSET Range] /\ seen \in Nat
  /\ overrun \in 0 .. 2
  /\ dirty \in BOOLEAN /\ stops \in 0 .. MaxStops

\* Nothing is left to do before key k in pass p.
TriedUpTo(k, p) ==
  /\ \A q \in Passes : q > p => tried[q] = Range
  /\ p > 0 => \A j \in Range : Rank[j] < Rank[k] => j \in tried[p]

\* Wherever the process is killed, the resume file never claims more than
\* was done: a search resumed from it leaves no key of any pass untried
\* (save_state before the key is evaluated, ckey and pass saved together).
FileNeverAhead == Readable => TriedUpTo(file.ckey, file.pass)

\* A resume file that has all its lines is one set_state accepts: the key
\* saved never leaves the range, also not at the carry into a new pass.
FileIsAccepted == Readable => Accepted

\* No result is lost: any score found at a key that will not be tried again,
\* and any score the resume file will compare with, is in the result file.
BestIsReported ==
  /\ seen <= best
  /\ Readable => file.gkey.score <= best

\* The first pass, and only the first, tests the plugs in the order of the
\* letter frequencies, across any number of resumptions.
FirstPassByFrequency ==
  Running => /\ firstpass = (pass = MaxPass)
             /\ pc # "restart" => order = IF firstpass THEN "frequency" ELSE "random"

\* A process that stops on request or finishes has left a resume file for
\* exactly what remains to be done.
ExitMeansSaved ==
  /\ exit = "stopped" => file.state = "complete" /\ file.pass > 0
  /\ exit = "success" => /\ file.state = "complete" /\ file.pass = 0
                         /\ \A p \in Passes : tried[p] = Range

\* What makes the properties above hold at every step: the position in
\* memory is always one from which the search is complete, and a score is
\* only ever kept in gkey alone between its discovery and its report.
Bookkeeping ==
  /\ pc \notin {"down", "restart"} => TriedUpTo(ckey, pass)
  /\ pc = "restart" => \A q \in Passes : q >= pass => tried[q] = Range
  /\ pc \in {"finish", "write-final"} => pass = 0
  /\ Running => exit = "none"
  /\ Running /\ pc # "report" => gkey.score <= best
  /\ pc \in {"report", "endloop"} => bestscore <= gkey.score

\* A search that is only ever stopped on request tries no key twice in a
\* pass: the key saved is the one that was about to be tried.
NoRework ==
  [][NextOrRestart /\ ~ dirty => ckey \notin tried[pass]]_vars

\* From one resume file to the next, with any number of torn files in
\* between, the position never goes back; nor does the best score, but for
\* the digits that a file cut short has lost.
FileOnlyAdvances ==
  [][file.state = "torn" /\ Readable' =>
       /\ \/ file'.pass < file.pass
          \/ file'.pass = file.pass /\ Rank[file'.ckey] >= Rank[file.ckey]
       /\ file'.state = "complete" => file'.gkey.score >= file.gkey.score]_vars

\* After a request to stop at most the key that was being tried is tried.
PromptStop == overrun <= 1

\* The search is exhaustive, in order, and finished only when it is.
Search == INSTANCE ExhaustiveSearch WITH finished <- (exit = "success")
IsExhaustiveSearch == Search!Spec

\* A search ends if the processes are left to run and one that has come to
\* an end is started again.
SearchEnds == <>(exit = "success")

\* A request to stop is answered, with or without the search having ended.
StopIsAnswered == doShutdown ~> ~ Running

\* The program stops on a signal only after it has saved its state.
SignalSavesState == exit # "signal"
=============================================================================
