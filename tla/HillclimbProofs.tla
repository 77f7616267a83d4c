-------------------------- MODULE HillclimbProofs ---------------------------
(***************************************************************************)
(* What holds of a search over any range of keys, for any number of        *)
(* passes, scores, stops and restarts.                                     *)
(***************************************************************************)
EXTENDS Hillclimb, TLAPS

-----------------------------------------------------------------------------
(* The range of keys.                                                      *)

\* The search begins and ends inside its range.
LEMMA BoundsInRange == From \in Range /\ To \in Range
  BY HillclimbAssumption, SMT DEF Range

\* From a key of the range that is not the last one, the loops go to the
\* next key of the range, and no key lies between the two.
LEMMA NextInRange ==
  ASSUME NEW k \in Range, k # To
  PROVE  /\ NextKey[k] \in Range
         /\ NextKey[k] # NoKey
         /\ \A j \in Range : Rank[j] < Rank[NextKey[k]] => j = k \/ Rank[j] < Rank[k]
<1>1. k \in Key /\ Rank[k] \in Nat /\ Rank[To] \in Nat /\ Rank[From] \in Nat
  BY HillclimbAssumption DEF Range
<1>2. Rank[k] < Rank[To]
  BY <1>1, HillclimbAssumption, SMT DEF Range
<1>3. NextKey[k] \in Key /\ Rank[NextKey[k]] = Rank[k] + 1
  BY <1>1, <1>2, HillclimbAssumption
<1>4. NextKey[k] \in Range
  BY <1>1, <1>2, <1>3, SMT DEF Range
<1>5. ASSUME NEW j \in Range, Rank[j] < Rank[NextKey[k]], j # k
      PROVE  Rank[j] < Rank[k]
  <2>1. j \in Key /\ Rank[j] \in Nat
    BY HillclimbAssumption DEF Range
  <2>2. Rank[j] # Rank[k]
    BY <1>1, <1>5, <2>1, HillclimbAssumption
  <2> QED BY <1>1, <1>3, <1>5, <2>1, <2>2, SMT
<1>6. NextKey[k] # NoKey
  BY <1>3, HillclimbAssumption
<1> QED BY <1>4, <1>5, <1>6

\* When the last key has been tried after all before it, the whole range has
\* been tried.
LEMMA LastKeyCompletesRange ==
  ASSUME NEW S \in SUBSET Range,
         \A j \in Range : Rank[j] < Rank[To] => j \in S
  PROVE  S \cup {To} = Range
<1>1. ASSUME NEW j \in Range PROVE j \in S \cup {To}
  <2>1. Rank[j] \in Nat /\ Rank[To] \in Nat /\ Rank[j] <= Rank[To] /\ j \in Key /\ To \in Key
    BY HillclimbAssumption DEF Range
  <2>2. CASE Rank[j] = Rank[To]
    BY <2>1, <2>2, HillclimbAssumption
  <2>3. CASE Rank[j] < Rank[To]
    BY <2>3
  <2> QED BY <2>1, <2>2, <2>3, SMT
<1> QED BY <1>1, BoundsInRange

-----------------------------------------------------------------------------
(* Types.                                                                  *)

\* The file there is not is a file.
LEMMA NoFileType ==
  NoFile \in [state : {"none", "torn", "cut", "complete"}, ckey : Range,
              pass : 0 .. MaxPass, firstpass : BOOLEAN, gkey : Checkpoint]
<1>1. [key |-> From, score |-> 0] \in Checkpoint
  BY HillclimbAssumption DEF Checkpoint
<1>2. MaxPass \in 0 .. MaxPass
  BY HillclimbAssumption, SMT
<1> QED BY <1>1, <1>2, BoundsInRange, Zenon DEF NoFile

\* A search that has not been started has its types.
LEMMA TypeInit == Init => TypeOK
<1> SUFFICES ASSUME Init PROVE TypeOK
  OBVIOUS
<1>1. MaxPass \in 0 .. MaxPass /\ Never \in Never .. Interval /\ 0 \in 0 .. 2
      /\ 0 \in 0 .. MaxStops
  BY HillclimbAssumption, SMT DEF Never
<1>2. [key |-> From, score |-> 0] \in Checkpoint
  BY HillclimbAssumption DEF Checkpoint
<1>3. [p \in Passes |-> {}] \in [Passes -> SUBSET Range]
  OBVIOUS
<1> QED BY <1>1, <1>2, <1>3, NoFileType, BoundsInRange, Zenon DEF Init, TypeOK

\* Every launch begins with values of the right types.
LEMMA TypeLaunch ==
  ASSUME TypeOK,
         NEW k \in Range, NEW g \in Checkpoint, NEW p \in 0 .. MaxPass,
         NEW first \in BOOLEAN,
         Launch(k, g, p, first)
  PROVE  /\ pc' \in {"check", "finish"} /\ exit' = "none"
         /\ ckey' \in Range /\ gkey' \in Checkpoint /\ bestscore' \in Nat
         /\ pass' \in 0 .. MaxPass /\ firstpass' \in BOOLEAN
         /\ pc' # "finish" => pass' > 0
         /\ order' \in {"frequency", "random"}
         /\ doShutdown' \in BOOLEAN /\ since' \in Never .. Interval
         /\ best' \in Nat /\ seen' \in Nat /\ overrun' \in 0 .. 2
         /\ dirty' \in BOOLEAN /\ stops' \in 0 .. MaxStops
<1>1. Never \in Never .. Interval /\ 0 \in 0 .. 2 /\ 0 \in Nat
  BY HillclimbAssumption, SMT DEF Never
<1>2. pc' \in {"check", "finish"} /\ order' \in {"frequency", "random"}
      /\ (pc' # "finish" => pass' > 0)
  BY Zenon DEF Launch
<1> QED BY <1>1, <1>2, Zenon DEF Launch, TypeOK

\* What is written is of the type of a resume file.
LEMMA TypeSaved ==
  ASSUME TypeOK, NEW score \in Nat, NEW state \in {"cut", "complete"}
  PROVE  Saved(state, score) \in
           [state : {"none", "torn", "cut", "complete"}, ckey : Range,
            pass : 0 .. MaxPass, firstpass : BOOLEAN, gkey : Checkpoint]
<1>1. gkey.key \in Key
  BY DEF TypeOK, Checkpoint
<1>2. [key |-> gkey.key, score |-> score] \in Checkpoint
  BY <1>1, Zenon DEF Checkpoint
<1>3. /\ ckey \in Range /\ pass \in 0 .. MaxPass /\ firstpass \in BOOLEAN
      /\ state \in {"none", "torn", "cut", "complete"}
  BY DEF TypeOK
<1> QED BY <1>2, <1>3, Zenon DEF Saved

\* A score that has lost digits is still a score, and less than it was.
LEMMA LessDigits ==
  \A n \in Nat : \A m \in LostDigits(n) : m \in Nat /\ m < n
<1> SUFFICES ASSUME NEW n \in Nat, NEW m \in LostDigits(n)
             PROVE  m \in Nat /\ m < n
  OBVIOUS
<1>1. m \in 1 .. n - 1
  BY Zenon DEF LostDigits
<1> QED BY <1>1, SMT

\* Every step of the search, the user and the environment keeps the types.
LEMMA TypeStep == TypeOK /\ [Next]_vars => TypeOK'
<1> SUFFICES ASSUME TypeOK, [Next]_vars PROVE TypeOK'
  OBVIOUS
<1>1. CASE check_shutdown
  BY <1>1, HillclimbAssumption, SMT
     DEF check_shutdown, MustStop, Truncate, TypeOK, process, history, Never
<1>2. CASE print_state
  <2>1. file' \in [state : {"none", "torn", "cut", "complete"}, ckey : Range,
                   pass : 0 .. MaxPass, firstpass : BOOLEAN, gkey : Checkpoint]
    <3>1. gkey.score \in Nat
      BY DEF TypeOK, Checkpoint
    <3> QED BY <1>2, <3>1, TypeSaved DEF print_state, AfterWrite
  <2>2. /\ pc' \in {"try", "down"}
        /\ pc' = "try" => pc \notin {"down", "finish", "write-final"}
        /\ exit' \in {"none", "success", "stopped", "failure", "killed", "signal"}
    BY <1>2, Zenon DEF print_state, AfterWrite, Writing, TypeOK
  <2> QED BY <1>2, <2>1, <2>2, Zenon DEF print_state, AfterWrite, TypeOK, process, history
<1>3. CASE SkipEndloop
  BY <1>3, SMT DEF SkipEndloop, TypeOK, history
<1>4. ASSUME NEW score \in Scores, Evaluate(score) PROVE TypeOK'
  <2>1. score \in Nat /\ ckey \in Key
    BY HillclimbAssumption DEF TypeOK, Range
  <2>2. [key |-> ckey, score |-> score] \in Checkpoint
    BY <2>1, Zenon DEF Checkpoint
  <2>3. gkey' \in Checkpoint /\ pc' \in {"report", "endloop"} /\ pc = "try"
    <3>1. CASE score > gkey.score
      BY <1>4, <2>2, <3>1, Zenon DEF Evaluate
    <3>2. CASE ~ (score > gkey.score)
      BY <1>4, <3>2, Zenon DEF Evaluate, TypeOK
    <3> QED BY <3>1, <3>2
  <2> QED BY <1>4, <2>1, <2>3, ZenonT(40) DEF Evaluate, TypeOK, history
<1>5. CASE on_new_best
  BY <1>5, SMT DEF on_new_best, TypeOK, process, Checkpoint
<1>6. CASE NextOrRestart
  <2>1. ckey' \in Range
    BY <1>6, NextInRange DEF NextOrRestart, EndOfRange, TypeOK
  <2>2. tried \in [Passes -> SUBSET Range] /\ ckey \in Range
    BY DEF TypeOK
  <2>3. tried' \in [Passes -> SUBSET Range]
    BY <1>6, <2>2 DEF NextOrRestart, EndOfRange
  <2>4. overrun' \in 0 .. 2 /\ seen' \in Nat
    BY <1>6, SMT DEF NextOrRestart, EndOfRange, TypeOK
  <2> QED BY <1>6, <2>1, <2>3, <2>4 DEF NextOrRestart, EndOfRange, TypeOK
<1>7. CASE Restart
  <2>1. pass \in 1 .. MaxPass /\ MaxPass \in Nat
    BY <1>7, HillclimbAssumption, SMT DEF Restart, NextPass, MorePasses, lo, TypeOK
  <2>2. pass' = pass - 1 /\ (pc' = "check" \/ pc' = "finish")
        /\ (pc' = "check" => pass > 1)
    BY <1>7, Zenon DEF Restart, NextPass, MorePasses, lo
  <2>3. pass' \in 0 .. MaxPass /\ (pc' = "check" => pass' > 0)
    BY <2>1, <2>2, SMT
  <2> QED BY <1>7, <2>2, <2>3, BoundsInRange, Zenon
          DEF Restart, NextPass, MorePasses, lo, TypeOK, history
<1>8. CASE SaveFinal
  <2>1. 0 \in Never .. Interval
    BY HillclimbAssumption, SMT DEF Never
  <2> QED BY <1>8, <2>1, Zenon DEF SaveFinal, Truncate, TypeOK, process, history
<1>9. CASE Start
  <2>1. [key |-> From, score |-> 0] \in Checkpoint /\ MaxPass \in 0 .. MaxPass
    BY HillclimbAssumption DEF Checkpoint
  <2>2. [p \in Passes |-> {}] \in [Passes -> SUBSET Range]
    OBVIOUS
  <2> QED BY <1>9, <2>1, <2>2, BoundsInRange, NoFileType, TypeLaunch, Zenon
          DEF Start, TypeOK
<1>10. CASE Resume
  <2>1. /\ file.ckey \in Range /\ file.gkey \in Checkpoint
        /\ file.pass \in 0 .. MaxPass /\ file.firstpass \in BOOLEAN
    BY DEF TypeOK
  <2>2. Launch(file.ckey, file.gkey, file.pass, file.firstpass)
        /\ file' = file /\ tried' = tried
    BY <1>10, Zenon DEF Resume
  <2>3. /\ pc' \in {"check", "finish"} /\ exit' = "none"
        /\ ckey' \in Range /\ gkey' \in Checkpoint /\ bestscore' \in Nat
        /\ pass' \in 0 .. MaxPass /\ firstpass' \in BOOLEAN
        /\ pc' # "finish" => pass' > 0
        /\ order' \in {"frequency", "random"}
        /\ doShutdown' \in BOOLEAN /\ since' \in Never .. Interval
        /\ best' \in Nat /\ seen' \in Nat /\ overrun' \in 0 .. 2
        /\ dirty' \in BOOLEAN /\ stops' \in 0 .. MaxStops
    BY <2>1, <2>2, TypeLaunch
  <2> QED BY <2>2, <2>3, Zenon DEF TypeOK
<1>11. CASE ResumeRefused
  BY <1>11 DEF ResumeRefused, TypeOK, process, history
<1>12. CASE Tick
  <2>1. since' \in Never .. Interval
    BY <1>12, HillclimbAssumption, SMT DEF Tick, TypeOK, Never
  <2>2. /\ pc' = pc /\ exit' = exit /\ ckey' = ckey /\ gkey' = gkey
        /\ bestscore' = bestscore /\ pass' = pass /\ firstpass' = firstpass
        /\ order' = order /\ doShutdown' = doShutdown /\ file' = file
        /\ best' = best /\ tried' = tried /\ seen' = seen
        /\ overrun' = overrun /\ dirty' = dirty /\ stops' = stops
    BY <1>12 DEF Tick, process, history
  <2>3. pc' \notin {"down", "finish", "write-final"} => pass' > 0
    BY <2>2 DEF TypeOK
  <2> QED BY <2>1, <2>2, <2>3, SMT DEF TypeOK
<1>13. CASE Kill \/ Signal \/ OpenFails \/ WriteFails
  <2>1. stops' \in 0 .. MaxStops
    <3>1. stops \in 0 .. MaxStops /\ MaxStops \in Nat
      BY HillclimbAssumption DEF TypeOK
    <3>2. stops < MaxStops /\ stops' = stops + 1
      BY <1>13, Zenon DEF Kill, Signal, OpenFails, WriteFails, Ends
    <3> QED BY <3>1, <3>2, SMT
  <2>2. /\ ckey' = ckey /\ gkey' = gkey /\ bestscore' = bestscore
        /\ pass' = pass /\ firstpass' = firstpass /\ order' = order
        /\ since' = since /\ file' = file /\ best' = best /\ tried' = tried
        /\ seen' = seen /\ overrun' = overrun
    BY <1>13 DEF Kill, Signal, OpenFails, WriteFails, Ends, process, history
  <2>3. /\ (pc' = pc \/ pc' = "down")
        /\ (exit' = exit \/ exit' = "killed" \/ exit' = "signal" \/ exit' = "failure")
        /\ (doShutdown' = doShutdown \/ doShutdown' = TRUE)
        /\ (dirty' = dirty \/ dirty' = TRUE)
    BY <1>13, Zenon DEF Kill, Signal, OpenFails, WriteFails, Ends
  <2>4. doShutdown' \in BOOLEAN /\ dirty' \in BOOLEAN
    BY <2>3, Zenon DEF TypeOK
  <2>5. exit' \in {"none", "success", "stopped", "failure", "killed", "signal"}
    BY <2>3, SMT DEF TypeOK
  <2>6. CASE pc' = pc
    BY <2>1, <2>2, <2>4, <2>5, <2>6, SMT DEF TypeOK
  <2>7. CASE pc' = "down"
    BY <2>1, <2>2, <2>4, <2>5, <2>7, SMT DEF TypeOK
  <2> QED BY <2>3, <2>6, <2>7
<1>14. CASE UNCHANGED vars
  BY <1>14 DEF vars, process, history, TypeOK
<1>15. ASSUME NEW score \in LostDigits(gkey.score), CutShort(score) PROVE TypeOK'
  <2>1. gkey.score \in Nat /\ MaxStops \in Nat
    BY HillclimbAssumption DEF TypeOK, Checkpoint
  <2>2. score \in Nat
    BY <2>1, LessDigits
  <2>3. /\ file' = Saved("cut", score) /\ pc' = "down" /\ exit' = "failure"
        /\ dirty' = TRUE /\ stops < MaxStops /\ stops' = stops + 1
        /\ ckey' = ckey /\ gkey' = gkey /\ bestscore' = bestscore
        /\ pass' = pass /\ firstpass' = firstpass /\ order' = order
        /\ doShutdown' = doShutdown /\ since' = since /\ best' = best
        /\ tried' = tried /\ seen' = seen /\ overrun' = overrun
    BY <1>15 DEF CutShort, process, history
  <2>4. stops' \in 0 .. MaxStops
    BY <2>1, <2>3, SMT DEF TypeOK
  <2>5. file' \in [state : {"none", "torn", "cut", "complete"}, ckey : Range,
                   pass : 0 .. MaxPass, firstpass : BOOLEAN, gkey : Checkpoint]
    BY <2>2, <2>3, TypeSaved
  <2> QED BY <2>3, <2>4, <2>5, Zenon DEF TypeOK
<1> QED
  BY <1>1, <1>2, <1>3, <1>4, <1>5, <1>6, <1>7, <1>8, <1>9, <1>10, <1>11, <1>12,
     <1>13, <1>14, <1>15 DEF Next, Step, User, Environment

\* The model never leaves its types; in particular the current key, in
\* memory and in the resume file, never leaves the range.
THEOREM TypeCorrect == Spec => []TypeOK
  BY TypeInit, TypeStep, PTL DEF Spec

\* What set_state asks of a resume file is true of every one that has all
\* its lines.
THEOREM ResumeFileAccepted == Spec => []FileIsAccepted
<1>1. TypeOK => FileIsAccepted
  <2> SUFFICES ASSUME TypeOK PROVE Accepted
    BY DEF FileIsAccepted
  <2>1. /\ file.ckey \in Range /\ file.pass \in 0 .. MaxPass
        /\ file.gkey \in Checkpoint
    BY DEF TypeOK
  <2>2. file.gkey.score \in Nat /\ MaxPass \in Nat
    BY <2>1, HillclimbAssumption DEF Checkpoint
  <2> QED BY <2>1, <2>2, SMT DEF Accepted, Range
<1> QED BY <1>1, TypeCorrect, PTL

-----------------------------------------------------------------------------
(* The position.  FileNeverAhead is not inductive: a file is only as good  *)
(* as the position in memory it is written from, and the position at the   *)
(* end of a pass only as good as the whole pass.                           *)

Placed ==
  /\ pc \notin {"down", "restart"} => TriedUpTo(ckey, pass)
  /\ pc = "restart" => \A q \in Passes : q >= pass => tried[q] = Range
  /\ pc \in {"finish", "write-final"} => pass = 0
  /\ Running => exit = "none"
  /\ FileNeverAhead
  /\ ExitMeansSaved

\* No key of the range comes before the first one.
LEMMA NoneBeforeFirst == \A j \in Range : ~ (Rank[j] < Rank[From])
  BY HillclimbAssumption, SMT DEF Range

\* Before the first start there is nothing to have been left out.
LEMMA PlacedInit == Init => Placed
<1> SUFFICES ASSUME Init PROVE Placed
  OBVIOUS
<1>1. pc = "down" /\ exit = "none" /\ file.state = "none"
  BY DEF Init, NoFile
<1> QED BY <1>1 DEF Placed, FileNeverAhead, ExitMeansSaved, Running, Readable

\* Keys are only ever added, except by a user who starts over.
LEMMA TriedGrows ==
  ASSUME TypeOK, NextOrRestart, NEW k \in Range, NEW p \in 0 .. MaxPass,
         TriedUpTo(k, p)
  PROVE  TriedUpTo(k, p)'
<1>1. /\ tried \in [Passes -> SUBSET Range] /\ ckey \in Range
      /\ tried' = [tried EXCEPT ![pass] = @ \cup {ckey}]
  BY DEF TypeOK, NextOrRestart
<1>2. \A q \in Passes : tried[q] \subseteq tried'[q] /\ tried'[q] \subseteq Range
  BY <1>1
<1>3. p > 0 => p \in Passes
  BY HillclimbAssumption, SMT DEF Passes
<1> QED BY <1>2, <1>3 DEF TriedUpTo

\* The step of the iterators.
LEMMA NextKeepsPlaced == TypeOK /\ Placed /\ NextOrRestart => Placed'
<1> SUFFICES ASSUME TypeOK, Placed, NextOrRestart PROVE Placed'
  OBVIOUS
<1>1. /\ pc = "endloop" /\ exit = "none" /\ TriedUpTo(ckey, pass)
      /\ pass' = pass /\ exit' = exit /\ file' = file
      /\ pc' = "restart" \/ pc' = "check"
  BY Zenon DEF NextOrRestart, EndOfRange, Placed, Running
<1>2. pass \in Passes /\ pass \in 0 .. MaxPass /\ ckey \in Range
      /\ tried \in [Passes -> SUBSET Range]
  BY <1>1, HillclimbAssumption, SMT DEF TypeOK, Passes
<1>3. tried' = [tried EXCEPT ![pass] = @ \cup {ckey}]
  BY DEF NextOrRestart, EndOfRange
<1>4. /\ \A q \in Passes : q > pass => tried'[q] = Range
      /\ ckey \in tried'[pass]
      /\ \A j \in Range : Rank[j] < Rank[ckey] => j \in tried'[pass]
  <2>1. pass > 0
    BY <1>2, SMT DEF Passes
  <2>2. \A q \in Passes : q > pass => tried[q] = Range
    BY <1>1 DEF TriedUpTo
  <2>3. \A q \in Passes : q > pass => q # pass
    BY <1>2, SMT DEF Passes
  <2>4. \A j \in Range : Rank[j] < Rank[ckey] => j \in tried[pass]
    BY <1>1, <2>1 DEF TriedUpTo
  <2> QED BY <1>2, <1>3, <2>2, <2>3, <2>4
<1>5. pc' = "restart" => \A q \in Passes : q >= pass => tried'[q] = Range
  <2> SUFFICES ASSUME pc' = "restart" PROVE tried'[pass] = Range
    BY <1>2, <1>4, SMT DEF Passes
  <2>1. ckey = To
    BY <1>2, NextInRange DEF NextOrRestart, EndOfRange
  <2>2. tried[pass] \in SUBSET Range
    BY <1>2
  <2>3. \A j \in Range : Rank[j] < Rank[To] => j \in tried[pass]
    BY <1>1, <1>2, <2>1, SMT DEF TriedUpTo, Passes
  <2> QED BY <1>2, <1>3, <2>1, <2>2, <2>3, LastKeyCompletesRange
<1>6. pc' = "check" => TriedUpTo(ckey, pass)'
  <2> SUFFICES ASSUME pc' = "check" PROVE TriedUpTo(ckey, pass)'
    OBVIOUS
  <2>1. ckey' = NextKey[ckey] /\ ckey # To
    BY DEF NextOrRestart, EndOfRange
  <2>2. \A j \in Range : Rank[j] < Rank[ckey'] => j = ckey \/ Rank[j] < Rank[ckey]
    BY <1>2, <2>1, NextInRange
  <2> QED BY <1>1, <1>4, <2>2, Zenon DEF TriedUpTo
<1>7. FileNeverAhead'
  <2>1. file.ckey \in Range /\ file.pass \in 0 .. MaxPass
    BY DEF TypeOK
  <2> QED BY <1>1, <2>1, TriedGrows DEF FileNeverAhead, Placed, TriedUpTo, Readable
<1> QED BY <1>1, <1>5, <1>6, <1>7 DEF Placed, ExitMeansSaved, Running

\* The end of a pass.
LEMMA RestartKeepsPlaced == TypeOK /\ Placed /\ Restart => Placed'
<1> SUFFICES ASSUME TypeOK, Placed, Restart PROVE Placed'
  OBVIOUS
<1>1. /\ pc = "restart" /\ exit = "none" /\ exit' = exit
      /\ file' = file /\ tried' = tried /\ pass' = pass - 1
      /\ \A q \in Passes : q >= pass => tried[q] = Range
  BY Zenon DEF Restart, NextPass, MorePasses, lo, Placed, Running, history
<1>2. pass \in Nat /\ pass > 0
  BY <1>1, HillclimbAssumption, SMT DEF TypeOK
<1>3. \A q \in Passes : q > pass' => tried'[q] = Range
  BY <1>1, <1>2, SMT DEF Passes
<1>4. (pc' = "check" /\ ckey' = From) \/ (pc' = "finish" /\ pass' = 0)
  BY <1>1, <1>2, SMT DEF Restart, NextPass, MorePasses, lo
<1>5. TriedUpTo(ckey, pass)'
  <2>1. CASE ckey' = From
    BY <1>3, <2>1, NoneBeforeFirst, Zenon DEF TriedUpTo
  <2>2. CASE pass' = 0
    <3>1. ~ (pass' > 0)
      BY <2>2, SMT
    <3> QED BY <1>3, <3>1, Zenon DEF TriedUpTo
  <2> QED BY <1>4, <2>1, <2>2
<1>6. FileNeverAhead'
  BY <1>1, Zenon DEF FileNeverAhead, Placed, TriedUpTo, Readable
<1> QED BY <1>1, <1>4, <1>5, <1>6 DEF Placed, ExitMeansSaved, Running

\* A launch: from the first key, or from where the resume file says.
LEMMA LaunchKeepsPlaced == TypeOK /\ Placed /\ (Start \/ Resume) => Placed'
<1> SUFFICES ASSUME TypeOK, Placed, Start \/ Resume PROVE Placed'
  OBVIOUS
<1>1. CASE Start
  <2>1. /\ ckey' = From /\ pass' = MaxPass /\ file' = NoFile /\ exit' = "none"
        /\ pc' = "check"
    BY <1>1, HillclimbAssumption, SMT DEF Start, Launch
  <2>2. \A q \in Passes : ~ (q > MaxPass)
    BY HillclimbAssumption, SMT DEF Passes
  <2>3. TriedUpTo(ckey, pass)'
    BY <2>1, <2>2, NoneBeforeFirst, Zenon DEF TriedUpTo
  <2>4. file'.state = "none"
    BY <2>1 DEF NoFile
  <2> QED BY <2>1, <2>3, <2>4
          DEF Placed, FileNeverAhead, ExitMeansSaved, Running, Readable
<1>2. CASE Resume
  <2>1. /\ file' = file /\ tried' = tried /\ Readable
        /\ ckey' = file.ckey /\ pass' = file.pass /\ exit' = "none"
        /\ pc' = IF file.pass > 0 THEN "check" ELSE "finish"
    BY <1>2, Zenon DEF Resume, Launch
  <2>2. TriedUpTo(file.ckey, file.pass)
    BY <2>1 DEF Placed, FileNeverAhead
  <2>3. pc' = "check" \/ (pc' = "finish" /\ pass' = 0)
    <3>1. file.pass \in 0 .. MaxPass /\ MaxPass \in Nat
      BY HillclimbAssumption DEF TypeOK
    <3> QED BY <2>1, <3>1, SMT
  <2>4. TriedUpTo(ckey, pass)' /\ FileNeverAhead'
    BY <2>1, <2>2, Zenon DEF TriedUpTo, FileNeverAhead, Readable
  <2> QED BY <2>1, <2>3, <2>4 DEF Placed, ExitMeansSaved, Running
<1> QED BY <1>1, <1>2

\* The file is written from a position that is good.
LEMMA PrintKeepsPlaced == TypeOK /\ Placed /\ print_state => Placed'
<1> SUFFICES ASSUME TypeOK, Placed, print_state PROVE Placed'
  OBVIOUS
<1>1. /\ tried' = tried /\ ckey' = ckey /\ pass' = pass
      /\ file'.state = "complete" /\ file'.ckey = ckey /\ file'.pass = pass
      /\ TriedUpTo(ckey, pass) /\ exit = "none"
  BY SMT DEF print_state, AfterWrite, Saved, process, history, Placed, Writing, Running
<1>2. TriedUpTo(ckey, pass)' /\ FileNeverAhead'
  BY <1>1, Zenon DEF TriedUpTo, FileNeverAhead
<1>3. \/ pc = "write-periodic" /\ pc' = "try" /\ exit' = "none"
      \/ pc = "write-shutdown" /\ pc' = "down" /\ exit' = "stopped" /\ pass > 0
      \/ pc = "write-final" /\ pc' = "down" /\ exit' = "success" /\ pass = 0
  BY <1>1, SMT DEF print_state, AfterWrite, Writing, Placed, TypeOK
<1>4. ExitMeansSaved'
  <2>1. CASE exit' # "success"
    BY <1>1, <1>3, <2>1, Zenon DEF ExitMeansSaved
  <2>2. CASE exit' = "success"
    <3>1. pass = 0
      BY <1>3, <2>2
    <3>2. \A q \in Passes : q > 0
      BY SMT DEF Passes
    <3>3. \A q \in Passes : tried[q] = Range
      BY <1>1, <3>1, <3>2 DEF TriedUpTo
    <3> QED BY <1>1, <2>2, <3>1, <3>3 DEF ExitMeansSaved
  <2> QED BY <2>1, <2>2
<1> QED BY <1>2, <1>3, <1>4, SMT DEF Placed, Running

\* A file that has lost digits is as good a position.
LEMMA CutKeepsPlaced ==
  ASSUME TypeOK, Placed, NEW score \in LostDigits(gkey.score), CutShort(score)
  PROVE  Placed'
<1>1. /\ tried' = tried /\ pc' = "down" /\ exit' = "failure"
      /\ file'.ckey = ckey /\ file'.pass = pass
      /\ TriedUpTo(ckey, pass)
  BY SMT DEF CutShort, Saved, process, history, Placed, Writing
<1>2. FileNeverAhead'
  BY <1>1, Zenon DEF TriedUpTo, FileNeverAhead
<1> QED BY <1>1, <1>2 DEF Placed, ExitMeansSaved, Running

\* The steps that change neither the position nor what has been tried, and
\* leave the file as it is or torn.
Aside ==
  /\ tried' = tried /\ ckey' = ckey /\ pass' = pass
  /\ file' = file \/ file' = [file EXCEPT !.state = "torn"]
  /\ \/ pc' = pc /\ exit' = exit
     \/ pc' = "down" /\ exit' \in {"killed", "signal", "failure"} /\ file' = file
     \/ pc \notin {"down", "restart"} /\ exit' = exit
        /\ pc' \notin {"down", "restart", "finish", "write-final"}
     \/ pc = "finish" /\ pc' = "write-final" /\ exit' = exit
  /\ file' # file => pc # "down"

\* All other steps leave the position and what is tried alone.
LEMMA OtherStepsAside ==
  ASSUME TypeOK,
         \/ check_shutdown \/ SkipEndloop \/ \E score \in Scores : Evaluate(score)
         \/ on_new_best \/ SaveFinal \/ ResumeRefused \/ Environment
         \/ UNCHANGED vars
  PROVE  Aside
<1>1. CASE check_shutdown
  BY <1>1, SMT DEF check_shutdown, MustStop, Truncate, Aside, process, history
<1>2. CASE SkipEndloop
  BY <1>2, SMT DEF SkipEndloop, Aside, history
<1>3. CASE \E score \in Scores : Evaluate(score)
  <2>1. PICK score \in Scores : Evaluate(score)
    BY <1>3
  <2> QED BY <2>1, SMT DEF Evaluate, Aside, history
<1>4. CASE on_new_best
  BY <1>4, SMT DEF on_new_best, Aside, process
<1>5. CASE SaveFinal
  BY <1>5, SMT DEF SaveFinal, Truncate, Aside, process, history
<1>6. CASE ResumeRefused
  BY <1>6, SMT DEF ResumeRefused, Aside, process, history, Running
<1>7. CASE Tick
  BY <1>7, SMT DEF Tick, Aside, process, history
<1>8. CASE Kill \/ Signal \/ OpenFails \/ WriteFails
  BY <1>8, Zenon DEF Kill, Signal, OpenFails, WriteFails, Ends, Aside, process, history
<1>9. CASE UNCHANGED vars
  BY <1>9, SMT DEF vars, Aside, process, history
<1> QED BY <1>1, <1>2, <1>3, <1>4, <1>5, <1>6, <1>7, <1>8, <1>9 DEF Environment

\* ... and keep the invariant for that.
LEMMA AsideKeepsPlaced == TypeOK /\ Placed /\ Aside => Placed'
<1> SUFFICES ASSUME TypeOK, Placed, Aside PROVE Placed'
  OBVIOUS
<1>1. Readable' => file' = file
  <2>1. file \in [state : {"none", "torn", "cut", "complete"}, ckey : Range,
                  pass : 0 .. MaxPass, firstpass : BOOLEAN, gkey : Checkpoint]
    BY DEF TypeOK
  <2> QED BY <2>1, SMT DEF Aside, Readable
<1>2. FileNeverAhead'
  BY <1>1, Zenon DEF Aside, Placed, FileNeverAhead, TriedUpTo, Readable
<1>3. pc' \notin {"down", "restart"} => TriedUpTo(ckey, pass)'
  BY SMT DEF Aside, Placed, TriedUpTo
<1>4. ExitMeansSaved'
  BY <1>1, SMT DEF Aside, Placed, ExitMeansSaved, Running, Readable
<1> QED BY <1>2, <1>3, <1>4, SMT DEF Aside, Placed, Running

\* Every step keeps the position one from which the search is complete.
LEMMA PlacedStep == TypeOK /\ Placed /\ [Next]_vars => Placed'
  BY NextKeepsPlaced, RestartKeepsPlaced, LaunchKeepsPlaced, PrintKeepsPlaced,
     CutKeepsPlaced, OtherStepsAside, AsideKeepsPlaced, Zenon DEF Next, Step, User

\* It is one at all times.
LEMMA PlacedAlways == Spec => [](TypeOK /\ Placed)
<1>1. TypeOK /\ Placed /\ [Next]_vars => (TypeOK /\ Placed)'
  BY TypeStep, PlacedStep
<1> QED BY TypeInit, PlacedInit, <1>1, PTL DEF Spec

\* Whatever the range, the number of passes and of interruptions: a search
\* resumed from the resume file leaves no key of any pass untried.
THEOREM NothingSkippedOnResume == Spec => []FileNeverAhead
<1>1. Placed => FileNeverAhead
  BY DEF Placed
<1> QED BY PlacedAlways, <1>1, PTL

\* A process that reports success has left nothing undone, and one that
\* stops on request has left a file to go on from.
THEOREM ExitMeansSavedAlways == Spec => []ExitMeansSaved
<1>1. Placed => ExitMeansSaved
  BY DEF Placed
<1> QED BY PlacedAlways, <1>1, PTL

-----------------------------------------------------------------------------
(* The scores.  Between its discovery and its report a score is in gkey    *)
(* only, and nothing is saved there.                                       *)

Scored ==
  /\ BestIsReported
  /\ Running /\ pc # "report" => gkey.score <= best
  /\ pc \in {"report", "endloop"} => bestscore <= gkey.score

ScoreTypes ==
  /\ gkey.score \in Nat /\ best \in Nat /\ seen \in Nat /\ bestscore \in Nat
  /\ file.gkey.score \in Nat

\* The scores in memory and in the files are numbers.
LEMMA TypesOfScores == TypeOK => ScoreTypes
<1> SUFFICES ASSUME TypeOK PROVE ScoreTypes
  OBVIOUS
<1>1. gkey \in Checkpoint /\ file.gkey \in Checkpoint
  BY DEF TypeOK
<1> QED BY <1>1 DEF TypeOK, Checkpoint, ScoreTypes

\* Before the first start nothing has been found.
LEMMA ScoredInit == Init => Scored
  BY SMT DEF Init, Scored, BestIsReported, NoFile, Running, Readable

\* The steps on which a score moves.
LEMMA ScoredMoves ==
  ASSUME TypeOK, Scored,
         \/ Start \/ Resume \/ SkipEndloop \/ \E score \in Scores : Evaluate(score)
         \/ on_new_best \/ NextOrRestart \/ print_state
         \/ \E score \in LostDigits(gkey.score) : CutShort(score)
  PROVE  Scored'
<1> USE TypesOfScores DEF ScoreTypes, Readable
<1>1. CASE Start
  <2>1. /\ gkey'.score = 0 /\ best' = best /\ seen' = seen
        /\ file'.state = "none" /\ pc' \notin {"report", "endloop"}
    BY <1>1 DEF Start, Launch, NoFile
  <2> QED BY <2>1, SMT DEF Scored, BestIsReported
<1>2. CASE Resume
  <2>1. /\ gkey' = file.gkey /\ best' = best /\ seen' = seen
        /\ file' = file /\ Readable /\ pc' \notin {"report", "endloop"}
    BY <1>2, Zenon DEF Resume, Launch
  <2> QED BY <2>1 DEF Scored, BestIsReported
<1>3. CASE SkipEndloop
  <2>1. /\ gkey' = gkey /\ best' = best /\ seen' = seen /\ file' = file
        /\ bestscore' = 0 /\ pc = "try" /\ pc' = "endloop"
    BY <1>3 DEF SkipEndloop, history
  <2> QED BY <2>1, SMT DEF Scored, BestIsReported, Running
<1>4. ASSUME NEW score \in Scores, Evaluate(score) PROVE Scored'
  <2>1. /\ best' = best /\ seen' = seen /\ file' = file /\ bestscore' = score
        /\ pc = "try"
    BY <1>4 DEF Evaluate, history
  <2>2. score \in Nat
    BY HillclimbAssumption
  <2>3. CASE score > gkey.score
    <3>1. pc' = "report" /\ gkey'.score = score
      BY <1>4, <2>3 DEF Evaluate
    <3> QED BY <2>1, <2>2, <3>1, SMT DEF Scored, BestIsReported
  <2>4. CASE ~ (score > gkey.score)
    <3>1. pc' = "endloop" /\ gkey' = gkey
      BY <1>4, <2>4, Zenon DEF Evaluate
    <3> QED BY <2>1, <2>2, <2>4, <3>1, SMT DEF Scored, BestIsReported, Running
  <2> QED BY <2>3, <2>4
<1>5. CASE on_new_best
  <2>1. /\ gkey' = gkey /\ bestscore' = bestscore /\ seen' = seen /\ file' = file
        /\ pc = "report" /\ pc' = "endloop"
        /\ best' = IF gkey.score > best THEN gkey.score ELSE best
    BY <1>5 DEF on_new_best, process
  <2> QED BY <2>1, SMT DEF Scored, BestIsReported
<1>6. CASE NextOrRestart
  <2>1. /\ gkey' = gkey /\ best' = best /\ file' = file
        /\ pc = "endloop" /\ pc' \in {"restart", "check"}
        /\ seen' = IF bestscore > seen THEN bestscore ELSE seen
    BY <1>6 DEF NextOrRestart, EndOfRange
  <2> QED BY <2>1, SMT DEF Scored, BestIsReported, Running
<1>7. CASE print_state
  <2>1. /\ gkey' = gkey /\ best' = best /\ seen' = seen
        /\ file'.gkey.score = gkey.score
        /\ pc \notin {"report", "down"} /\ pc' \in {"try", "down"}
    BY <1>7, SMT DEF print_state, AfterWrite, Saved, process, history, Writing
  <2> QED BY <2>1, SMT DEF Scored, BestIsReported, Running
<1>8. ASSUME NEW score \in LostDigits(gkey.score), CutShort(score) PROVE Scored'
  <2>1. /\ gkey' = gkey /\ best' = best /\ seen' = seen
        /\ file'.gkey.score = score
        /\ pc \notin {"report", "down"} /\ pc' = "down"
    BY <1>8, SMT DEF CutShort, Saved, process, history, Writing
  <2>2. score < gkey.score /\ score \in Nat
    BY LessDigits
  <2> QED BY <2>1, <2>2, SMT DEF Scored, BestIsReported, Running
<1> QED BY <1>1, <1>2, <1>3, <1>4, <1>5, <1>6, <1>7, <1>8

\* The steps on which none does.
LEMMA ScoredRests ==
  ASSUME TypeOK, Scored,
         \/ check_shutdown \/ Restart \/ SaveFinal \/ ResumeRefused \/ Environment
         \/ UNCHANGED vars
  PROVE  Scored'
<1>1. /\ gkey' = gkey /\ best' = best /\ seen' = seen /\ bestscore' = bestscore
      /\ file' = file \/ file' = [file EXCEPT !.state = "torn"]
      /\ \/ pc' = pc
         \/ pc' = "down"
         \/ pc \notin {"report", "down"} /\ pc' \notin {"report", "endloop"}
  <2>1. CASE check_shutdown
    BY <2>1, SMT DEF check_shutdown, MustStop, Truncate, process, history
  <2>2. CASE Restart
    BY <2>2, Zenon DEF Restart, NextPass, MorePasses, lo, history
  <2>3. CASE SaveFinal
    BY <2>3, SMT DEF SaveFinal, Truncate, process, history
  <2>4. CASE ResumeRefused
    BY <2>4, SMT DEF ResumeRefused, process, history
  <2>5. CASE Tick
    BY <2>5, SMT DEF Tick, process, history
  <2>6. CASE Kill \/ Signal \/ OpenFails \/ WriteFails
    BY <2>6, Zenon DEF Kill, Signal, OpenFails, WriteFails, Ends, process, history
  <2>7. CASE UNCHANGED vars
    BY <2>7, SMT DEF vars, process, history
  <2> QED BY <2>1, <2>2, <2>3, <2>4, <2>5, <2>6, <2>7 DEF Environment
<1>2. Readable' => file' = file
  <2>1. file \in [state : {"none", "torn", "cut", "complete"}, ckey : Range,
                  pass : 0 .. MaxPass, firstpass : BOOLEAN, gkey : Checkpoint]
    BY DEF TypeOK
  <2> QED BY <1>1, <2>1, SMT DEF Readable
<1> QED BY <1>1, <1>2, SMT DEF Scored, BestIsReported, Running, Readable

\* No step loses a score that has been found.
LEMMA ScoredStep == TypeOK /\ Scored /\ [Next]_vars => Scored'
  BY ScoredMoves, ScoredRests, Zenon DEF Next, Step, User

\* None is ever lost.
LEMMA ScoredAlways == Spec => []Scored
<1> QED BY TypeCorrect, ScoredInit, ScoredStep, PTL DEF Spec

\* No result is ever lost, wherever a process ends.
THEOREM NoResultLost == Spec => []BestIsReported
<1>1. Scored => BestIsReported
  BY DEF Scored
<1> QED BY ScoredAlways, <1>1, PTL

\* The two strengthenings are what the model checker sees as Bookkeeping.
THEOREM BookkeepingAlways == Spec => []Bookkeeping
<1>1. Placed /\ Scored => Bookkeeping
  BY DEF Placed, Scored, Bookkeeping
<1> QED BY PlacedAlways, ScoredAlways, <1>1, PTL

-----------------------------------------------------------------------------
(* The search implements its abstract specification.                       *)

\* The search that has not been started is an exhaustive search that has not tried a key.
LEMMA SearchInit == Init => Search!Init
  BY DEF Init, Search!Init, Search!Passes, Passes

\* Every step of the program is a step of the search or invisible in it.
LEMMA SearchStep ==
  TypeOK /\ Placed /\ Scored /\ [Next]_vars => [Search!Next]_Search!vars
<1> SUFFICES ASSUME TypeOK, Placed, Scored, [Next]_vars
             PROVE  [Search!Next]_Search!vars
  OBVIOUS
<1>1. CASE NextOrRestart
  <2>1. /\ TriedUpTo(ckey, pass) /\ exit = "none" /\ exit' = "none"
        /\ tried' = [tried EXCEPT ![pass] = @ \cup {ckey}] /\ best' = best
    BY <1>1 DEF NextOrRestart, EndOfRange, Placed, Running
  <2>2. pass > 0 /\ pass \in Passes /\ ckey \in Range
    BY <1>1, HillclimbAssumption, SMT DEF NextOrRestart, EndOfRange, TypeOK, Passes
  <2>3. Search!TryKey(pass, ckey)
    BY <2>1, <2>2, Zenon DEF Search!TryKey, Search!Passes, Passes, TriedUpTo
  <2> QED BY <2>2, <2>3 DEF Search!Next, Search!Passes, Passes
<1>2. CASE Start
  <2>1. tried' = [p \in Passes |-> {}] /\ best' = best /\ exit' = "none"
    BY <1>2 DEF Start, Launch
  <2> QED BY <2>1 DEF Search!Next, Search!StartOver, Search!Passes, Passes
<1>3. CASE on_new_best
  <2>1. /\ tried' = tried /\ exit' = exit
        /\ best' = IF gkey.score > best THEN gkey.score ELSE best
    BY <1>3 DEF on_new_best
  <2>2. CASE gkey.score > best
    <3>1. best' \in Nat /\ best' > best
      BY <2>1, <2>2, TypesOfScores DEF ScoreTypes
    <3> QED BY <2>1, <3>1 DEF Search!Next, Search!Report
  <2>3. CASE ~ (gkey.score > best)
    BY <2>1, <2>3 DEF Search!vars
  <2> QED BY <2>2, <2>3
<1>4. CASE print_state
  <2>1. tried' = tried /\ best' = best /\ exit = "none"
    BY <1>4 DEF print_state, AfterWrite, history, Writing, Placed, Running
  <2>2. CASE exit' = "success"
    <3>1. \A p \in Passes : tried[p] = Range
      BY <1>4, <2>1, <2>2, PrintKeepsPlaced, Zenon DEF Placed, ExitMeansSaved
    <3> QED BY <2>1, <2>2, <3>1 DEF Search!Next, Search!Finish, Search!Passes, Passes
  <2>3. CASE exit' # "success"
    BY <2>1, <2>3 DEF Search!vars
  <2> QED BY <2>2, <2>3
<1>5. CASE Resume \/ ResumeRefused
  <2>1. tried' = tried /\ best' = best /\ exit' # "success"
    BY <1>5 DEF Resume, ResumeRefused, Launch, history
  <2> QED BY <2>1 DEF Search!Next, Search!Reopen
<1>6. CASE \/ check_shutdown \/ SkipEndloop \/ \E score \in Scores : Evaluate(score)
           \/ Restart \/ SaveFinal \/ Environment \/ UNCHANGED vars
           \/ \E score \in LostDigits(gkey.score) : CutShort(score)
  <2>1. tried' = tried /\ best' = best
        /\ (exit' = exit \/ exit' \in {"killed", "signal", "failure"})
    BY <1>6, Zenon DEF check_shutdown, MustStop, SkipEndloop, Evaluate, Restart, SaveFinal,
       Environment, Tick, Kill, Signal, OpenFails, WriteFails, Ends, CutShort, vars, history
  <2>2. CASE exit' = exit
    BY <2>1, <2>2 DEF Search!vars
  <2>3. CASE exit' \in {"killed", "signal", "failure"}
    BY <2>1, <2>3 DEF Search!Next, Search!Reopen
  <2> QED BY <2>1, <2>2, <2>3
<1> QED BY <1>1, <1>2, <1>3, <1>4, <1>5, <1>6 DEF Next, Step, User

\* A search over any range, however often it is interrupted, tries the keys
\* of every pass in order, never reports a worse result than before, and is
\* finished only when no key of any pass is left.
THEOREM SearchIsExhaustive == Spec => IsExhaustiveSearch
  BY PlacedAlways, ScoredAlways, SearchInit, SearchStep, PTL
     DEF Spec, IsExhaustiveSearch, Search!Spec

-----------------------------------------------------------------------------
(* From one process to the next and from one resume file to the next: the  *)
(* order of the plugs, that the position only advances, that nothing is    *)
(* tried twice, and that a request to stop is heeded at once.              *)

-----------------------------------------------------------------------------
(* The steps between two positions.                                        *)

Quiet ==
  /\ ckey' = ckey /\ pass' = pass /\ firstpass' = firstpass /\ order' = order
  /\ tried' = tried
  /\ gkey'.score >= gkey.score
  /\ file' = file \/ file' = [file EXCEPT !.state = "torn"]
  /\ dirty' = dirty \/ dirty' = TRUE
  /\ \/ pc' = pc
     \/ pc' = "down" /\ dirty' = TRUE
     \/ pc \notin {"down", "restart"} /\ pc' \notin {"down", "restart"}
  /\ file' # file => pc # "down" /\ pc' # "down"

\* Shutdown checks, trials, reports and failures leave position and order alone.
LEMMA OtherStepsQuiet ==
  ASSUME TypeOK,
         \/ check_shutdown \/ SkipEndloop \/ \E score \in Scores : Evaluate(score)
         \/ on_new_best \/ SaveFinal \/ ResumeRefused \/ Environment
         \/ UNCHANGED vars
  PROVE  Quiet
<1>0. gkey.score \in Nat
  BY TypesOfScores DEF ScoreTypes
<1>1. CASE check_shutdown
  BY <1>0, <1>1, SMT DEF check_shutdown, MustStop, Truncate, Quiet, process, history
<1>2. CASE SkipEndloop
  BY <1>0, <1>2, SMT DEF SkipEndloop, Quiet, history
<1>3. CASE \E score \in Scores : Evaluate(score)
  <2>1. PICK score \in Scores : Evaluate(score)
    BY <1>3
  <2>2. score \in Nat
    BY HillclimbAssumption
  <2>3. gkey'.score >= gkey.score
    <3>1. CASE score > gkey.score
      <4>1. gkey'.score = score
        BY <2>1, <3>1 DEF Evaluate
      <4> QED BY <1>0, <2>2, <3>1, <4>1, SMT
    <3>2. CASE ~ (score > gkey.score)
      <4>1. gkey' = gkey
        BY <2>1, <3>2 DEF Evaluate
      <4> QED BY <1>0, <4>1, SMT
    <3> QED BY <3>1, <3>2
  <2>4. pc = "try" /\ pc' \in {"report", "endloop"}
    BY <2>1, Zenon DEF Evaluate
  <2>5. /\ ckey' = ckey /\ pass' = pass /\ firstpass' = firstpass /\ order' = order
        /\ tried' = tried /\ file' = file /\ dirty' = dirty
    BY <2>1 DEF Evaluate, history
  <2> QED BY <2>3, <2>4, <2>5, SMT DEF Quiet
<1>4. CASE on_new_best
  BY <1>0, <1>4, SMT DEF on_new_best, Quiet, process
<1>5. CASE SaveFinal
  BY <1>0, <1>5, SMT DEF SaveFinal, Truncate, Quiet, process, history
<1>6. CASE ResumeRefused
  BY <1>0, <1>6, SMT DEF ResumeRefused, Quiet, process, history
<1>7. CASE Tick
  BY <1>0, <1>7, SMT DEF Tick, Quiet, process, history
<1>8. CASE Kill \/ Signal \/ OpenFails \/ WriteFails
  <2>1. /\ ckey' = ckey /\ pass' = pass /\ firstpass' = firstpass /\ order' = order
        /\ tried' = tried /\ gkey' = gkey /\ file' = file
    BY <1>8 DEF Kill, Signal, OpenFails, WriteFails, Ends, process, history
  <2>2. \/ pc' = pc /\ dirty' = dirty
        \/ pc' = "down" /\ dirty' = TRUE
    BY <1>8, Zenon DEF Kill, Signal, OpenFails, WriteFails, Ends
  <2> QED BY <1>0, <2>1, <2>2, SMT DEF Quiet
<1>9. CASE UNCHANGED vars
  BY <1>0, <1>9, SMT DEF vars, Quiet, process, history
<1> QED BY <1>1, <1>2, <1>3, <1>4, <1>5, <1>6, <1>7, <1>8, <1>9 DEF Environment

\* A file that is readable after such a step is the one before it.
LEMMA QuietReadable == TypeOK /\ Quiet /\ Readable' => file' = file
<1> SUFFICES ASSUME TypeOK, Quiet, Readable' PROVE file' = file
  OBVIOUS
<1>1. file \in [state : {"none", "torn", "cut", "complete"}, ckey : Range,
                pass : 0 .. MaxPass, firstpass : BOOLEAN, gkey : Checkpoint]
  BY DEF TypeOK
<1> QED BY <1>1, SMT DEF Quiet, Readable

\* What a written file holds.
LEMMA Written ==
  ASSUME print_state \/ \E score \in LostDigits(gkey.score) : CutShort(score)
  PROVE  /\ file'.ckey = ckey /\ file'.pass = pass /\ file'.firstpass = firstpass
         /\ Writing /\ pc' \in {"try", "down"}
         /\ ckey' = ckey /\ pass' = pass /\ firstpass' = firstpass /\ order' = order
         /\ gkey' = gkey /\ tried' = tried
<1>1. CASE print_state
  BY <1>1, SMT DEF print_state, AfterWrite, Saved, Writing, process, history
<1>2. ASSUME NEW score \in LostDigits(gkey.score), CutShort(score)
      PROVE  /\ file'.ckey = ckey /\ file'.pass = pass /\ file'.firstpass = firstpass
             /\ Writing /\ pc' \in {"try", "down"}
             /\ ckey' = ckey /\ pass' = pass /\ firstpass' = firstpass /\ order' = order
             /\ gkey' = gkey /\ tried' = tried
  BY <1>2, SMT DEF CutShort, Saved, process, history
<1> QED BY <1>1, <1>2

-----------------------------------------------------------------------------
(* The order of the plugs.  Across processes it is as good as the file,    *)
(* which must tell the first pass from the others.                         *)

Ordered ==
  /\ FirstPassByFrequency
  /\ Readable => file.firstpass = (file.pass = MaxPass)

\* There is no file, and no process has an order, before the first start.
LEMMA OrderedInit == Init => Ordered
  BY SMT DEF Init, Ordered, FirstPassByFrequency, NoFile, Running, Readable

\* A save, a resume and the turn of a pass keep pass and order together.
LEMMA OrderedStep == TypeOK /\ Ordered /\ [Next]_vars => Ordered'
<1> SUFFICES ASSUME TypeOK, Ordered, [Next]_vars PROVE Ordered'
  OBVIOUS
<1>1. CASE NextOrRestart
  BY <1>1, SMT DEF NextOrRestart, Ordered, FirstPassByFrequency, Running, Readable
<1>2. CASE Restart
  <2>1. pass \in 1 .. MaxPass
    BY <1>2, HillclimbAssumption, SMT DEF Restart, TypeOK
  <2>2. /\ pass' = pass - 1 /\ firstpass' = FALSE /\ order' = "random" /\ file' = file
    BY <1>2 DEF Restart, NextPass
  <2>3. pass' # MaxPass
    BY <2>1, <2>2, HillclimbAssumption, SMT
  <2> QED BY <2>2, <2>3, Zenon DEF Ordered, FirstPassByFrequency, Readable
<1>3. CASE Start
  <2>1. /\ file'.state = "none" /\ pass' = MaxPass /\ firstpass' = TRUE
        /\ order' = "frequency"
    BY <1>3 DEF Start, Launch, NoFile
  <2>2. ~ Readable'
    BY <2>1, SMT DEF Readable
  <2>3. firstpass' = (pass' = MaxPass)
    BY <2>1, Zenon
  <2> QED BY <2>1, <2>2, <2>3, Zenon DEF Ordered, FirstPassByFrequency
<1>4. CASE Resume
  <2>1. /\ file' = file /\ Readable /\ pass' = file.pass /\ firstpass' = file.firstpass
        /\ order' = IF file.firstpass THEN "frequency" ELSE "random"
    BY <1>4 DEF Resume, Launch
  <2> QED BY <2>1, Zenon DEF Ordered, FirstPassByFrequency, Readable
<1>5. CASE print_state \/ \E score \in LostDigits(gkey.score) : CutShort(score)
  BY <1>5, Written, SMT DEF Ordered, FirstPassByFrequency, Running, Readable, Writing
<1>6. CASE Quiet
  BY <1>6, QuietReadable, SMT DEF Quiet, Ordered, FirstPassByFrequency, Running, Readable
<1> QED BY <1>1, <1>2, <1>3, <1>4, <1>5, <1>6, OtherStepsQuiet DEF Next, Step, User

\* Whatever the number of passes and of resumptions, the first pass and no
\* other tests the plugs in the order of the letter frequencies.
THEOREM OrderSurvivesResume == Spec => []FirstPassByFrequency
<1>1. Spec => []Ordered
  BY TypeCorrect, OrderedInit, OrderedStep, PTL DEF Spec
<1>2. Ordered => FirstPassByFrequency
  BY DEF Ordered
<1> QED BY <1>1, <1>2, PTL

-----------------------------------------------------------------------------
(* The position only advances.  What a torn file held before bounds the    *)
(* position in memory, however many files were torn since.                 *)

NotBehindFile ==
  /\ \/ pass < file.pass
     \/ pass = file.pass /\ Rank[ckey] >= Rank[file.ckey]
  /\ gkey.score >= file.gkey.score

Advancing == Running => NotBehindFile

\* No process runs before the first start.
LEMMA AdvancingInit == Init => Advancing
  BY DEF Init, Advancing, Running

\* Ranks and passes can be compared.
LEMMA RanksAreNumbers ==
  TypeOK => /\ Rank[ckey] \in Nat /\ Rank[file.ckey] \in Nat /\ Rank[From] \in Nat
            /\ pass \in Nat /\ file.pass \in Nat
<1> SUFFICES ASSUME TypeOK
             PROVE  /\ Rank[ckey] \in Nat /\ Rank[file.ckey] \in Nat /\ Rank[From] \in Nat
                    /\ pass \in Nat /\ file.pass \in Nat
  OBVIOUS
<1>1. /\ ckey \in Key /\ file.ckey \in Key /\ From \in Key
      /\ pass \in 0 .. MaxPass /\ file.pass \in 0 .. MaxPass
  BY HillclimbAssumption DEF TypeOK, Range
<1> QED BY <1>1, HillclimbAssumption, SMT

\* No step takes a running process behind the file.
LEMMA AdvancingStep == TypeOK /\ Advancing /\ [Next]_vars => Advancing'
<1> SUFFICES ASSUME TypeOK, Advancing, [Next]_vars PROVE Advancing'
  OBVIOUS
<1> USE TypesOfScores, RanksAreNumbers DEF ScoreTypes
<1>1. CASE NextOrRestart
  <2>1. /\ Running /\ pass' = pass /\ file' = file /\ gkey' = gkey
        /\ ckey' = ckey \/ (ckey # To /\ ckey' = NextKey[ckey])
    BY <1>1, SMT DEF NextOrRestart, EndOfRange, Running
  <2>2. ckey \in Key /\ Rank[ckey] <= Rank[To] /\ Rank[To] \in Nat /\ To \in Key
    BY HillclimbAssumption DEF TypeOK, Range
  <2>3. Rank[ckey'] \in Nat /\ Rank[ckey'] >= Rank[ckey]
    <3>1. CASE ckey' = ckey
      BY <3>1, SMT
    <3>2. CASE ckey # To /\ ckey' = NextKey[ckey]
      <4>1. Rank[ckey] < Rank[To]
        BY <2>2, <3>2, HillclimbAssumption, SMT
      <4>2. Rank[ckey'] = Rank[ckey] + 1
        BY <2>2, <3>2, <4>1, HillclimbAssumption
      <4> QED BY <4>2, SMT
    <3> QED BY <2>1, <3>1, <3>2
  <2> QED BY <2>1, <2>3, SMT DEF Advancing, NotBehindFile
<1>2. CASE Restart
  <2>1. Running /\ pass' = pass - 1 /\ file' = file /\ gkey' = gkey
    BY <1>2 DEF Restart, NextPass, Running
  <2> QED BY <2>1, SMT DEF Advancing, NotBehindFile
<1>3. CASE Start
  <2>1. /\ file' = NoFile /\ ckey' = From /\ pass' = MaxPass
        /\ gkey' = [key |-> From, score |-> 0]
    BY <1>3 DEF Start, Launch
  <2> QED BY <2>1, SMT DEF Advancing, NotBehindFile, NoFile
<1>4. CASE Resume
  <2>1. file' = file /\ ckey' = file.ckey /\ pass' = file.pass /\ gkey' = file.gkey
    BY <1>4 DEF Resume, Launch
  <2> QED BY <2>1, SMT DEF Advancing, NotBehindFile
<1>5. CASE print_state
  <2>1. file'.ckey = ckey /\ file'.pass = pass /\ file'.gkey.score = gkey.score
        /\ ckey' = ckey /\ pass' = pass /\ gkey' = gkey
    BY <1>5 DEF print_state, Saved, process
  <2> QED BY <2>1, SMT DEF Advancing, NotBehindFile
<1>6. ASSUME NEW score \in LostDigits(gkey.score), CutShort(score) PROVE Advancing'
  BY <1>6 DEF CutShort, Advancing, Running
<1>7. CASE Quiet
  <2>1. /\ ckey' = ckey /\ pass' = pass /\ gkey'.score >= gkey.score
        /\ file'.ckey = file.ckey /\ file'.pass = file.pass /\ file'.gkey = file.gkey
    <3>1. file \in [state : {"none", "torn", "cut", "complete"}, ckey : Range,
                    pass : 0 .. MaxPass, firstpass : BOOLEAN, gkey : Checkpoint]
      BY DEF TypeOK
    <3> QED BY <1>7, <3>1, SMT DEF Quiet
  <2>2. gkey'.score \in Nat
    BY TypeStep, TypesOfScores DEF TypeOK, Checkpoint
  <2>3. Running' => Running
    BY <1>7, SMT DEF Quiet, Running
  <2> QED BY <2>1, <2>2, <2>3, SMT DEF Advancing, NotBehindFile
<1> QED BY <1>1, <1>2, <1>3, <1>4, <1>5, <1>6, <1>7, OtherStepsQuiet DEF Next, Step, User

\* What is written is at or behind the position of the file before.
LEMMA AdvancingFile ==
  TypeOK /\ Advancing /\ [Next]_vars =>
    (file.state = "torn" /\ Readable' =>
       /\ \/ file'.pass < file.pass
          \/ file'.pass = file.pass /\ Rank[file'.ckey] >= Rank[file.ckey]
       /\ file'.state = "complete" => file'.gkey.score >= file.gkey.score)
<1> SUFFICES ASSUME TypeOK, Advancing, [Next]_vars, file.state = "torn", Readable'
             PROVE  /\ \/ file'.pass < file.pass
                       \/ file'.pass = file.pass /\ Rank[file'.ckey] >= Rank[file.ckey]
                    /\ file'.state = "complete" => file'.gkey.score >= file.gkey.score
  OBVIOUS
<1>1. file' # file
  BY SMT DEF Readable
<1>2. CASE print_state
  <2>1. file'.ckey = ckey /\ file'.pass = pass /\ file'.gkey.score = gkey.score /\ Running
    BY <1>2, SMT DEF print_state, Saved, Writing, Running
  <2> QED BY <2>1 DEF Advancing, NotBehindFile
<1>3. ASSUME NEW score \in LostDigits(gkey.score), CutShort(score)
      PROVE  /\ file'.state = "cut"
             /\ \/ file'.pass < file.pass
                \/ file'.pass = file.pass /\ Rank[file'.ckey] >= Rank[file.ckey]
  <2>1. file'.ckey = ckey /\ file'.pass = pass /\ file'.state = "cut" /\ Running
    BY <1>3, SMT DEF CutShort, Saved, Writing, Running
  <2> QED BY <2>1 DEF Advancing, NotBehindFile
<1>4. ~ Start
  <2> SUFFICES ASSUME Start PROVE FALSE
    OBVIOUS
  <2>1. file'.state = "none"
    BY DEF Start, NoFile
  <2> QED BY <2>1, SMT DEF Readable
<1>5. ~ (Resume \/ NextOrRestart \/ Restart)
  BY <1>1 DEF Resume, NextOrRestart, Restart
<1>6. ~ Quiet
  BY <1>1, QuietReadable
<1> QED BY <1>2, <1>3, <1>4, <1>5, <1>6, OtherStepsQuiet, SMT DEF Next, Step, User

\* From one resume file to the next the position never goes back, nor does
\* the score of a file that is whole, over any number of torn files.
THEOREM PositionAdvances == Spec => FileOnlyAdvances
<1>1. Spec => []Advancing
  BY TypeCorrect, AdvancingInit, AdvancingStep, PTL DEF Spec
<1>2. TypeOK /\ Advancing /\ [Next]_vars =>
        [file.state = "torn" /\ Readable' =>
           /\ \/ file'.pass < file.pass
              \/ file'.pass = file.pass /\ Rank[file'.ckey] >= Rank[file.ckey]
           /\ file'.state = "complete" => file'.gkey.score >= file.gkey.score]_vars
  BY AdvancingFile
<1> QED BY <1>1, <1>2, TypeCorrect, PTL DEF Spec, FileOnlyAdvances

-----------------------------------------------------------------------------
(* Nothing is done twice.  As long as every process has saved what it was  *)
(* about to do, nothing at or behind the position, in memory or in the     *)
(* file that the next process resumes from, has been tried.                *)

UntriedFrom(k, p) ==
  /\ \A q \in Passes : q < p => tried[q] = {}
  /\ \A q \in Passes : q = p => \A j \in tried[q] : Rank[j] < Rank[k]

Fresh ==
  ~ dirty => /\ pc \notin {"down", "restart"} => UntriedFrom(ckey, pass)
             /\ pc = "restart" => \A q \in Passes : q < pass => tried[q] = {}
             /\ pc = "down" /\ Readable => UntriedFrom(file.ckey, file.pass)

\* Nothing is tried before the first start.
LEMMA FreshInit == Init => Fresh
  BY SMT DEF Init, Fresh, NoFile, Readable

\* What is ahead of the position, in memory or in the file, stays untried.
LEMMA FreshStep == TypeOK /\ Fresh /\ [Next]_vars => Fresh'
<1> SUFFICES ASSUME TypeOK, Fresh, [Next]_vars, ~ dirty' PROVE Fresh'
  BY DEF Fresh
<1>0. tried \in [Passes -> SUBSET Range] /\ ckey \in Range /\ Range \subseteq Key
  BY DEF TypeOK, Range
<1>1. CASE NextOrRestart
  <2>1. /\ ~ dirty /\ pc = "endloop" /\ pass' = pass
        /\ tried' = [tried EXCEPT ![pass] = @ \cup {ckey}]
        /\ \/ pc' = "restart"
           \/ pc' = "check" /\ ckey # To /\ ckey' = NextKey[ckey]
    BY <1>1, Zenon DEF NextOrRestart, EndOfRange, history
  <2>2. UntriedFrom(ckey, pass)
    BY <2>1, SMT DEF Fresh
  <2>3. pass \in Nat /\ \A q \in Passes : q \in Nat
    BY RanksAreNumbers, SMT DEF Passes
  <2>4. \A q \in Passes : q < pass => tried'[q] = {}
    BY <1>0, <2>1, <2>2, <2>3, SMT DEF UntriedFrom
  <2>5. ASSUME pc' = "check", NEW q \in Passes, q = pass, NEW j \in tried'[q]
        PROVE  Rank[j] < Rank[ckey']
    <3>1. j \in tried[q] \/ j = ckey
      BY <1>0, <2>1, <2>5
    <3>2. ckey \in Key /\ j \in Key /\ Rank[j] \in Nat /\ Rank[ckey] \in Nat
      BY <1>0, <3>1, HillclimbAssumption
    <3>3. Rank[ckey'] = Rank[ckey] + 1
      <4>1. Rank[ckey] \in Nat /\ Rank[To] \in Nat /\ Rank[ckey] <= Rank[To]
            /\ (Rank[ckey] = Rank[To] => ckey = To)
        BY <1>0, HillclimbAssumption DEF Range
      <4>2. ckey # To /\ ckey' = NextKey[ckey]
        BY <2>1, <2>5
      <4>3. Rank[ckey] < Rank[To]
        BY <4>1, <4>2, SMT
      <4> QED BY <3>2, <4>2, <4>3, HillclimbAssumption
    <3>4. CASE j \in tried[q]
      <4>1. Rank[j] < Rank[ckey]
        BY <2>2, <2>5, <3>4 DEF UntriedFrom
      <4> QED BY <3>2, <3>3, <4>1, SMT
    <3>5. CASE j = ckey
      BY <3>2, <3>3, <3>5, SMT
    <3> QED BY <3>1, <3>4, <3>5
  <2> QED BY <2>1, <2>4, <2>5, SMT DEF Fresh, UntriedFrom
<1>2. CASE Restart
  <2>1. /\ ~ dirty /\ pc = "restart" /\ pass' = pass - 1 /\ tried' = tried
        /\ pc' \in {"check", "finish"}
    BY <1>2, SMT DEF Restart, NextPass, history
  <2>2. pass \in Nat /\ \A q \in Passes : q \in Nat
    BY RanksAreNumbers, SMT DEF Passes
  <2>3. \A q \in Passes : q < pass => tried[q] = {}
    BY <2>1, SMT DEF Fresh
  <2>4. \A q \in Passes : q <= pass' => q < pass
    BY <2>1, <2>2, SMT
  <2>5. \A q \in Passes : q < pass' \/ q = pass' => tried'[q] = {}
    BY <2>1, <2>2, <2>3, <2>4, SMT
  <2>6. UntriedFrom(ckey, pass)'
    BY <2>5, Zenon DEF UntriedFrom
  <2> QED BY <2>1, <2>6, SMT DEF Fresh
<1>3. CASE Start
  <2>1. tried' = [p \in Passes |-> {}] /\ pc' \in {"check", "finish"}
    BY <1>3, SMT DEF Start, Launch
  <2>2. UntriedFrom(ckey, pass)'
    BY <2>1 DEF UntriedFrom
  <2> QED BY <2>1, <2>2, SMT DEF Fresh
<1>4. CASE Resume
  <2>1. /\ tried' = tried /\ file' = file /\ dirty' = dirty /\ Readable
        /\ pc = "down" /\ pc' \in {"check", "finish"}
        /\ ckey' = file.ckey /\ pass' = file.pass
    BY <1>4, SMT DEF Resume, Launch, Running
  <2>2. UntriedFrom(file.ckey, file.pass)
    BY <2>1 DEF Fresh
  <2>3. UntriedFrom(ckey, pass)'
    BY <2>1, <2>2, Zenon DEF UntriedFrom
  <2> QED BY <2>1, <2>3, SMT DEF Fresh
<1>5. CASE print_state \/ \E score \in LostDigits(gkey.score) : CutShort(score)
  <2>1. /\ file'.ckey = ckey /\ file'.pass = pass /\ ckey' = ckey /\ pass' = pass
        /\ tried' = tried /\ Writing /\ pc' \in {"try", "down"}
    BY <1>5, Written
  <2>2. ~ dirty
    BY <1>5 DEF print_state, CutShort
  <2>3. UntriedFrom(ckey, pass)
    BY <2>1, <2>2, SMT DEF Fresh, Writing
  <2>4. UntriedFrom(ckey, pass)' /\ UntriedFrom(file.ckey, file.pass)'
    BY <2>1, <2>3, Zenon DEF UntriedFrom
  <2> QED BY <2>1, <2>4, SMT DEF Fresh
<1>6. CASE Quiet
  <2>1. /\ ckey' = ckey /\ pass' = pass /\ tried' = tried /\ ~ dirty
        /\ \/ pc' = pc
           \/ pc \notin {"down", "restart"} /\ pc' \notin {"down", "restart"}
        /\ file' # file => pc' # "down"
    BY <1>6, SMT DEF Quiet
  <2>2. CASE pc = "down"
    <3>1. pc' = "down" /\ file' = file
      BY <2>1, <2>2
    <3> QED BY <2>1, <2>2, <3>1, SMT DEF Fresh, UntriedFrom, Readable
  <2>3. CASE pc = "restart"
    BY <2>1, <2>3, SMT DEF Fresh
  <2>4. CASE pc \notin {"down", "restart"}
    <3>1. UntriedFrom(ckey, pass)'
      BY <2>1, <2>4, Zenon DEF Fresh, UntriedFrom
    <3> QED BY <2>1, <2>4, <3>1, SMT DEF Fresh
  <2> QED BY <2>2, <2>3, <2>4, SMT
<1> QED BY <1>1, <1>2, <1>3, <1>4, <1>5, <1>6, OtherStepsQuiet DEF Next, Step, User

\* The key that is next has not been tried.
LEMMA FreshKey ==
  TypeOK /\ Fresh => (NextOrRestart /\ ~ dirty => ckey \notin tried[pass])
<1> SUFFICES ASSUME TypeOK, Fresh, NextOrRestart, ~ dirty, ckey \in tried[pass]
             PROVE  FALSE
  OBVIOUS
<1>1. pc = "endloop"
  BY DEF NextOrRestart
<1>2. UntriedFrom(ckey, pass)
  BY <1>1, SMT DEF Fresh
<1>3. pass \in Passes
  BY <1>1, HillclimbAssumption, SMT DEF TypeOK, Passes
<1>4. Rank[ckey] < Rank[ckey]
  BY <1>2, <1>3, Zenon DEF UntriedFrom
<1> QED BY <1>4, RanksAreNumbers, SMT

\* As long as processes end by themselves or on request, no key is tried
\* twice in a pass, by whichever processes.
THEOREM NothingTriedTwice == Spec => NoRework
<1>1. Spec => []Fresh
  BY TypeCorrect, FreshInit, FreshStep, PTL DEF Spec
<1>2. TypeOK /\ Fresh => [NextOrRestart /\ ~ dirty => ckey \notin tried[pass]]_vars
  BY FreshKey
<1> QED BY <1>1, <1>2, TypeCorrect, PTL DEF NoRework

-----------------------------------------------------------------------------
(* Stopping.  A key that was tried after the request is followed by the    *)
(* check that heeds it, and nothing is tried on the way there.             *)

Heeded ==
  /\ overrun \in {0, 1}
  /\ overrun = 1 => /\ doShutdown
                    /\ pc \in {"check", "restart", "finish", "write-final",
                               "write-shutdown", "down"}

\* There is no request before the first start.
LEMMA HeededInit == Init => Heeded
  BY SMT DEF Init, Heeded

\* A process that has tried a key since the request ends with it.
LEMMA HeededStep == Heeded /\ [Next]_vars => Heeded'
<1> SUFFICES ASSUME Heeded, [Next]_vars PROVE Heeded'
  OBVIOUS
<1>1. CASE check_shutdown
  BY <1>1, Zenon DEF check_shutdown, MustStop, Truncate, Heeded, process, history
<1>2. CASE print_state
  BY <1>2, SMT DEF print_state, AfterWrite, Writing, Heeded, process, history
<1>3. CASE SkipEndloop \/ \E score \in Scores : Evaluate(score)
  BY <1>3, SMT DEF SkipEndloop, Evaluate, Heeded, history
<1>4. CASE on_new_best
  BY <1>4, SMT DEF on_new_best, Heeded
<1>5. CASE NextOrRestart
  <2>1. overrun = 0
    BY <1>5, SMT DEF NextOrRestart, Heeded
  <2> QED BY <1>5, <2>1, SMT DEF NextOrRestart, EndOfRange, Heeded
<1>6. CASE Restart \/ SaveFinal
  BY <1>6, SMT DEF Restart, SaveFinal, Truncate, Heeded, history
<1>7. CASE Start \/ Resume
  BY <1>7, SMT DEF Start, Resume, Launch, Heeded
<1>8. CASE ResumeRefused \/ Tick \/ UNCHANGED vars
  BY <1>8, SMT DEF ResumeRefused, Tick, vars, Heeded, process, history
<1>9. CASE Kill \/ Signal \/ OpenFails \/ WriteFails
  BY <1>9, Zenon DEF Kill, Signal, OpenFails, WriteFails, Ends, Heeded, history
<1>10. CASE \E score \in LostDigits(gkey.score) : CutShort(score)
  BY <1>10, SMT DEF CutShort, Heeded, history
<1> QED BY <1>1, <1>2, <1>3, <1>4, <1>5, <1>6, <1>7, <1>8, <1>9, <1>10
        DEF Next, Step, User, Environment

\* A request to stop is heeded after the key being tried, at the latest,
\* also where that key ends a pass or the range.
THEOREM RequestHeeded == Spec => []PromptStop
<1>1. Spec => []Heeded
  BY HeededInit, HeededStep, PTL DEF Spec
<1>2. Heeded => PromptStop
  BY SMT DEF Heeded, PromptStop
<1> QED BY <1>1, <1>2, PTL
=============================================================================
