-------------------------- MODULE ExhaustiveSearch --------------------------
(***************************************************************************)
(* What a search promises its user, whatever happens to the processes that *)
(* carry it out: in every pass each key of the range is tried, one after   *)
(* the other in the order of the range; the best result reported never     *)
(* gets worse; and the search is only ever finished when no key is left in *)
(* any pass.                                                               *)
(***************************************************************************)
EXTENDS Integers

CONSTANTS
  Range,     \* the keys between the bounds of the search, bounds included
  Rank,      \* their places in the order of keys
  MaxPass    \* number of passes

VARIABLES
  tried,     \* tried[p]: the keys tried in pass p
  best,      \* best score reported
  finished

vars == << tried, best, finished >>

Passes == 1 .. MaxPass

Init ==
  /\ tried = [p \in Passes |-> {}]
  /\ best = 0
  /\ finished = FALSE

\* Passes count down.  A key may be tried again, none may be tried early.
TryKey(p, k) ==
  /\ tried' = [tried EXCEPT ![p] = @ \cup {k}]
  /\ \A q \in Passes : q > p => tried[q] = Range
  /\ \A j \in Range : Rank[j] < Rank[k] => j \in tried[p]
  /\ UNCHANGED << best, finished >>

Report ==
  /\ best' \in Nat
  /\ best' > best
  /\ UNCHANGED << tried, finished >>

Finish ==
  /\ \A p \in Passes : tried[p] = Range
  /\ finished' = TRUE
  /\ UNCHANGED << tried, best >>

\* A finished search can be asked for again; a search whose state is lost
\* is begun anew.
Reopen   == finished' = FALSE /\ UNCHANGED << tried, best >>
StartOver == tried' = [p \in Passes |-> {}] /\ finished' = FALSE /\ UNCHANGED best

Next ==
  \/ \E p \in Passes, k \in Range : TryKey(p, k)
  \/ Report
  \/ Finish
  \/ Reopen
  \/ StartOver

Spec == Init /\ [][Next]_vars
=============================================================================
