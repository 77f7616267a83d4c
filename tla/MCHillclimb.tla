---------------------------- MODULE MCHillclimb -----------------------------
(***************************************************************************)
(* A search over four keys of the M3, B:876:MM:ZZY and B:876:MM:ZZZ and    *)
(* then C:123:AA:AAA and C:123:AA:AAB, so that one step of the search      *)
(* carries through all four loops.  The last key is behind the range, for  *)
(* a search to run into.  That these keys follow one another is what the   *)
(* iterators of module KeyIterators say.                                   *)
(***************************************************************************)
EXTENDS Hillclimb, TLC

Iterators == INSTANCE KeyIterators

M3Key(ukw, wheels, ring, mesg) ==
  [model |-> "M3", ukw |-> ukw,
   slot |-> [g |-> 0, l |-> wheels[1], m |-> wheels[2], r |-> wheels[3]],
   ring |-> [m |-> ring, r |-> ring],
   mesg |-> [g |-> 0, l |-> mesg[1], m |-> mesg[2], r |-> mesg[3]]]

First  == M3Key(1, << 8, 7, 6 >>, 12, << 25, 25, 24 >>)
Second == M3Key(1, << 8, 7, 6 >>, 12, << 25, 25, 25 >>)
Third  == M3Key(2, << 1, 2, 3 >>, 0, << 0, 0, 0 >>)
Fourth == M3Key(2, << 1, 2, 3 >>, 0, << 0, 0, 1 >>)
Beyond == M3Key(2, << 1, 2, 3 >>, 0, << 0, 0, 2 >>)

MCKey == {First, Second, Third, Fourth, Beyond}
MCRank == First :> 0 @@ Second :> 1 @@ Third :> 2 @@ Fourth :> 3 @@ Beyond :> 4
MCNextKey == First :> Second @@ Second :> Third @@ Third :> Fourth
             @@ Fourth :> Beyond @@ Beyond :> NoKey

ASSUME KeysFollowOneAnother ==
  /\ \A k \in MCKey \ {Beyond} : /\ Iterators!HasSuccessor(k)
                                 /\ MCNextKey[k] = Iterators!SuccessorFrom(k)
  /\ \A j, k \in MCKey : Iterators!keycmp_less(j, k) <=> MCRank[j] < MCRank[k]

\* One key inside the range and the last one have an equivalent with a slow
\* wheel at rest.
MCEndloop == {Second, Fourth}
=============================================================================
