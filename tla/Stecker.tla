------------------------------- MODULE Stecker -------------------------------
(***************************************************************************)
(* The plugboard (libEnigma/src/stecker.c, include/stecker.h): a table of  *)
(* letters that the search changes by swapping two entries, the list of    *)
(* plugs drawn from it, and the orders in which letters are tested.        *)
(***************************************************************************)
EXTENDS Integers, FiniteSets, Sequences

CONSTANT N   \* size of the alphabet

ASSUME SteckerAssumption == N \in Nat \ {0}

Letters == 0 .. N - 1
Board   == [Letters -> Letters]

\* Fill0To25_echar: no plugs
Unplugged == [a \in Letters |-> a]

\* Swaps the entries of two letters.  This plugs two letters that are not
\* plugged, and unplugs two that are plugged to each other.
SwapStbrett(board, i, k) ==
  [a \in Letters |-> board[IF a = i THEN k ELSE IF a = k THEN i ELSE a]]

\* What a plugboard is: if a goes to b then b goes to a.
Involutions == {b \in Board : \A a \in Letters : b[b[a]] = a}

-----------------------------------------------------------------------------
nth(S, n) == CHOOSE a \in S : Cardinality({b \in S : b < a}) = n

\* The plugged letters in front, each followed by its partner, the others
\* behind, from the end.
get_stecker(board) ==
  LET lower == {a \in Letters : board[a] > a}
      alone == {a \in Letters : board[a] = a}
      count == 2 * Cardinality(lower)
  IN [sf    |-> [n \in Letters |->
                   IF n >= count THEN nth(alone, N - 1 - n)
                   ELSE IF n % 2 = 0 THEN nth(lower, n \div 2)
                        ELSE board[nth(lower, n \div 2)]],
      count |-> count]

\* What is printed of them: sf up to count
PlugList(plugs) == [n \in 1 .. plugs.count |-> plugs.sf[n - 1]]

\* set_stecker (src/input.c) takes an even number of letters, none twice ...
PlugsAccepted(list) ==
  /\ Len(list) % 2 = 0
  /\ \A m, n \in 1 .. Len(list) : m # n => list[m] # list[n]

\* ... and plugs each to the next.
set_stecker(list) ==
  LET after[n \in 0 .. Len(list) \div 2] ==
        IF n = 0 THEN Unplugged
        ELSE SwapStbrett(after[n - 1], list[2 * n - 1], list[2 * n])
  IN after[Len(list) \div 2]

\* The letters by their frequency in the ciphertext, of two equally frequent
\* ones the later first.
set_to_ct_freq(f) ==
  LET before(a, b) == f[a] > f[b] \/ (f[a] = f[b] /\ a > b)
  IN [n \in Letters |->
        CHOOSE a \in Letters : Cardinality({b \in Letters : before(b, a)}) = n]

\* From the last place to the second one, each is exchanged with a place
\* drawn from those up to and including itself.
Draws == {d \in [1 .. N - 1 -> Letters] : \A count \in 1 .. N - 1 : d[count] <= count}

rand_var(var, draw) ==
  LET after[count \in 1 .. N] ==
        IF count = N THEN var
        ELSE SwapStbrett(after[count + 1], count, draw[count])
  IN after[1]
=============================================================================
