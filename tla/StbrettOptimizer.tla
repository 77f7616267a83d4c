-------------------------- MODULE StbrettOptimizer ---------------------------
(***************************************************************************)
(* The search for the plugboard of one key: Krah's optimizer               *)
(* (stbrett/krah_optimizer.c) and VE3NEA's (stbrett/ve3nea_optimizer.c),   *)
(* one of which selectOptimizer chooses.  Both climb through the pairs of  *)
(* letters, in the order var gives, in one phase after another, each with  *)
(* a score of its own; what the scores say is left open.                   *)
(*                                                                         *)
(* The model names the boards that are scored, swap by swap.  In the loop  *)
(* of the pairs each is made of what the undoing of the one before has     *)
(* left, and so is, at last, the board that is taken or put back.          *)
(***************************************************************************)
EXTENDS Stecker, Sequences

CONSTANTS
  Scorings,          \* what the scores depend on: message and wheel setting
  Score(_, _, _),    \* Score(kind, scoring, board)
  Orders             \* testing orders the search may come with

ASSUME OptimizerAssumption ==
  /\ \A kind \in {"ic", "uni", "bi", "tri"}, s \in Scorings, b \in Involutions :
        Score(kind, s, b) \in Nat
  /\ Orders \subseteq Board
  /\ \A var \in Orders : \A a \in Letters : \E n \in Letters : var[n] = a

VARIABLES
  optimizer,   \* stbrettOptimzier
  scoring, var,
  phase,       \* the score that is climbed, or what follows the climbs
  p, q,        \* the places in var of the pair that is next
  board,       \* ckey->stbrett
  best,        \* best_score of the phase
  jbest,       \* jbestscore: what the last round of phases has reached
  plugs,       \* ckey->sf, ckey->count
  result       \* the score returned

pair == << p, q >>
inputs == << optimizer, scoring, var >>
vars == << inputs, phase, pair, board, best, jbest, plugs, result >>

NoPlugs == get_stecker(Unplugged)
value(kind, b) == Score(kind, scoring, b)

Init ==
  /\ optimizer \in {"Krah", "AV"}
  /\ scoring \in Scorings
  /\ var \in Orders
  /\ phase = "ic" /\ p = 0 /\ q = 1
  /\ board = Unplugged
  /\ best = Score("ic", scoring, board)
  /\ jbest = 0
  /\ plugs = NoPlugs
  /\ result = 0

-----------------------------------------------------------------------------
(* One pair of letters.                                                    *)

Climbing(by) ==
  optimizer = by /\ phase \in {"ic", "uni", "bi", "tri"} /\ p < N - 1

i == var[p]
k == var[q]

MutantNextPair ==              \* mutant: k starts at i
  IF q < N - 1 THEN p' = p /\ q' = q + 1
               ELSE p' = p + 1 /\ q' = p + 1

NextPair ==
  IF q < N - 1 THEN p' = p /\ q' = q + 1
               ELSE p' = p + 1 /\ q' = p + 2

NonePays(kind, trials) ==
  \A m \in 1 .. Len(trials) : value(kind, trials[m]) <= best

\* The n-th board is the first with the highest score.
Pays(kind, trials, n) ==
  /\ value(kind, trials[n]) > best
  /\ \A m \in 1 .. Len(trials) :
        /\ value(kind, trials[m]) <= value(kind, trials[n])
        /\ m < n => value(kind, trials[m]) < value(kind, trials[n])

\* If one of the trials is better than what there is, the best of them is taken
\* by making its swaps again on what the last undoing has left; or else what had
\* been pulled is put back on that.
Climb(trials, taken, restored) ==
  /\ \/ /\ NonePays(phase, trials)
        /\ board' = restored
        /\ UNCHANGED best
     \/ \E n \in 1 .. Len(trials) :
          /\ Pays(phase, trials, n)
          /\ board' = taken[n]
          /\ best' = value(phase, trials[n])
  /\ NextPair
  /\ UNCHANGED << inputs, phase, jbest, plugs, result >>

-----------------------------------------------------------------------------
(* The loop of krah_optimizer.c: two letters are plugged or unplugged, or  *)
(* a plug is moved, or two plugs are exchanged, one or both of the new     *)
(* plugs being set.                                                        *)

Plug ==
  /\ Climbing("Krah")
  /\ \/ board[i] = i /\ board[k] = k
     \/ board[i] = k /\ board[k] = i
  /\ LET plugged == SwapStbrett(board, i, k)
     IN Climb(<< plugged >>, << plugged >>, SwapStbrett(plugged, i, k))

\* A letter without a plug, a, takes the place of either end of a plug, c and d.
MovePlug(a, c, d) ==
  LET bare == SwapStbrett(board, c, d)
      ac   == SwapStbrett(bare, a, c)
      ad   == SwapStbrett(SwapStbrett(ac, a, c), a, d)
      left == SwapStbrett(ad, a, d)
  IN Climb(<< ac, ad >>, << SwapStbrett(left, a, c), SwapStbrett(left, a, d) >>,
           SwapStbrett(left, c, d))

\* k is plugged, i is not.
MovePlugOfK ==
  /\ Climbing("Krah")
  /\ board[i] = i /\ board[k] # k
  /\ MovePlug(i, k, board[k])

\* i is plugged, k is not.
MovePlugOfI ==
  /\ Climbing("Krah")
  /\ board[k] = k /\ board[i] # i
  /\ MovePlug(k, i, board[i])

\* Mutant: of two swaps only the one made first is undone.
MutantUndone(b, a, c, d, e) == SwapStbrett(b, d, e)

\* The swap of a and c is undone, which had been the last, and then that of d and e.
Undone(b, a, c, d, e) == SwapStbrett(SwapStbrett(b, a, c), d, e)

\* i is plugged to x and k to z.
Regroup ==
  /\ Climbing("Krah")
  /\ board[i] # i /\ board[k] # k /\ board[i] # k
  /\ LET x == board[i]
         z == board[k]
         bare == SwapStbrett(SwapStbrett(board, i, x), k, z)
         ik   == SwapStbrett(bare, i, k)
         ikxz == SwapStbrett(ik, x, z)
         iz   == SwapStbrett(Undone(ikxz, x, z, i, k), i, z)
         izxk == SwapStbrett(iz, x, k)
         left == Undone(izxk, x, k, i, z)
     IN Climb(<< ik, ikxz, iz, izxk >>,
              << SwapStbrett(left, i, k), SwapStbrett(SwapStbrett(left, i, k), x, z),
                 SwapStbrett(left, i, z), SwapStbrett(SwapStbrett(left, i, z), x, k) >>,
              SwapStbrett(SwapStbrett(left, i, x), k, z))

(* The loop of ve3nea_optimizer.c: the pair is unplugged if it is plugged; *)
(* otherwise it is plugged, and the plugs in its way are pulled.           *)

Plugged(b, a, c) ==
  LET freed == [l \in Letters |-> IF l \in {a, c, b[a], b[c]} THEN l ELSE b[l]]
  IN IF b[a] = c THEN [b EXCEPT ![a] = a, ![c] = c]
     ELSE [freed EXCEPT ![a] = c, ![c] = a]

TogglePlug ==
  /\ Climbing("AV")
  /\ Climb(<< Plugged(board, i, k) >>, << Plugged(board, i, k) >>, board)

-----------------------------------------------------------------------------
(* The end of a phase.                                                     *)

Climbed(kind) == phase = kind /\ p >= N - 1

MutantBegin(kind) ==           \* mutant: best_score is the last phase's
  /\ phase' = kind /\ p' = 0 /\ q' = 1
  /\ UNCHANGED << inputs, board, best >>

Begin(kind) ==
  /\ phase' = kind /\ p' = 0 /\ q' = 1
  /\ best' = value(kind, board)
  /\ UNCHANGED << inputs, board >>

MutantImproved(sum) == FALSE             \* mutants: one round only,
MutantNotWorse(sum) == sum >= jbest      \* while it gets no worse
Improved(sum)       == sum > jbest

\* int a = scoring->triscore( ckey, len ) + scoring->biscore( ckey, len );
Sum == value("tri", board) + value("bi", board)

KrahAfterIc ==
  /\ optimizer = "Krah" /\ Climbed("ic")
  /\ jbest' = Sum
  /\ Begin("bi")
  /\ UNCHANGED << plugs, result >>

KrahAfterBi ==
  /\ optimizer = "Krah" /\ Climbed("bi")
  /\ Begin("tri")
  /\ UNCHANGED << jbest, plugs, result >>

\* Another round while the sum of both scores gets better.
KrahAfterTri ==
  /\ optimizer = "Krah" /\ Climbed("tri")
  /\ IF Improved(Sum)
     THEN jbest' = Sum /\ Begin("bi") /\ UNCHANGED plugs
     ELSE /\ phase' = "reswap"
          /\ plugs' = get_stecker(board)
          /\ best' = value("tri", board)
          /\ UNCHANGED << inputs, pair, board, jbest >>
  /\ UNCHANGED result

\* Every letter without a plug in turn takes the place of either end of
\* every plug; the best of these boards is taken, if it is better.  (All are
\* made from the board: each swap is followed by the same one.)
ReswapTrials ==
  LET pairs  == plugs.count \div 2
      single == N - plugs.count
      trial(u, s, end) ==
        SwapStbrett(SwapStbrett(board, plugs.sf[u], plugs.sf[u + 1]),
                    plugs.sf[u + end], plugs.sf[s])
  IN [n \in 1 .. pairs * single * 2 |->
        trial(2 * ((n - 1) \div (2 * single)),
              plugs.count + (((n - 1) \div 2) % single),
              (n - 1) % 2)]

MutantReturn(score) == phase' = "done" /\ result' = jbest   \* mutant: the wrong score
Return(score) == phase' = "done" /\ result' = score

KrahReswap ==
  /\ optimizer = "Krah" /\ phase = "reswap"
  /\ \/ /\ NonePays("tri", ReswapTrials)
        /\ Return(best)
        /\ UNCHANGED << board, best, plugs >>
     \/ \E n \in 1 .. Len(ReswapTrials) :
          /\ Pays("tri", ReswapTrials, n)
          /\ board' = ReswapTrials[n]
          /\ best' = value("tri", board')
          /\ plugs' = get_stecker(board')
          /\ UNCHANGED << phase, result >>
  /\ UNCHANGED << inputs, pair, jbest >>

Ve3neaAfterIc ==
  /\ optimizer = "AV" /\ Climbed("ic")
  /\ Begin("uni")
  /\ UNCHANGED << jbest, plugs, result >>

Ve3neaAfterUni ==
  /\ optimizer = "AV" /\ Climbed("uni")
  /\ Begin("tri")
  /\ jbest' = best'
  /\ UNCHANGED << plugs, result >>

\* Another round until one brings nothing; best goes from round to round.
Ve3neaAfterTri ==
  /\ optimizer = "AV" /\ Climbed("tri")
  /\ IF Improved(best)
     THEN /\ jbest' = best
          /\ p' = 0 /\ q' = 1
          /\ UNCHANGED << phase, plugs, result >>
     ELSE /\ plugs' = get_stecker(board)
          /\ Return(jbest)
          /\ UNCHANGED << pair, jbest >>
  /\ UNCHANGED << inputs, board, best >>

Next ==
  \/ Plug \/ MovePlugOfK \/ MovePlugOfI \/ Regroup
  \/ KrahAfterIc \/ KrahAfterBi \/ KrahAfterTri \/ KrahReswap
  \/ TogglePlug
  \/ Ve3neaAfterIc \/ Ve3neaAfterUni \/ Ve3neaAfterTri

\* The optimizer is a function call: it runs on.
Spec == Init /\ [][Next]_vars /\ WF_vars(Next)

-----------------------------------------------------------------------------
(* Properties.                                                             *)

TypeOK ==
  /\ optimizer \in {"Krah", "AV"} /\ scoring \in Scorings
  /\ var \in [Letters -> Letters]
  /\ phase \in {"ic", "uni", "bi", "tri", "reswap", "done"}
  /\ p \in 0 .. N - 1 /\ q \in 1 .. N /\ p < q
  /\ board \in Board /\ best \in Nat /\ jbest \in Nat /\ result \in Nat
  /\ plugs.sf \in Board /\ plugs.count \in 0 .. N

\* Whatever the sequence of swaps, the board stays a plugboard: no letter is
\* ever plugged to two others.
StaysPlugboard == board \in Involutions

\* The score the optimizer carries along is the score of the board it holds:
\* a trial is never kept with the score of another, or undone with its score
\* kept.
BestIsScoreOfBoard ==
  /\ phase \in {"ic", "uni", "bi", "tri"} => best = value(phase, board)
  /\ phase = "reswap" => best = value("tri", board)

\* What is returned and reported to the user fits together: the score is the
\* trigram score of the board, and the list of plugs printed and saved is
\* the board's, each plug once.
ResultDescribesBoard ==
  phase = "done" =>
    /\ result = value("tri", board)
    /\ plugs.count % 2 = 0
    /\ \A n \in 0 .. plugs.count - 1 :
          board[plugs.sf[n]] = plugs.sf[IF n % 2 = 0 THEN n + 1 ELSE n - 1]
    /\ {plugs.sf[n] : n \in plugs.count .. N - 1} = {a \in Letters : board[a] = a}
    /\ Cardinality({plugs.sf[n] : n \in Letters}) = N

\* The search ends on a hill top.  For VE3NEA's optimizer no pair of letters
\* improves the score by being plugged or unplugged; for Krah's no plug does
\* by one of its ends being moved to a letter without a plug.
EndsOnHilltop ==
  phase = "done" =>
    IF optimizer = "AV"
    THEN \A a, c \in Letters : a # c => value("tri", Plugged(board, a, c)) <= result
    ELSE \A a, c \in Letters :
           board[a] # a /\ board[c] = c =>
             value("tri", SwapStbrett(SwapStbrett(board, a, board[a]), a, c)) <= result

\* The rounds come to an end, although one phase may undo what another has
\* climbed to.
Terminates == <>(phase = "done")
=============================================================================
