---------------------------- MODULE StbrettProofs ----------------------------
(***************************************************************************)
(* What holds of both optimizers for an alphabet of any size, any scores   *)
(* and any testing order.                                                  *)
(***************************************************************************)
EXTENDS StbrettOptimizer, SteckerProofs

-----------------------------------------------------------------------------
(* The inductive invariant.  Boards and scores only stay together because  *)
(* the list of plugs, which the last phase of Krah's optimizer works from, *)
(* is the board's, and because VE3NEA's optimizer returns what the round   *)
(* before has reached: nothing that round has reached is ever given up.    *)

Placed ==
  /\ p \in 0 .. N - 1 /\ q \in 1 .. N /\ p < q
  /\ p < N - 1 => q <= N - 1

Matched ==
  /\ BestIsScoreOfBoard
  /\ phase \in {"reswap", "done"} => plugs = get_stecker(board)
  /\ phase = "done" => result = value("tri", board)
  /\ optimizer = "AV" => phase \in {"ic", "uni", "tri", "done"}
  /\ optimizer = "AV" /\ phase = "tri" => jbest <= best

IInv ==
  /\ optimizer \in {"Krah", "AV"} /\ scoring \in Scorings /\ var \in Orders
  /\ phase \in {"ic", "uni", "bi", "tri", "reswap", "done"}
  /\ Placed
  /\ board \in Involutions
  /\ best \in Nat /\ jbest \in Nat /\ result \in Nat
  /\ plugs.sf \in Board /\ plugs.count \in 0 .. N
  /\ Matched

\* A score is a number.
LEMMA ScoresAreNumbers ==
  ASSUME NEW kind \in {"ic", "uni", "bi", "tri"}, NEW s \in Scorings,
         NEW b \in Involutions
  PROVE  Score(kind, s, b) \in Nat
  BY OptimizerAssumption

\* A testing order is a permutation: different places hold different letters.
LEMMA OrderIsPermutation ==
  ASSUME NEW v \in Orders
  PROVE  v \in Board /\ \A m, n \in Letters : m # n => v[m] # v[n]
<1>1. v \in [Letters -> Letters] /\ \A a \in Letters : \E n \in Letters : v[n] = a
  BY OptimizerAssumption DEF Board
<1>2. v \in Surjection(Letters, Letters)
  BY <1>1, Fun_IsSurj
<1>3. v \in Injection(Letters, Letters)
  BY <1>2, LettersFinite, FS_SurjSameCardinalityImpliesInj
<1> QED BY <1>1, <1>3, Fun_InjectionProperties DEF Board

\* The board without plugs is a plugboard.
LEMMA UnpluggedIsInvolution == Unplugged \in Involutions
  BY DEF Unplugged, Involutions, Board

\* Both optimizers begin with it and its score.
LEMMA IInvInit == Init => IInv
<1> SUFFICES ASSUME Init PROVE IInv
  OBVIOUS
<1>1. /\ optimizer \in {"Krah", "AV"} /\ scoring \in Scorings /\ var \in Orders
      /\ phase = "ic" /\ p = 0 /\ q = 1 /\ board = Unplugged
      /\ best = Score("ic", scoring, board) /\ jbest = 0
      /\ plugs = get_stecker(Unplugged) /\ result = 0
  BY DEF Init, NoPlugs
<1>2. Placed
  BY <1>1, SteckerAssumption, SMT DEF Placed
<1>3. board \in Involutions /\ best \in Nat
  BY <1>1, UnpluggedIsInvolution, ScoresAreNumbers
<1>4. plugs.sf \in Board /\ plugs.count \in 0 .. N
  BY <1>1, UnpluggedIsInvolution, ListDescribesBoard
<1>5. Matched
  BY <1>1 DEF Matched, BestIsScoreOfBoard, value
<1> QED BY <1>1, <1>2, <1>3, <1>4, <1>5 DEF IInv

-----------------------------------------------------------------------------
(* One pair of letters.                                                    *)

\* The pair is two different letters.
LEMMA PairOfLetters ==
  ASSUME IInv, p < N - 1
  PROVE  i \in Letters /\ k \in Letters /\ i # k
<1>1. p \in Letters /\ q \in Letters /\ p # q
  BY SteckerAssumption, SMT DEF IInv, Placed, Letters
<1>2. var \in Board /\ var[p] # var[q]
  BY <1>1, OrderIsPermutation DEF IInv
<1> QED BY <1>1, <1>2 DEF i, k, Board

\* Every climb either leaves board and score alone or takes a plugboard with
\* the higher score it has.
Climbs ==
  /\ p < N - 1 /\ phase \in {"ic", "uni", "bi", "tri"}
  /\ \/ board' = board /\ best' = best
     \/ board' \in Involutions /\ best' = value(phase, board') /\ best' > best
  /\ NextPair
  /\ UNCHANGED << inputs, phase, jbest, plugs, result >>

\* Two letters are plugged or unplugged; swapping them again restores the board.
LEMMA PlugClimbs == IInv /\ Plug => Climbs
<1> SUFFICES ASSUME IInv, Plug PROVE Climbs
  OBVIOUS
<1>1. /\ p < N - 1 /\ phase \in {"ic", "uni", "bi", "tri"} /\ board \in Involutions
      /\ \/ board[i] = i /\ board[k] = k
         \/ board[i] = k /\ board[k] = i
  BY DEF Plug, Climbing, IInv
<1>2. i \in Letters /\ k \in Letters /\ i # k
  BY <1>1, PairOfLetters
<1> DEFINE plugged == SwapStbrett(board, i, k)
<1>3. plugged \in Involutions
  BY <1>1, <1>2, SwapKeepsInvolution
<1>4. SwapStbrett(plugged, i, k) = board
  BY <1>1, <1>2, Involution, SwapUndone
<1>5. Climb(<< plugged >>, << plugged >>, SwapStbrett(plugged, i, k))
  BY DEF Plug
<1> HIDE DEF plugged
<1>6. \A n \in 1 .. Len(<< plugged >>) : << plugged >>[n] \in Involutions
  BY <1>3, SMT
<1> QED BY <1>1, <1>4, <1>5, <1>6 DEF Climb, Pays, Climbs

\* A plug is pulled, and a letter without one takes the place of either end.
LEMMA MovePlugClimbs ==
  ASSUME board \in Involutions, NEW a \in Letters, NEW c \in Letters, a # c,
         board[a] = a, board[c] # c, MovePlug(a, c, board[c])
  PROVE  \E t : (\A n \in 1 .. Len(t) : t[n] \in Involutions) /\ Climb(t, t, board)
<1> DEFINE d == board[c]
           bare == SwapStbrett(board, c, d)
           ac == SwapStbrett(bare, a, c)
           ad == SwapStbrett(bare, a, d)
           t  == << ac, ad >>
<1>1. /\ bare \in Involutions /\ d \in Letters /\ bare[c] = c /\ bare[d] = d
      /\ \A l \in Letters \ {c, d} : bare[l] = board[l]
      /\ SwapStbrett(bare, c, d) = board
  BY Pull
<1>2. a # d
  BY Involution
<1>3. bare[a] = a
  BY <1>1, <1>2
<1>4. LET ad2 == SwapStbrett(SwapStbrett(ac, a, c), a, d)
          left == SwapStbrett(ad2, a, d)
      IN Climb(<< ac, ad2 >>, << SwapStbrett(left, a, c), SwapStbrett(left, a, d) >>,
               SwapStbrett(left, c, d))
  BY DEF MovePlug
<1> HIDE DEF bare, d
<1>5. bare \in Board
  BY <1>1, Involution
<1>6. SwapStbrett(ac, a, c) = bare /\ SwapStbrett(ad, a, d) = bare
  BY <1>1, <1>5, SwapUndone
<1>7. Climb(t, t, board)
  BY <1>1, <1>4, <1>6
<1>8. ac \in Involutions /\ ad \in Involutions
  BY <1>1, <1>2, <1>3, PlugIn
<1> HIDE DEF ac, ad
<1>9. \A n \in 1 .. Len(t) : t[n] \in Involutions
  BY <1>8, SMT
<1> QED BY <1>7, <1>9

\* Either of the pair may be the letter without a plug.
LEMMA MovePlugsClimb == IInv /\ (MovePlugOfK \/ MovePlugOfI) => Climbs
<1> SUFFICES ASSUME IInv, MovePlugOfK \/ MovePlugOfI PROVE Climbs
  OBVIOUS
<1>1. p < N - 1 /\ phase \in {"ic", "uni", "bi", "tri"} /\ board \in Involutions
  BY DEF MovePlugOfK, MovePlugOfI, Climbing, IInv
<1>2. i \in Letters /\ k \in Letters /\ i # k
  BY <1>1, PairOfLetters
<1>3. PICK t : (\A n \in 1 .. Len(t) : t[n] \in Involutions) /\ Climb(t, t, board)
  <2>1. CASE MovePlugOfK
    BY <1>1, <1>2, <2>1, MovePlugClimbs DEF MovePlugOfK
  <2>2. CASE MovePlugOfI
    BY <1>1, <1>2, <2>2, MovePlugClimbs DEF MovePlugOfI
  <2> QED BY <2>1, <2>2
<1> QED BY <1>1, <1>3 DEF Climb, Pays, Climbs

\* The four letters of two plugs are four different letters.
LEMMA RegroupClimbs == IInv /\ Regroup => Climbs
<1> SUFFICES ASSUME IInv, Regroup PROVE Climbs
  OBVIOUS
<1>1. /\ p < N - 1 /\ phase \in {"ic", "uni", "bi", "tri"} /\ board \in Involutions
      /\ board[i] # i /\ board[k] # k /\ board[i] # k
  BY DEF Regroup, Climbing, IInv
<1>2. i \in Letters /\ k \in Letters /\ i # k
  BY <1>1, PairOfLetters
<1> DEFINE x == board[i]
           z == board[k]
           half == SwapStbrett(board, i, x)
           bare == SwapStbrett(half, k, z)
           ik == SwapStbrett(bare, i, k)
           iz == SwapStbrett(bare, i, z)
           ikxz == SwapStbrett(ik, x, z)
           izxk == SwapStbrett(iz, x, k)
           t == << ik, ikxz, iz, izxk >>
<1>3. /\ half \in Involutions /\ x \in Letters /\ half[i] = i /\ half[x] = x
      /\ \A a \in Letters \ {i, x} : half[a] = board[a]
      /\ SwapStbrett(half, i, x) = board
  BY <1>1, <1>2, Pull
<1>4. z \in Letters /\ i # x /\ k # z /\ x # k /\ i # z /\ x # z
  BY <1>1, <1>2, Involution
<1>5. LET iz2   == SwapStbrett(Undone(ikxz, x, z, i, k), i, z)
          izxk2 == SwapStbrett(iz2, x, k)
          left  == Undone(izxk2, x, k, i, z)
      IN Climb(<< ik, ikxz, iz2, izxk2 >>,
               << SwapStbrett(left, i, k), SwapStbrett(SwapStbrett(left, i, k), x, z),
                  SwapStbrett(left, i, z), SwapStbrett(SwapStbrett(left, i, z), x, k) >>,
               SwapStbrett(SwapStbrett(left, i, x), k, z))
  BY DEF Regroup
<1> HIDE DEF t
<1>6. half[k] = z
  BY <1>2, <1>3, <1>4
<1> HIDE DEF half, z, x
<1>7. /\ bare \in Involutions /\ bare[k] = k /\ bare[z] = z
      /\ \A a \in Letters \ {k, z} : bare[a] = half[a]
      /\ SwapStbrett(bare, k, z) = half
  BY <1>2, <1>3, <1>4, <1>6, Pull
<1>8. bare[i] = i /\ bare[x] = x
  BY <1>2, <1>3, <1>4, <1>7
<1> HIDE DEF bare
<1>9. SwapStbrett(SwapStbrett(bare, i, x), k, z) = board
  <2>1. SwapStbrett(SwapStbrett(bare, i, x), k, z) = SwapStbrett(SwapStbrett(bare, k, z), i, x)
    <3>1. bare \in Board
      BY <1>7, Involution
    <3> QED BY <1>2, <1>3, <1>4, <3>1 DEF SwapStbrett, Board
  <2> QED BY <1>3, <1>7, <2>1
<1>10. /\ ik \in Involutions /\ \A a \in Letters \ {i, k} : ik[a] = bare[a]
       /\ iz \in Involutions /\ \A a \in Letters \ {i, z} : iz[a] = bare[a]
  BY <1>2, <1>4, <1>7, <1>8, PlugIn
<1>11. ik[x] = x /\ ik[z] = z /\ iz[x] = x /\ iz[k] = k
  BY <1>2, <1>3, <1>4, <1>7, <1>8, <1>10
<1>12. Undone(ikxz, x, z, i, k) = bare /\ Undone(izxk, x, k, i, z) = bare
  <2>1. bare \in Board /\ ik \in Board /\ iz \in Board
    BY <1>7, <1>10, Involution
  <2>2. SwapStbrett(ikxz, x, z) = ik /\ SwapStbrett(izxk, x, k) = iz
    BY <1>2, <1>3, <1>4, <2>1, SwapUndone
  <2>3. SwapStbrett(ik, i, k) = bare /\ SwapStbrett(iz, i, z) = bare
    BY <1>2, <1>4, <2>1, SwapUndone
  <2> QED BY <2>2, <2>3 DEF Undone
<1>13. Climb(t, t, board)
  BY <1>5, <1>9, <1>12 DEF t
<1> HIDE DEF ik, iz
<1>14. ikxz \in Involutions /\ izxk \in Involutions
  BY <1>2, <1>3, <1>4, <1>10, <1>11, PlugIn
<1> HIDE DEF ikxz, izxk
<1>15. \A n \in 1 .. Len(t) : t[n] \in Involutions
  BY <1>10, <1>14, SMT DEF t
<1> QED BY <1>1, <1>13, <1>15 DEF Climb, Pays, Climbs

\* VE3NEA's optimizer first frees the letters it then plugs.
LEMMA PluggedIsInvolution ==
  ASSUME NEW b \in Involutions, NEW a \in Letters, NEW c \in Letters, a # c
  PROVE  Plugged(b, a, c) \in Involutions
<1>1. b \in Board /\ \A l \in Letters : b[l] \in Letters /\ b[b[l]] = l
  BY Involution
<1> DEFINE freed == [l \in Letters |-> IF l \in {a, c, b[a], b[c]} THEN l ELSE b[l]]
<1>2. CASE b[a] = c
  <2>1. Plugged(b, a, c) = [b EXCEPT ![a] = a, ![c] = c]
    BY <1>2 DEF Plugged
  <2> DEFINE d == [b EXCEPT ![a] = a, ![c] = c]
  <2>2. d \in Board /\ d[a] = a /\ d[c] = c /\ \A l \in Letters \ {a, c} : d[l] = b[l]
    BY <1>1 DEF Board
  <2> HIDE DEF d
  <2>3. ASSUME NEW l \in Letters PROVE d[d[l]] = l
    <3>1. CASE l \in {a, c}
      BY <2>2, <3>1
    <3>2. CASE l \notin {a, c}
      <4>1. b[l] \in Letters \ {a, c}
        BY <1>1, <1>2, <3>2
      <4> QED BY <1>1, <2>2, <3>2, <4>1
    <3> QED BY <3>1, <3>2
  <2>4. d \in Involutions
    BY <2>2, <2>3 DEF Involutions
  <2> QED BY <2>1, <2>4 DEF d
<1>3. CASE b[a] # c
  <2>1. Plugged(b, a, c) = [freed EXCEPT ![a] = c, ![c] = a]
    BY <1>3 DEF Plugged
  <2> DEFINE d == [freed EXCEPT ![a] = c, ![c] = a]
  <2>2. /\ d \in Board /\ d[a] = c /\ d[c] = a
        /\ \A l \in Letters \ {a, c} :
              d[l] = IF l \in {b[a], b[c]} THEN l ELSE b[l]
    BY <1>1 DEF Board
  <2> HIDE DEF d
  <2>3. ASSUME NEW l \in Letters PROVE d[d[l]] = l
    <3>1. CASE l \in {a, c}
      BY <2>2, <3>1
    <3>2. CASE l \notin {a, c} /\ l \in {b[a], b[c]}
      BY <2>2, <3>2
    <3>3. CASE l \notin {a, c} /\ l \notin {b[a], b[c]}
      <4>1. b[l] \in Letters \ {a, c} /\ b[l] \notin {b[a], b[c]}
        BY <1>1, <3>3
      <4> QED BY <1>1, <2>2, <3>3, <4>1
    <3> QED BY <3>1, <3>2, <3>3
  <2>4. d \in Involutions
    BY <2>2, <2>3 DEF Involutions
  <2> QED BY <2>1, <2>4 DEF d
<1> QED BY <1>2, <1>3

\* The pair of VE3NEA's optimizer.
LEMMA TogglePlugClimbs == IInv /\ TogglePlug => Climbs
<1> SUFFICES ASSUME IInv, TogglePlug PROVE Climbs
  OBVIOUS
<1>1. p < N - 1 /\ phase \in {"ic", "uni", "bi", "tri"} /\ board \in Involutions
  BY DEF TogglePlug, Climbing, IInv
<1>2. i \in Letters /\ k \in Letters /\ i # k
  BY <1>1, PairOfLetters
<1> DEFINE b == Plugged(board, i, k)
<1>3. b \in Involutions
  BY <1>1, <1>2, PluggedIsInvolution
<1>4. Climb(<< b >>, << b >>, board)
  BY DEF TogglePlug
<1> HIDE DEF b
<1>5. \A n \in 1 .. Len(<< b >>) : << b >>[n] \in Involutions
  BY <1>3, SMT
<1> QED BY <1>1, <1>4, <1>5 DEF Climb, Pays, Climbs

\* A climb keeps the invariant.
LEMMA ClimbsKeepsIInv == IInv /\ Climbs => IInv'
<1> SUFFICES ASSUME IInv, Climbs PROVE IInv'
  OBVIOUS
<1>1. /\ optimizer' = optimizer /\ scoring' = scoring /\ var' = var /\ phase' = phase
      /\ jbest' = jbest /\ plugs' = plugs /\ result' = result
      /\ phase \in {"ic", "uni", "bi", "tri"}
  BY DEF Climbs, inputs
<1>2. best = value(phase, board)
  BY <1>1 DEF IInv, Matched, BestIsScoreOfBoard
<1>3. board' \in Involutions /\ best' = Score(phase, scoring, board') /\ best' \in Nat
      /\ best' >= best
  <2>1. CASE board' = board /\ best' = best
    BY <1>2, <2>1, SMT DEF IInv, value
  <2>2. CASE board' \in Involutions /\ best' = value(phase, board') /\ best' > best
    <3>1. best' \in Nat /\ best \in Nat
      BY <1>1, <2>2, ScoresAreNumbers DEF IInv, value
    <3> QED BY <2>2, <3>1, SMT DEF value
  <2> QED BY <2>1, <2>2 DEF Climbs
<1>4. Placed'
  BY SteckerAssumption, SMT DEF IInv, Placed, Climbs, NextPair
<1>5. BestIsScoreOfBoard'
  BY <1>1, <1>3 DEF BestIsScoreOfBoard, value
<1>6. optimizer' = "AV" /\ phase' = "tri" => jbest' <= best'
  <2>1. jbest \in Nat /\ best \in Nat
    BY DEF IInv
  <2> QED BY <1>1, <1>3, <2>1, SMT DEF IInv, Matched
<1>7. Matched'
  BY <1>1, <1>5, <1>6 DEF IInv, Matched
<1> QED BY <1>1, <1>3, <1>4, <1>7 DEF IInv

-----------------------------------------------------------------------------
(* The end of a phase.                                                     *)

\* A phase begins with the score of the board it is given.
LEMMA BeginKeeps ==
  ASSUME IInv, NEW kind \in {"ic", "uni", "bi", "tri"}, Begin(kind)
  PROVE  /\ Placed' /\ board' = board /\ board' \in Involutions
         /\ optimizer' = optimizer /\ scoring' = scoring /\ var' = var /\ phase' = kind
         /\ best' = value(kind, board) /\ best' \in Nat
<1>1. /\ phase' = kind /\ p' = 0 /\ q' = 1 /\ best' = value(kind, board)
      /\ optimizer' = optimizer /\ scoring' = scoring /\ var' = var /\ board' = board
  BY DEF Begin, inputs
<1>2. best' \in Nat
  BY <1>1, ScoresAreNumbers DEF IInv, value
<1>3. Placed'
  BY <1>1, SteckerAssumption, SMT DEF Placed
<1> QED BY <1>1, <1>2, <1>3 DEF IInv

\* What the rounds of Krah's optimizer compare is a number.
LEMMA SumIsNumber == IInv => Sum \in Nat
<1> SUFFICES ASSUME IInv PROVE Sum \in Nat
  OBVIOUS
<1>1. value("tri", board) \in Nat /\ value("bi", board) \in Nat
  BY ScoresAreNumbers DEF IInv, value
<1> QED BY <1>1, SMT DEF Sum

\* The next phase, the next round or the end finds board, score and plugs together.
LEMMA PhaseEndsKeepIInv ==
  ASSUME IInv,
         \/ KrahAfterIc \/ KrahAfterBi \/ KrahAfterTri
         \/ Ve3neaAfterIc \/ Ve3neaAfterUni \/ Ve3neaAfterTri
  PROVE  IInv'
<1>1. CASE KrahAfterIc
  <2>1. optimizer = "Krah" /\ Begin("bi") /\ jbest' = Sum /\ plugs' = plugs /\ result' = result
    BY <1>1 DEF KrahAfterIc
  <2>2. /\ Placed' /\ board' = board /\ board' \in Involutions
        /\ optimizer' = optimizer /\ scoring' = scoring /\ var' = var /\ phase' = "bi"
        /\ best' = value("bi", board) /\ best' \in Nat
    BY <2>1, BeginKeeps
  <2>3. Matched'
    BY <2>1, <2>2 DEF Matched, BestIsScoreOfBoard, value
  <2> QED BY <2>1, <2>2, <2>3, SumIsNumber DEF IInv
<1>2. CASE KrahAfterBi
  <2>1. optimizer = "Krah" /\ Begin("tri") /\ jbest' = jbest /\ plugs' = plugs /\ result' = result
    BY <1>2 DEF KrahAfterBi
  <2>2. /\ Placed' /\ board' = board /\ board' \in Involutions
        /\ optimizer' = optimizer /\ scoring' = scoring /\ var' = var /\ phase' = "tri"
        /\ best' = value("tri", board) /\ best' \in Nat
    BY <2>1, BeginKeeps
  <2>3. Matched'
    BY <2>1, <2>2 DEF Matched, BestIsScoreOfBoard, value
  <2> QED BY <2>1, <2>2, <2>3 DEF IInv
<1>3. CASE KrahAfterTri /\ Improved(Sum)
  <2>1. optimizer = "Krah" /\ Begin("bi") /\ jbest' = Sum /\ plugs' = plugs /\ result' = result
    BY <1>3 DEF KrahAfterTri
  <2>2. /\ Placed' /\ board' = board /\ board' \in Involutions
        /\ optimizer' = optimizer /\ scoring' = scoring /\ var' = var /\ phase' = "bi"
        /\ best' = value("bi", board) /\ best' \in Nat
    BY <2>1, BeginKeeps
  <2>3. Matched'
    BY <2>1, <2>2 DEF Matched, BestIsScoreOfBoard, value
  <2> QED BY <2>1, <2>2, <2>3, SumIsNumber DEF IInv
<1>4. CASE KrahAfterTri /\ ~ Improved(Sum)
  <2>1. /\ optimizer = "Krah" /\ phase' = "reswap" /\ plugs' = get_stecker(board)
        /\ best' = value("tri", board) /\ board' = board /\ jbest' = jbest
        /\ p' = p /\ q' = q /\ result' = result
        /\ optimizer' = optimizer /\ scoring' = scoring /\ var' = var
    BY <1>4 DEF KrahAfterTri, inputs, pair
  <2>2. best' \in Nat
    BY <2>1, ScoresAreNumbers DEF IInv, value
  <2>3. plugs'.sf \in Board /\ plugs'.count \in 0 .. N
    BY <2>1, ListDescribesBoard DEF IInv
  <2>4. Matched'
    BY <2>1 DEF Matched, BestIsScoreOfBoard, value
  <2> QED BY <2>1, <2>2, <2>3, <2>4 DEF IInv, Placed
<1>5. CASE Ve3neaAfterIc
  <2>1. optimizer = "AV" /\ Begin("uni") /\ jbest' = jbest /\ plugs' = plugs /\ result' = result
    BY <1>5 DEF Ve3neaAfterIc
  <2>2. /\ Placed' /\ board' = board /\ board' \in Involutions
        /\ optimizer' = optimizer /\ scoring' = scoring /\ var' = var /\ phase' = "uni"
        /\ best' = value("uni", board) /\ best' \in Nat
    BY <2>1, BeginKeeps
  <2>3. Matched'
    BY <2>1, <2>2 DEF Matched, BestIsScoreOfBoard, value
  <2> QED BY <2>1, <2>2, <2>3 DEF IInv
<1>6. CASE Ve3neaAfterUni
  <2>1. optimizer = "AV" /\ Begin("tri") /\ jbest' = best' /\ plugs' = plugs /\ result' = result
    BY <1>6 DEF Ve3neaAfterUni
  <2>2. /\ Placed' /\ board' = board /\ board' \in Involutions
        /\ optimizer' = optimizer /\ scoring' = scoring /\ var' = var /\ phase' = "tri"
        /\ best' = value("tri", board) /\ best' \in Nat
    BY <2>1, BeginKeeps
  <2>3. jbest' <= best'
    BY <2>1, <2>2, SMT
  <2>4. Matched'
    BY <2>1, <2>2, <2>3 DEF Matched, BestIsScoreOfBoard, value
  <2> QED BY <2>1, <2>2, <2>4 DEF IInv
<1>7. CASE Ve3neaAfterTri /\ Improved(best)
  <2>1. /\ optimizer = "AV" /\ phase = "tri" /\ phase' = phase /\ jbest' = best /\ best' = best
        /\ board' = board /\ plugs' = plugs /\ result' = result /\ p' = 0 /\ q' = 1
        /\ optimizer' = optimizer /\ scoring' = scoring /\ var' = var
    BY <1>7 DEF Ve3neaAfterTri, Climbed, inputs
  <2>2. Placed'
    BY <2>1, SteckerAssumption, SMT DEF Placed
  <2>3. jbest' <= best'
    BY <2>1, SMT DEF IInv
  <2>4. Matched'
    BY <2>1, <2>3 DEF IInv, Matched, BestIsScoreOfBoard, value
  <2> QED BY <2>1, <2>2, <2>4 DEF IInv
<1>8. CASE Ve3neaAfterTri /\ ~ Improved(best)
  <2>1. /\ optimizer = "AV" /\ phase = "tri" /\ phase' = "done" /\ jbest' = jbest /\ best' = best
        /\ board' = board /\ plugs' = get_stecker(board) /\ result' = jbest
        /\ p' = p /\ q' = q
        /\ optimizer' = optimizer /\ scoring' = scoring /\ var' = var
    BY <1>8 DEF Ve3neaAfterTri, Climbed, Return, inputs, pair
  <2>2. jbest = best
    BY <1>8, <2>1, SMT DEF IInv, Matched, Improved
  <2>3. best = value("tri", board)
    BY <2>1 DEF IInv, Matched, BestIsScoreOfBoard
  <2>4. plugs'.sf \in Board /\ plugs'.count \in 0 .. N
    BY <2>1, ListDescribesBoard DEF IInv
  <2>5. Matched'
    BY <2>1, <2>2, <2>3 DEF Matched, BestIsScoreOfBoard, value
  <2> QED BY <2>1, <2>4, <2>5 DEF IInv, Placed
<1> QED BY <1>1, <1>2, <1>3, <1>4, <1>5, <1>6, <1>7, <1>8

\* The places the loops of the last phase come to: one end of a plug, and a
\* letter behind the plugs.
LEMMA TrialPlaces ==
  ASSUME NEW pairs \in Nat, NEW single \in Nat, NEW n \in 1 .. pairs * single * 2
  PROVE  /\ (n - 1) \div (2 * single) \in 0 .. pairs - 1
         /\ ((n - 1) \div 2) % single \in 0 .. single - 1
         /\ (n - 1) % 2 \in {0, 1}
<1>1. single > 0 /\ pairs > 0
  <2>1. pairs * single * 2 \in Nat /\ pairs * single * 2 > 0
    BY SMT
  <2>2. single # 0 /\ pairs # 0
    BY <2>1, SMT
  <2> QED BY <2>2, SMT
<1> DEFINE d == 2 * single
           c == (n - 1) \div d
           r == (n - 1) % d
<1>2. d \in Nat /\ d > 0 /\ n - 1 \in Nat
  BY <1>1, SMT
<1>3. c \in Int /\ r \in Nat /\ n - 1 = d * c + r /\ r < d
  <2> HIDE DEF d
  <2> QED BY <1>2, SMT
<1>4. n - 1 < d * pairs
  BY SMT
<1> HIDE DEF c, r, d
<1>5. c >= 0
  <2> SUFFICES ASSUME c <= -1 PROVE FALSE
    BY <1>3, SMT
  <2>1. d * c <= d * (-1)
    BY <1>2, <1>3, SMT
  <2> QED BY <1>2, <1>3, <2>1, SMT
<1>6. c < pairs
  <2> SUFFICES ASSUME c >= pairs PROVE FALSE
    BY <1>3, SMT
  <2>1. d * c >= d * pairs
    BY <1>2, <1>3, SMT
  <2> QED BY <1>2, <1>3, <1>4, <2>1, SMT
<1>7. c \in 0 .. pairs - 1
  BY <1>3, <1>5, <1>6, SMT
<1>8. ((n - 1) \div 2) % single \in 0 .. single - 1
  <2> DEFINE h == (n - 1) \div 2
  <2>1. h \in Nat
    BY SMT
  <2> HIDE DEF h
  <2>2. h % single \in 0 .. single - 1
    BY <1>1, <2>1, SMT
  <2> QED BY <2>2 DEF h
<1>9. (n - 1) % 2 \in {0, 1}
  BY SMT
<1> QED BY <1>7, <1>8, <1>9 DEF c, d

\* A board on which the plug at a has been pulled and a is plugged to c.
Moved(b, a, c) == SwapStbrett(SwapStbrett(b, a, b[a]), a, c)

\* That is a plugboard, whichever end is named first when the plug is pulled.
LEMMA MovedIsInvolution ==
  ASSUME NEW b \in Involutions, NEW a \in Letters, NEW c \in Letters,
         b[a] # a, b[c] = c
  PROVE  /\ Moved(b, a, c) \in Involutions
         /\ SwapStbrett(SwapStbrett(b, b[a], a), a, c) = Moved(b, a, c)
<1> DEFINE bare == SwapStbrett(b, a, b[a])
<1>1. /\ bare \in Involutions /\ b[a] \in Letters /\ bare[a] = a /\ bare[b[a]] = b[a]
      /\ \A l \in Letters \ {a, b[a]} : bare[l] = b[l]
  BY Pull
<1>2. c # a /\ c # b[a]
  BY <1>1, Involution
<1>3. bare[c] = c
  BY <1>1, <1>2
<1>4. SwapStbrett(b, b[a], a) = bare
  BY <1>1, Involution, SwapCommutes
<1> HIDE DEF bare
<1>5. SwapStbrett(bare, a, c) \in Involutions
  BY <1>1, <1>2, <1>3, PlugIn
<1> QED BY <1>4, <1>5 DEF Moved, bare

Pairs == plugs.count \div 2
Single == N - plugs.count

\* The list of plugs as the last phase goes through it: pairs, then single letters.
LEMMA PlugsInReswap ==
  ASSUME IInv, phase \in {"reswap", "done"}
  PROVE  /\ Pairs \in Nat /\ Single \in Nat /\ plugs.count = 2 * Pairs
         /\ plugs.count \in Nat /\ board \in Involutions
         /\ \A u \in 0 .. Pairs - 1 :
               /\ 2 * u \in Letters /\ 2 * u + 1 \in Letters
               /\ plugs.sf[2 * u] \in Letters
               /\ plugs.sf[2 * u + 1] = board[plugs.sf[2 * u]]
               /\ board[plugs.sf[2 * u]] # plugs.sf[2 * u]
         /\ \A s \in 0 .. Single - 1 :
               /\ plugs.count + s \in Letters
               /\ plugs.sf[plugs.count + s] \in Letters
               /\ board[plugs.sf[plugs.count + s]] = plugs.sf[plugs.count + s]
<1>1. plugs = get_stecker(board) /\ board \in Involutions
  BY DEF IInv, Matched
<1>2. /\ plugs.count = 2 * Cardinality(lower(board)) /\ Cardinality(lower(board)) \in Nat
      /\ 2 * Cardinality(lower(board)) <= N
      /\ \A m \in 0 .. Cardinality(lower(board)) - 1 :
            /\ 2 * m \in Letters /\ 2 * m + 1 \in Letters
            /\ plugs.sf[2 * m] = nth(lower(board), m)
            /\ plugs.sf[2 * m + 1] = board[nth(lower(board), m)]
            /\ nth(lower(board), m) \in lower(board)
      /\ \A n \in 2 * Cardinality(lower(board)) .. N - 1 :
            n \in Letters /\ plugs.sf[n] \in alone(board)
  BY <1>1, ListPlaces
<1>3. Pairs = Cardinality(lower(board)) /\ Single \in Nat /\ plugs.count \in Nat
  BY <1>2, SteckerAssumption, SMT DEF Pairs, Single
<1>4. \A a \in lower(board) : a \in Letters /\ board[a] # a
  BY LettersFinite, SMT DEF lower
<1>5. \A s \in 0 .. Single - 1 :
         /\ plugs.count + s \in Letters
         /\ plugs.sf[plugs.count + s] \in alone(board)
  <2>1. ASSUME NEW s \in 0 .. Single - 1
        PROVE  plugs.count + s \in 2 * Cardinality(lower(board)) .. N - 1
    BY <1>2, <1>3, SteckerAssumption, SMT DEF Single
  <2> QED BY <1>2, <2>1
<1> QED BY <1>1, <1>2, <1>3, <1>4, <1>5 DEF alone

\* What is tried in the last phase is a plugboard, and every way of moving
\* one end of a plug to a free letter is tried.
LEMMA ReswapTries ==
  ASSUME IInv, phase \in {"reswap", "done"}
  PROVE  /\ Len(ReswapTrials) \in Nat
         /\ \A n \in 1 .. Len(ReswapTrials) : ReswapTrials[n] \in Involutions
         /\ \A a, c \in Letters : board[a] # a /\ board[c] = c =>
               \E n \in 1 .. Len(ReswapTrials) : ReswapTrials[n] = Moved(board, a, c)
<1> DEFINE K == Pairs * Single * 2
           U(n) == (n - 1) \div (2 * Single)
           S(n) == ((n - 1) \div 2) % Single
           E(n) == (n - 1) % 2
           trial(u, s, end) ==
             SwapStbrett(SwapStbrett(board, plugs.sf[u], plugs.sf[u + 1]),
                         plugs.sf[u + end], plugs.sf[s])
<1>1. /\ Pairs \in Nat /\ Single \in Nat /\ plugs.count = 2 * Pairs
      /\ plugs.count \in Nat /\ board \in Involutions
      /\ \A u \in 0 .. Pairs - 1 :
            /\ 2 * u \in Letters /\ 2 * u + 1 \in Letters
            /\ plugs.sf[2 * u] \in Letters
            /\ plugs.sf[2 * u + 1] = board[plugs.sf[2 * u]]
            /\ board[plugs.sf[2 * u]] # plugs.sf[2 * u]
      /\ \A s \in 0 .. Single - 1 :
            /\ plugs.count + s \in Letters
            /\ plugs.sf[plugs.count + s] \in Letters
            /\ board[plugs.sf[plugs.count + s]] = plugs.sf[plugs.count + s]
  BY PlugsInReswap
<1>2. ReswapTrials = [n \in 1 .. K |-> trial(2 * U(n), plugs.count + S(n), E(n))]
  BY DEF ReswapTrials, Pairs, Single
<1>3. K \in Nat
  BY <1>1, SMT
<1> HIDE DEF K, trial, U, S, E
<1>4. Len(ReswapTrials) = K
  BY <1>2, <1>3, SMT
<1>5. ASSUME NEW u \in 0 .. Pairs - 1, NEW s \in 0 .. Single - 1
      PROVE  LET a == plugs.sf[2 * u]
                 c == plugs.sf[plugs.count + s]
             IN /\ trial(2 * u, plugs.count + s, 0) = Moved(board, a, c)
                /\ trial(2 * u, plugs.count + s, 1) = Moved(board, board[a], c)
                /\ Moved(board, a, c) \in Involutions
                /\ Moved(board, board[a], c) \in Involutions
  <2> DEFINE a == plugs.sf[2 * u]
             c == plugs.sf[plugs.count + s]
  <2>1. /\ a \in Letters /\ c \in Letters /\ board[a] # a /\ board[c] = c
        /\ plugs.sf[2 * u + 1] = board[a] /\ plugs.sf[2 * u + 0] = a
    <3>1. 2 * u + 0 = 2 * u
      BY SMT
    <3> QED BY <1>1, <3>1
  <2> HIDE DEF a, c
  <2>2. board[a] \in Letters /\ board[board[a]] = a
    BY <1>1, <2>1, Involution
  <2>3. /\ Moved(board, a, c) \in Involutions /\ Moved(board, board[a], c) \in Involutions
        /\ SwapStbrett(SwapStbrett(board, a, board[a]), board[a], c)
             = Moved(board, board[a], c)
    BY <1>1, <2>1, <2>2, MovedIsInvolution
  <2>4. trial(2 * u, plugs.count + s, 0) = Moved(board, a, c)
    BY <2>1 DEF trial, Moved, a, c
  <2>5. trial(2 * u, plugs.count + s, 1) = Moved(board, board[a], c)
    BY <2>1, <2>3 DEF trial, a, c
  <2> QED BY <2>3, <2>4, <2>5 DEF a, c
<1>6. ASSUME NEW n \in 1 .. K PROVE ReswapTrials[n] \in Involutions
  <2>1. U(n) \in 0 .. Pairs - 1 /\ S(n) \in 0 .. Single - 1 /\ E(n) \in {0, 1}
    BY <1>1, TrialPlaces DEF K, U, S, E
  <2>2. ReswapTrials[n] = trial(2 * U(n), plugs.count + S(n), E(n))
    BY <1>2
  <2> QED BY <1>5, <2>1, <2>2
<1>7. ASSUME NEW u \in 0 .. Pairs - 1, NEW s \in 0 .. Single - 1, NEW e \in {0, 1}
      PROVE  \E n \in 1 .. K : U(n) = u /\ S(n) = s /\ E(n) = e
  <2> DEFINE h == u * Single + s
             n == 2 * h + e + 1
  <2>1. h \in Nat /\ h < Pairs * Single
    <3>1. u * Single + s < (u + 1) * Single
      BY <1>1, SMT
    <3>2. (u + 1) * Single <= Pairs * Single
      BY <1>1, SMT
    <3>3. u * Single \in Nat /\ (u + 1) * Single \in Nat /\ Pairs * Single \in Nat
      BY <1>1, SMT
    <3> QED BY <1>1, <3>1, <3>2, <3>3, SMT
  <2>2. h \div Single = u /\ h % Single = s
    BY <1>1, SMT
  <2>3. n - 1 = u * (2 * Single) + (2 * s + e) /\ 2 * s + e \in 0 .. 2 * Single - 1
    BY <1>1, SMT
  <2>4. (n - 1) \div (2 * Single) = u
    <3> DEFINE d == 2 * Single
    <3>1. d \in Nat /\ d > 0
      BY <1>1, SMT
    <3>2. n - 1 = u * d + (2 * s + e) /\ 2 * s + e \in 0 .. d - 1
      BY <2>3
    <3> HIDE DEF d
    <3>3. (n - 1) \div d = u
      BY <3>1, <3>2, SMT
    <3> QED BY <3>3 DEF d
  <2> HIDE DEF h
  <2>5. (n - 1) \div 2 = h /\ (n - 1) % 2 = e
    BY <2>1, SMT
  <2>6. n \in 1 .. K
    <3>1. Pairs * Single \in Nat
      BY <1>1, SMT
    <3>2. K = 2 * (Pairs * Single)
      BY <1>1, SMT DEF K
    <3> QED BY <2>1, <3>1, <3>2, SMT
  <2>7. U(n) = u /\ S(n) = s /\ E(n) = e
    BY <2>2, <2>4, <2>5 DEF U, S, E
  <2> HIDE DEF n
  <2> QED BY <2>6, <2>7
<1>8. ASSUME NEW a \in Letters, NEW c \in Letters, board[a] # a, board[c] = c
      PROVE  \E n \in 1 .. K : ReswapTrials[n] = Moved(board, a, c)
  <2>1. PICK s \in 0 .. Single - 1 : plugs.sf[plugs.count + s] = c
    <3>1. {plugs.sf[n] : n \in plugs.count .. N - 1} = alone(board)
      BY ListDescribesBoard DEF IInv, Matched
    <3>2. PICK n \in plugs.count .. N - 1 : plugs.sf[n] = c
      BY <1>8, <3>1 DEF alone
    <3>3. n - plugs.count \in 0 .. Single - 1 /\ plugs.count + (n - plugs.count) = n
      BY <1>1, <3>2, SteckerAssumption, SMT DEF Single
    <3> QED BY <3>2, <3>3
  <2>2. PICK u \in 0 .. Pairs - 1, e \in {0, 1} :
          a = IF e = 0 THEN plugs.sf[2 * u] ELSE board[plugs.sf[2 * u]]
    <3>1. {plugs.sf[n] : n \in Letters} = Letters
      BY ListDescribesBoard DEF IInv, Matched
    <3>2. PICK n \in Letters : plugs.sf[n] = a
      BY <3>1
    <3>3. n < plugs.count
      <4> SUFFICES ASSUME ~ (n < plugs.count) PROVE FALSE
        OBVIOUS
      <4>1. n - plugs.count \in 0 .. Single - 1 /\ plugs.count + (n - plugs.count) = n
        BY <1>1, SteckerAssumption, SMT DEF Single, Letters
      <4> QED BY <1>1, <1>8, <3>2, <4>1
    <3>4. /\ n \div 2 \in 0 .. Pairs - 1
          /\ n = 2 * (n \div 2) \/ n = 2 * (n \div 2) + 1
      BY <1>1, <3>3, SMT DEF Letters
    <3>5. \/ a = plugs.sf[2 * (n \div 2)]
          \/ a = board[plugs.sf[2 * (n \div 2)]]
      BY <1>1, <3>2, <3>4
    <3> QED BY <3>4, <3>5
  <2>3. PICK n \in 1 .. K : U(n) = u /\ S(n) = s /\ E(n) = e
    BY <1>7
  <2>4. ReswapTrials[n] = trial(2 * u, plugs.count + s, e)
    BY <1>2, <2>3
  <2>5. ReswapTrials[n] = Moved(board, a, c)
    BY <1>5, <2>1, <2>2, <2>4
  <2> QED BY <2>5
<1> QED BY <1>3, <1>4, <1>6, <1>8

\* The last phase changes board, score and list of plugs together, or returns them.
LEMMA KrahReswapKeepsIInv == IInv /\ KrahReswap => IInv'
<1> SUFFICES ASSUME IInv, KrahReswap PROVE IInv'
  OBVIOUS
<1>1. /\ optimizer = "Krah" /\ phase = "reswap" /\ best = value("tri", board)
      /\ optimizer' = optimizer /\ scoring' = scoring /\ var' = var
      /\ p' = p /\ q' = q /\ jbest' = jbest
      /\ plugs = get_stecker(board)
  BY DEF KrahReswap, inputs, pair, IInv, Matched, BestIsScoreOfBoard
<1>2. CASE /\ Return(best)
           /\ UNCHANGED << board, best, plugs >>
  <2>1. /\ phase' = "done" /\ result' = best
        /\ board' = board /\ best' = best /\ plugs' = plugs
    BY <1>2 DEF Return
  <2>2. Matched'
    BY <1>1, <2>1 DEF Matched, BestIsScoreOfBoard, value
  <2> QED BY <1>1, <2>1, <2>2 DEF IInv, Placed
<1>3. ASSUME NEW n \in 1 .. Len(ReswapTrials),
             board' = ReswapTrials[n], best' = value("tri", board'),
             plugs' = get_stecker(board'), UNCHANGED << phase, result >>
      PROVE  IInv'
  <2>1. board' \in Involutions
    BY <1>1, <1>3, ReswapTries
  <2>2. best' \in Nat
    BY <1>3, <2>1, ScoresAreNumbers DEF IInv, value
  <2>3. plugs'.sf \in Board /\ plugs'.count \in 0 .. N
    BY <1>3, <2>1, ListDescribesBoard
  <2>4. phase' = "reswap" /\ result' = result
    BY <1>1, <1>3
  <2>5. Matched'
    BY <1>1, <1>3, <2>4 DEF Matched, BestIsScoreOfBoard, value
  <2> QED BY <1>1, <2>1, <2>2, <2>3, <2>4, <2>5 DEF IInv, Placed
<1> QED BY <1>2, <1>3 DEF KrahReswap

-----------------------------------------------------------------------------
(* The theorems.                                                           *)

\* Every step of either optimizer keeps the invariant.
LEMMA IInvStep == IInv /\ [Next]_vars => IInv'
<1> SUFFICES ASSUME IInv, [Next]_vars PROVE IInv'
  OBVIOUS
<1>1. CASE Plug \/ MovePlugOfK \/ MovePlugOfI \/ Regroup \/ TogglePlug
  BY <1>1, PlugClimbs, MovePlugsClimb, RegroupClimbs,
     TogglePlugClimbs, ClimbsKeepsIInv
<1>2. CASE \/ KrahAfterIc \/ KrahAfterBi \/ KrahAfterTri
           \/ Ve3neaAfterIc \/ Ve3neaAfterUni \/ Ve3neaAfterTri
  BY <1>2, PhaseEndsKeepIInv
<1>3. CASE KrahReswap
  BY <1>3, KrahReswapKeepsIInv
<1>4. CASE UNCHANGED vars
  BY <1>4 DEF vars, inputs, pair, IInv, Placed, Matched, BestIsScoreOfBoard, value
<1> QED BY <1>1, <1>2, <1>3, <1>4 DEF Next

\* The inductive invariant holds of every run of either optimizer.
THEOREM OptimizerInvariant == Spec => []IInv
  BY IInvInit, IInvStep, PTL DEF Spec

\* Every variable keeps its type: the pair loops never index past the testing
\* order, and no board or list of plugs leaves the alphabet.
THEOREM OptimizerTypes == Spec => []TypeOK
<1>1. IInv => TypeOK
  <2> SUFFICES ASSUME IInv PROVE TypeOK
    OBVIOUS
  <2>1. board \in Board
    BY Involution DEF IInv
  <2>2. var \in [Letters -> Letters]
    BY OrderIsPermutation DEF IInv, Board
  <2> QED BY <2>1, <2>2 DEF IInv, Placed, TypeOK
<1> QED BY <1>1, OptimizerInvariant, PTL

\* Whatever sequence of swaps the optimizers try, keep and undo, the board
\* stays a plugboard.
THEOREM BoardStaysPlugboard == Spec => []StaysPlugboard
<1>1. IInv => StaysPlugboard
  BY DEF IInv, StaysPlugboard
<1> QED BY <1>1, OptimizerInvariant, PTL

\* The score carried along is at every step that of the board that is held.
THEOREM ScoreMatchesBoard == Spec => []BestIsScoreOfBoard
<1>1. IInv => BestIsScoreOfBoard
  BY DEF IInv, Matched
<1> QED BY <1>1, OptimizerInvariant, PTL

\* The score, the board and the list of plugs that are returned belong
\* together, and the list names every letter exactly once.
THEOREM ReturnsMatchingResult == Spec => []ResultDescribesBoard
<1>1. ASSUME IInv PROVE ResultDescribesBoard
  <2> SUFFICES ASSUME phase = "done" PROVE ResultDescribesBoard
    BY DEF ResultDescribesBoard
  <2>1. /\ result = value("tri", board) /\ plugs = get_stecker(board)
        /\ board \in Involutions
    BY <1>1 DEF IInv, Matched
  <2>2. /\ plugs.count % 2 = 0
        /\ \A n \in 0 .. plugs.count - 1 :
              board[plugs.sf[n]] = plugs.sf[IF n % 2 = 0 THEN n + 1 ELSE n - 1]
        /\ {plugs.sf[n] : n \in plugs.count .. N - 1} = alone(board)
        /\ {plugs.sf[n] : n \in Letters} = Letters
    BY <2>1, ListDescribesBoard
  <2>3. Cardinality({plugs.sf[n] : n \in Letters}) = N
    BY <2>2, LettersFinite
  <2> QED BY <2>1, <2>2, <2>3 DEF ResultDescribesBoard, alone
<1>2. IInv => ResultDescribesBoard
  BY <1>1
<1> QED BY <1>2, OptimizerInvariant, PTL

-----------------------------------------------------------------------------
(* The optimizers end on a hill top, whatever is scored.                   *)

\* The places of a pair that the loops have left behind them.
Behind(m, n) == m < n /\ (m < p \/ (m = p /\ n < q))

\* VE3NEA's optimizer: as long as the round has not got beyond what the one
\* before has reached, the board has not changed and no pair tried pays.
Tried ==
  optimizer = "AV" /\ phase = "tri" /\ best = jbest =>
    \A m, n \in Letters :
      Behind(m, n) => value("tri", Plugged(board, var[m], var[n])) <= best

HInv == IInv /\ Tried /\ EndsOnHilltop

\* The pair that has been tried is all that comes to those behind.
LEMMA NextBehind ==
  ASSUME IInv, p < N - 1, NextPair,
         NEW m \in Letters, NEW n \in Letters, Behind(m, n)'
  PROVE  Behind(m, n) \/ (m = p /\ n = q)
  BY SteckerAssumption, SMT DEF Behind, IInv, Placed, NextPair, Letters

\* It does not matter which letter of a pair is named first.
LEMMA PluggedCommutes ==
  ASSUME NEW b \in Involutions, NEW a \in Letters, NEW c \in Letters, a # c
  PROVE  Plugged(b, a, c) = Plugged(b, c, a)
<1>1. b \in Board /\ \A l \in Letters : b[l] \in Letters /\ b[b[l]] = l
  BY Involution
<1>2. b[a] = c <=> b[c] = a
  BY <1>1
<1>3. CASE b[a] = c
  BY <1>1, <1>2, <1>3 DEF Plugged, Board
<1>4. CASE b[a] # c
  <2> DEFINE f == [l \in Letters |-> IF l \in {a, c, b[a], b[c]} THEN l ELSE b[l]]
             g == [l \in Letters |-> IF l \in {c, a, b[c], b[a]} THEN l ELSE b[l]]
  <2>1. f = g
    OBVIOUS
  <2>2. /\ Plugged(b, a, c) = [f EXCEPT ![a] = c, ![c] = a]
        /\ Plugged(b, c, a) = [g EXCEPT ![c] = a, ![a] = c]
    BY <1>2, <1>4 DEF Plugged
  <2>3. f \in [Letters -> Letters]
    BY <1>1
  <2> HIDE DEF f, g
  <2>4. [f EXCEPT ![a] = c, ![c] = a] = [f EXCEPT ![c] = a, ![a] = c]
    BY <2>3
  <2> QED BY <2>1, <2>2, <2>4
<1> QED BY <1>3, <1>4

\* Trying a pair keeps Tried: either it pays, and the round has got beyond
\* the one before, or the pair is one more that does not.
LEMMA ToggleKeepsTried == HInv /\ TogglePlug => Tried'
<1> SUFFICES ASSUME HInv, TogglePlug, optimizer' = "AV" /\ phase' = "tri" /\ best' = jbest',
                    NEW m \in Letters, NEW n \in Letters, Behind(m, n)'
             PROVE  value("tri", Plugged(board, var[m], var[n]))' <= best'
  BY DEF Tried
<1>1. /\ IInv /\ p < N - 1
      /\ Climb(<< Plugged(board, i, k) >>, << Plugged(board, i, k) >>, board)
  BY DEF HInv, TogglePlug, Climbing
<1>2. /\ optimizer' = optimizer /\ scoring' = scoring /\ var' = var
      /\ phase' = phase /\ jbest' = jbest /\ NextPair
  BY <1>1 DEF Climb, inputs
<1>3. jbest <= best /\ jbest \in Nat /\ best \in Nat
  BY <1>1, <1>2 DEF IInv, Matched
<1> DEFINE b == Plugged(board, i, k)
<1>4. b \in Involutions
  BY <1>1, PairOfLetters, PluggedIsInvolution DEF IInv
<1>5. value("tri", b) \in Nat
  BY <1>1, <1>4, ScoresAreNumbers DEF IInv, value
<1> HIDE DEF b
<1>6. Climb(<< b >>, << b >>, board)
  BY <1>1 DEF b
<1>7. Len(<< b >>) = 1 /\ << b >>[1] = b
  OBVIOUS
<1>8. board' = board /\ best' = best /\ value("tri", b) <= best
  <2>1. CASE NonePays(phase, << b >>) /\ board' = board /\ UNCHANGED best
    <3>1. value(phase, << b >>[1]) <= best
      BY <1>7, <2>1, SMT DEF NonePays
    <3> QED BY <1>2, <1>7, <2>1, <3>1
  <2>2. ASSUME NEW j \in 1 .. Len(<< b >>), Pays(phase, << b >>, j), board' = << b >>[j],
               best' = value(phase, << b >>[j])
        PROVE  FALSE
    <3>1. j = 1
      BY <1>7, SMT
    <3>2. best' > best
      BY <1>2, <1>7, <2>2, <3>1 DEF Pays
    <3> QED BY <1>2, <1>3, <3>2, SMT
  <2> QED BY <1>6, <2>1, <2>2 DEF Climb
<1>9. Behind(m, n) \/ (m = p /\ n = q)
  BY <1>1, <1>2, NextBehind
<1>10. value("tri", Plugged(board, var[m], var[n])) <= best
  <2>1. CASE Behind(m, n)
    BY <1>2, <1>8, <2>1 DEF HInv, Tried
  <2>2. CASE m = p /\ n = q
    BY <1>8, <2>2 DEF b, i, k
  <2> QED BY <1>9, <2>1, <2>2
<1> QED BY <1>2, <1>8, <1>10 DEF value, Plugged

\* What VE3NEA's optimizer returns after a round that has brought nothing.
LEMMA RoundWithoutGain == HInv /\ Ve3neaAfterTri => Tried' /\ EndsOnHilltop'
<1> SUFFICES ASSUME HInv, Ve3neaAfterTri PROVE Tried' /\ EndsOnHilltop'
  OBVIOUS
<1>1. /\ IInv /\ optimizer = "AV" /\ phase = "tri" /\ p >= N - 1
      /\ optimizer' = optimizer /\ scoring' = scoring /\ var' = var
      /\ board' = board /\ best' = best
  BY DEF HInv, Ve3neaAfterTri, Climbed, inputs
<1>2. CASE Improved(best)
  <2>1. p' = 0 /\ q' = 1 /\ phase' = phase
    BY <1>2 DEF Ve3neaAfterTri
  <2>2. \A m, n \in Letters : ~ Behind(m, n)'
    BY <2>1, SteckerAssumption, SMT DEF Behind, Letters
  <2> QED BY <1>1, <2>1, <2>2 DEF Tried, EndsOnHilltop
<1>3. CASE ~ Improved(best)
  <2>1. phase' = "done" /\ result' = jbest
    BY <1>3 DEF Ve3neaAfterTri, Return
  <2>2. best = jbest
    BY <1>1, <1>3, SMT DEF IInv, Matched, Improved
  <2>3. ASSUME NEW a \in Letters, NEW c \in Letters, a # c
        PROVE  value("tri", Plugged(board, a, c)) <= jbest
    <3>1. var \in Orders /\ board \in Involutions
      BY <1>1 DEF IInv
    <3>2. PICK m \in Letters : var[m] = a
      BY <3>1, OptimizerAssumption
    <3>3. PICK n \in Letters : var[n] = c
      BY <3>1, OptimizerAssumption
    <3>4. Behind(m, n) \/ Behind(n, m)
      <4>1. m # n
        BY <2>3, <3>2, <3>3
      <4> QED BY <1>1, <4>1, SteckerAssumption, SMT DEF Behind, Letters, IInv, Placed
    <3>5. CASE Behind(m, n)
      BY <1>1, <2>2, <3>2, <3>3, <3>5 DEF HInv, Tried
    <3>6. CASE Behind(n, m)
      <4>1. value("tri", Plugged(board, c, a)) <= jbest
        BY <1>1, <2>2, <3>2, <3>3, <3>6 DEF HInv, Tried
      <4> QED BY <2>3, <3>1, <4>1, PluggedCommutes
    <3> QED BY <3>4, <3>5, <3>6
  <2>4. EndsOnHilltop'
    BY <1>1, <2>1, <2>3 DEF EndsOnHilltop, value, Plugged
  <2> QED BY <2>1, <2>4 DEF Tried
<1> QED BY <1>2, <1>3

\* What Krah's optimizer returns: every move of one end of a plug to a letter
\* without one has been tried on the board.
LEMMA ReswapWithoutGain == HInv /\ KrahReswap => Tried' /\ EndsOnHilltop'
<1> SUFFICES ASSUME HInv, KrahReswap PROVE Tried' /\ EndsOnHilltop'
  OBVIOUS
<1>1. /\ IInv /\ optimizer = "Krah" /\ phase = "reswap"
      /\ optimizer' = optimizer /\ scoring' = scoring /\ var' = var
  BY DEF HInv, KrahReswap, inputs
<1>2. CASE phase' = phase
  BY <1>1, <1>2 DEF Tried, EndsOnHilltop
<1>3. CASE /\ NonePays("tri", ReswapTrials)
           /\ Return(best)
           /\ UNCHANGED << board, best, plugs >>
  <2>1. phase' = "done" /\ result' = best /\ board' = board
    BY <1>3 DEF Return
  <2>2. ASSUME NEW a \in Letters, NEW c \in Letters, board[a] # a, board[c] = c
        PROVE  value("tri", Moved(board, a, c)) <= best
    <3>1. PICK n \in 1 .. Len(ReswapTrials) : ReswapTrials[n] = Moved(board, a, c)
      BY <1>1, <2>2, ReswapTries
    <3>2. value("tri", ReswapTrials[n]) <= best
      BY <1>3 DEF NonePays
    <3> QED BY <3>1, <3>2
  <2>3. EndsOnHilltop'
    BY <1>1, <2>1, <2>2 DEF EndsOnHilltop, value, Moved
  <2> QED BY <1>1, <2>3 DEF Tried
<1> QED BY <1>2, <1>3 DEF KrahReswap

\* Every step keeps what the round has tried, and the hill top at the end.
LEMMA HInvStep == HInv /\ [Next]_vars => HInv'
<1> SUFFICES ASSUME HInv, [Next]_vars PROVE HInv'
  OBVIOUS
<1>1. IInv /\ IInv'
  BY IInvStep DEF HInv
<1>2. CASE Plug \/ MovePlugOfK \/ MovePlugOfI \/ Regroup
  <2>1. optimizer = "Krah" /\ Climbs
    BY <1>1, <1>2, PlugClimbs, MovePlugsClimb, RegroupClimbs
    DEF Plug, MovePlugOfK, MovePlugOfI, Regroup, Climbing
  <2>2. optimizer' = "Krah" /\ phase' # "done"
    BY <2>1 DEF Climbs, inputs
  <2> QED BY <1>1, <2>2 DEF HInv, Tried, EndsOnHilltop
<1>3. CASE TogglePlug
  <2>1. phase' # "done"
    BY <1>1, <1>3, TogglePlugClimbs DEF Climbs
  <2> QED BY <1>1, <1>3, <2>1, ToggleKeepsTried DEF HInv, EndsOnHilltop
<1>4. CASE KrahAfterIc \/ KrahAfterBi \/ KrahAfterTri
  <2>1. optimizer' = "Krah" /\ phase' # "done"
    BY <1>4 DEF KrahAfterIc, KrahAfterBi, KrahAfterTri, Begin, inputs
  <2> QED BY <1>1, <2>1 DEF HInv, Tried, EndsOnHilltop
<1>5. CASE Ve3neaAfterIc \/ Ve3neaAfterUni
  <2>1. p' = 0 /\ q' = 1 /\ phase' # "done"
    BY <1>5 DEF Ve3neaAfterIc, Ve3neaAfterUni, Begin
  <2>2. \A m, n \in Letters : ~ Behind(m, n)'
    BY <2>1, SteckerAssumption, SMT DEF Behind, Letters
  <2> QED BY <1>1, <2>1, <2>2 DEF HInv, Tried, EndsOnHilltop
<1>6. CASE Ve3neaAfterTri
  BY <1>1, <1>6, RoundWithoutGain DEF HInv
<1>7. CASE KrahReswap
  BY <1>1, <1>7, ReswapWithoutGain DEF HInv
<1>8. CASE UNCHANGED vars
  BY <1>1, <1>8
  DEF vars, inputs, pair, HInv, Tried, Behind, EndsOnHilltop, value, Plugged
<1> QED BY <1>2, <1>3, <1>4, <1>5, <1>6, <1>7, <1>8 DEF Next

\* No plug that either optimizer could set, pull or move in its last round
\* would improve the score that it returns.
THEOREM SearchEndsOnHilltop == Spec => []EndsOnHilltop
<1>1. Init => HInv
  <2> SUFFICES ASSUME Init PROVE HInv
    OBVIOUS
  <2>1. phase = "ic"
    BY DEF Init
  <2> QED BY <2>1, IInvInit DEF HInv, Tried, EndsOnHilltop
<1>2. HInv => EndsOnHilltop
  BY DEF HInv
<1> QED BY <1>1, <1>2, HInvStep, PTL DEF Spec
=============================================================================
