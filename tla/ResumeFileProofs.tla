--------------------------- MODULE ResumeFileProofs ---------------------------
(***************************************************************************)
(* The resume file for any search that may be saved and whatever a user    *)
(* may write: what was saved is restored, a file that was cut off is       *)
(* noticed, and what is resumed can be searched.                           *)
(***************************************************************************)
EXTENDS ResumeFile, KeyTextProofs, SteckerProofs

-----------------------------------------------------------------------------
(* set_stecker.                                                            *)

\* The boards in the loop of set_stecker, one more plug each time
Plugging(g, list, k) ==
  g = [n \in 0 .. k |-> IF n = 0 THEN Unplugged
                        ELSE SwapStbrett(g[n - 1], list[2 * n - 1], list[2 * n])]

\* The loop runs to any length.
LEMMA PluggingExists ==
  ASSUME NEW list, NEW k \in Nat
  PROVE  \E g : Plugging(g, list, k)
<1> DEFINE S == {n \in Nat : \E g : Plugging(g, list, n)}
<1>1. 0 \in S
  <2> DEFINE g == [n \in 0 .. 0 |-> Unplugged]
  <2>1. Plugging(g, list, 0)
    BY DEF Plugging
  <2> QED BY <2>1
<1>2. ASSUME NEW n \in Nat, n \in S PROVE n + 1 \in S
  <2>1. PICK g : Plugging(g, list, n)
    BY <1>2
  <2> DEFINE next(b, j) == SwapStbrett(b, list[2 * j - 1], list[2 * j])
             h == [j \in 0 .. n + 1 |-> IF j = n + 1 THEN next(g[n], j) ELSE g[j]]
  <2>2. \A j \in 0 .. n : g[j] = IF j = 0 THEN Unplugged ELSE next(g[j - 1], j)
    BY <2>1 DEF Plugging
  <2> HIDE DEF next
  <2>3. ASSUME NEW j \in 0 .. n + 1
        PROVE  h[j] = IF j = 0 THEN Unplugged ELSE next(h[j - 1], j)
    <3>1. CASE j = n + 1
      <4>1. j # 0 /\ j - 1 = n /\ h[n] = g[n]
        BY <3>1
      <4> QED BY <3>1, <4>1
    <3>2. CASE j # n + 1
      <4>1. j \in 0 .. n /\ h[j] = g[j]
        BY <3>2
      <4>2. j # 0 => j - 1 \in 0 .. n /\ h[j - 1] = g[j - 1]
        BY <4>1
      <4> QED BY <2>2, <4>1, <4>2
    <3> QED BY <3>1, <3>2
  <2>4. h = [j \in 0 .. n + 1 |-> IF j = 0 THEN Unplugged ELSE next(h[j - 1], j)]
    BY <2>3
  <2> HIDE DEF h
  <2>5. Plugging(h, list, n + 1)
    BY <2>4 DEF Plugging, next
  <2> QED BY <2>5
<1> HIDE DEF S
<1>3. k \in S
  BY <1>1, <1>2, InductionOnNat
<1> QED BY <1>3 DEF S

\* set_stecker returns the last board of its loop.
LEMMA LastPlugged ==
  ASSUME NEW list, NEW k \in Nat, Len(list) \div 2 = k
  PROVE  \E g : Plugging(g, list, k) /\ set_stecker(list) = g[k]
<1> DEFINE g == CHOOSE g : Plugging(g, list, k)
<1>1. Plugging(g, list, k)
  BY PluggingExists
<1>2. set_stecker(list) = (CHOOSE h : Plugging(h, list, k))[k]
  BY DEF set_stecker, Plugging
<1> QED BY <1>1, <1>2

\* What one turn of the loop makes of the board
LEMMA PluggedNext ==
  ASSUME NEW list, NEW k \in Nat, NEW g, Plugging(g, list, k), NEW n \in 0 .. k - 1
  PROVE  g[n + 1] = SwapStbrett(g[n], list[2 * n + 1], list[2 * n + 2])
<1>1. n + 1 \in 0 .. k /\ n + 1 # 0 /\ (n + 1) - 1 = n
      /\ 2 * (n + 1) - 1 = 2 * n + 1 /\ 2 * (n + 1) = 2 * n + 2
  OBVIOUS
<1>2. g[n + 1] = SwapStbrett(g[(n + 1) - 1], list[2 * (n + 1) - 1], list[2 * (n + 1)])
  BY <1>1 DEF Plugging
<1> QED BY <1>1, <1>2

\* Of the list a turn of the loop plugs two letters that no other takes.
LEMMA PluggedInTurn ==
  ASSUME NEW list \in Seq(Letters), PlugsAccepted(list),
         NEW k \in Nat, Len(list) = 2 * k, NEW g, Plugging(g, list, k)
  PROVE  \A n \in 0 .. k :
            /\ g[n] \in Involutions
            /\ \A m \in 2 * n + 1 .. 2 * k : g[n][list[m]] = list[m]
<1> DEFINE Free(n) == \A m \in 2 * n + 1 .. 2 * k : g[n][list[m]] = list[m]
           S == {n \in 0 .. k : g[n] \in Involutions /\ Free(n)}
<1>1. \A m \in 1 .. 2 * k : list[m] \in Letters
  OBVIOUS
<1>2. \A m, n \in 1 .. 2 * k : m # n => list[m] # list[n]
  BY DEF PlugsAccepted
<1>3. 0 \in S
  <2>1. g[0] = Unplugged
    BY DEF Plugging
  <2>2. \A a \in Letters : Unplugged[a] = a
    BY DEF Unplugged
  <2>3. Unplugged \in Involutions
    BY <2>2 DEF Involutions, Board, Unplugged
  <2>4. \A m \in 2 * 0 + 1 .. 2 * k : m \in 1 .. 2 * k
    OBVIOUS
  <2>5. Free(0)
    BY <1>1, <2>1, <2>2, <2>4
  <2> QED BY <2>1, <2>3, <2>5
<1>4. ASSUME NEW n \in 0 .. k - 1, n \in S PROVE n + 1 \in S
  <2>1. PICK i : i = list[2 * n + 1]
    OBVIOUS
  <2>2. PICK j : j = list[2 * n + 2]
    OBVIOUS
  <2>3. 2 * n + 1 \in 1 .. 2 * k /\ 2 * n + 2 \in 1 .. 2 * k /\ 2 * n + 1 # 2 * n + 2
        /\ 2 * n + 1 \in 2 * n + 1 .. 2 * k /\ 2 * n + 2 \in 2 * n + 1 .. 2 * k
        /\ n + 1 \in 0 .. k
    OBVIOUS
  <2>4. i \in Letters /\ j \in Letters /\ i # j
    BY <1>1, <1>2, <2>1, <2>2, <2>3
  <2>5. g[n] \in Involutions /\ Free(n)
    BY <1>4
  <2>6. g[n][i] = i /\ g[n][j] = j
    BY <2>1, <2>2, <2>3, <2>5
  <2>7. g[n + 1] = SwapStbrett(g[n], i, j)
    BY <2>1, <2>2, PluggedNext
  <2>8. g[n + 1] \in Involutions /\ \A a \in Letters \ {i, j} : g[n + 1][a] = g[n][a]
    BY <2>4, <2>5, <2>6, <2>7, PlugIn
  <2>9. ASSUME NEW m \in 2 * (n + 1) + 1 .. 2 * k PROVE g[n + 1][list[m]] = list[m]
    <3>1. m \in 1 .. 2 * k /\ m # 2 * n + 1 /\ m # 2 * n + 2 /\ m \in 2 * n + 1 .. 2 * k
      OBVIOUS
    <3>2. list[m] \in Letters \ {i, j}
      BY <1>1, <1>2, <2>1, <2>2, <2>3, <3>1
    <3> QED BY <2>5, <2>8, <3>1, <3>2
  <2> QED BY <2>3, <2>8, <2>9
<1> HIDE DEF S
<1>5. 0 .. k \subseteq S
  BY <1>3, <1>4, InductionUpTo
<1> QED BY <1>5 DEF S

\* Whatever list set_stecker takes, it makes a plugboard of it.
LEMMA ListGivesPlugboard ==
  ASSUME NEW list \in Seq(Letters), PlugsAccepted(list)
  PROVE  set_stecker(list) \in Involutions
<1>1. PICK k : k = Len(list) \div 2
  OBVIOUS
<1>2. PICK l \in Nat : l = Len(list)
  OBVIOUS
<1>3. l % 2 = 0
  BY <1>2 DEF PlugsAccepted
<1>4. k \in Nat /\ l = 2 * k
  BY <1>1, <1>2, <1>3
<1>5. PICK g : Plugging(g, list, k) /\ set_stecker(list) = g[k]
  BY <1>1, <1>4, LastPlugged
<1>6. k \in 0 .. k /\ Len(list) = 2 * k
  BY <1>2, <1>4
<1>7. g[k] \in Involutions
  BY <1>4, <1>5, <1>6, PluggedInTurn
<1> QED BY <1>5, <1>7

\* The list drawn from a board has every letter at one place only.
LEMMA ListedOnce ==
  ASSUME NEW b \in Involutions
  PROVE  LET plugs == get_stecker(b)
         IN \A m, n \in Letters : m # n => plugs.sf[m] # plugs.sf[n]
<1> DEFINE sf == get_stecker(b).sf
<1>1. sf \in [Letters -> Letters] /\ {sf[n] : n \in Letters} = Letters
  BY ListDescribesBoard DEF Board
<1> HIDE DEF sf
<1>2. sf \in Surjection(Letters, Letters)
  BY <1>1 DEF Surjection
<1>3. sf \in Injection(Letters, Letters)
  <2>1. IsFiniteSet(Letters) /\ Cardinality(Letters) = Cardinality(Letters)
    BY LettersFinite
  <2> QED BY <1>2, <2>1, FS_SurjSameCardinalityImpliesInj, Zenon
<1>4. \A m, n \in Letters : m # n => sf[m] # sf[n]
  BY <1>3, Fun_InjectionProperties
<1> QED BY <1>4 DEF sf

\* What get_stecker lists and print_state prints is taken, and plugged again
\* it is the board it was drawn from.
THEOREM PlugsRoundTrip ==
  ASSUME NEW b \in Involutions
  PROVE  LET list == PlugList(get_stecker(b))
         IN /\ list \in Seq(Letters) /\ Len(list) <= N
            /\ PlugsAccepted(list) /\ set_stecker(list) = b
<1> DEFINE plugs == get_stecker(b)
           list  == PlugList(plugs)
           sf    == plugs.sf
<1>1. /\ sf \in Board /\ plugs.count \in 0 .. N /\ plugs.count % 2 = 0
      /\ \A n \in 0 .. plugs.count - 1 :
            b[sf[n]] = sf[IF n % 2 = 0 THEN n + 1 ELSE n - 1]
      /\ \A n \in 0 .. plugs.count - 1 : n \in Letters /\ b[sf[n]] # sf[n]
      /\ {sf[n] : n \in plugs.count .. N - 1} = alone(b)
      /\ {sf[n] : n \in Letters} = Letters
  BY ListDescribesBoard
<1>2. \A m, n \in Letters : m # n => sf[m] # sf[n]
  BY ListedOnce
<1>3. list = [n \in 1 .. plugs.count |-> sf[n - 1]]
  BY DEF PlugList
<1>4. b \in Board /\ \A a \in Letters : b[a] \in Letters /\ b[b[a]] = a
  BY Involution
<1> HIDE DEF plugs, list, sf
<1>5. PICK k : k = plugs.count \div 2
  OBVIOUS
<1>6. k \in Nat /\ plugs.count = 2 * k /\ N \in Nat /\ 2 * k <= N
  BY <1>1, <1>5, SteckerAssumption
<1>7. \A n \in 1 .. 2 * k : n - 1 \in Letters /\ list[n] = sf[n - 1] /\ list[n] \in Letters
  <2> SUFFICES ASSUME NEW n \in 1 .. 2 * k
               PROVE  n - 1 \in Letters /\ list[n] = sf[n - 1] /\ list[n] \in Letters
    OBVIOUS
  <2>1. n - 1 \in 0 .. plugs.count - 1
    BY <1>6
  <2>2. n - 1 \in Letters
    BY <1>1, <2>1
  <2>3. list[n] = sf[n - 1]
    BY <1>3, <1>6
  <2> QED BY <1>1, <2>2, <2>3 DEF Board
<1>8. list \in Seq(Letters) /\ Len(list) = 2 * k
  <2>1. list = [n \in 1 .. 2 * k |-> sf[n - 1]]
    BY <1>3, <1>6
  <2>2. list \in [1 .. 2 * k -> Letters]
    BY <1>7, <2>1
  <2> QED BY <1>6, <2>2
<1>9. \A m, n \in 1 .. 2 * k : m # n => list[m] # list[n]
  <2> SUFFICES ASSUME NEW m \in 1 .. 2 * k, NEW n \in 1 .. 2 * k, m # n
               PROVE  list[m] # list[n]
    OBVIOUS
  <2>1. m - 1 # n - 1
    OBVIOUS
  <2> QED BY <1>2, <1>7, <2>1
<1>10. PlugsAccepted(list)
  <2>1. (2 * k) % 2 = 0
    BY <1>6
  <2> QED BY <1>8, <1>9, <2>1 DEF PlugsAccepted
<1>11. (2 * k) \div 2 = k
  BY <1>6
<1>12. PICK g : Plugging(g, list, k) /\ set_stecker(list) = g[k]
  BY <1>6, <1>8, <1>11, LastPlugged
<1> DEFINE Plugged(n) == {list[m] : m \in 1 .. 2 * n}
           S == {n \in 0 .. k : /\ g[n] \in Board
                                /\ \A a \in Letters : g[n][a] = IF a \in Plugged(n) THEN b[a] ELSE a}
<1>13. 0 \in S
  <2>1. g[0] = Unplugged
    BY <1>6, <1>12 DEF Plugging
  <2>2. Plugged(0) = {}
    OBVIOUS
  <2>3. \A a \in Letters : Unplugged[a] = a
    BY DEF Unplugged
  <2>4. Unplugged \in Board
    BY DEF Board, Unplugged
  <2> QED BY <1>6, <2>1, <2>2, <2>3, <2>4
<1>14. ASSUME NEW n \in 0 .. k - 1, n \in S PROVE n + 1 \in S
  <2>1. PICK i : i = list[2 * n + 1]
    OBVIOUS
  <2>2. PICK j : j = list[2 * n + 2]
    OBVIOUS
  <2>3. 2 * n + 1 \in 1 .. 2 * k /\ 2 * n + 2 \in 1 .. 2 * k /\ n + 1 \in 0 .. k
        /\ (2 * n + 1) - 1 = 2 * n /\ (2 * n + 2) - 1 = 2 * n + 1
        /\ (2 * n) % 2 = 0 /\ (2 * n + 1) % 2 = 1
        /\ 2 * n \in 0 .. 2 * k - 1 /\ 2 * n + 1 \in 0 .. 2 * k - 1
    BY <1>6
  <2>4. i = sf[2 * n] /\ j = sf[2 * n + 1] /\ i \in Letters /\ j \in Letters
    BY <1>7, <2>1, <2>2, <2>3
  <2>5. b[i] = j /\ b[j] = i
    <3>1. b[sf[2 * n]] = sf[2 * n + 1]
      BY <1>1, <1>6, <2>3
    <3> QED BY <1>4, <2>4, <3>1
  <2>6. i # j /\ i \notin Plugged(n) /\ j \notin Plugged(n)
    <3>1. 2 * n + 1 # 2 * n + 2
          /\ \A m \in 1 .. 2 * n : m \in 1 .. 2 * k /\ m # 2 * n + 1 /\ m # 2 * n + 2
      BY <1>6
    <3> QED BY <1>9, <2>1, <2>2, <2>3, <3>1
  <2>7. Plugged(n + 1) = Plugged(n) \cup {i, j}
    <3>1. \A m \in 1 .. 2 * (n + 1) : m \in 1 .. 2 * n \/ m = 2 * n + 1 \/ m = 2 * n + 2
      OBVIOUS
    <3>2. \A m \in 1 .. 2 * n : m \in 1 .. 2 * (n + 1)
      OBVIOUS
    <3>3. 2 * n + 1 \in 1 .. 2 * (n + 1) /\ 2 * n + 2 \in 1 .. 2 * (n + 1)
      OBVIOUS
    <3> QED BY <2>1, <2>2, <3>1, <3>2, <3>3
  <2>8. g[n] \in Board /\ \A a \in Letters : g[n][a] = IF a \in Plugged(n) THEN b[a] ELSE a
    BY <1>14
  <2>9. g[n + 1] = SwapStbrett(g[n], i, j)
    BY <1>6, <1>12, <2>1, <2>2, PluggedNext
  <2>10. /\ g[n + 1] \in Board /\ g[n + 1][i] = g[n][j] /\ g[n + 1][j] = g[n][i]
         /\ \A a \in Letters \ {i, j} : g[n + 1][a] = g[n][a]
    <3>1. PICK c : c = g[n]
      OBVIOUS
    <3>2. c \in Board /\ g[n + 1] = SwapStbrett(c, i, j)
      BY <2>8, <2>9, <3>1
    <3>3. /\ SwapStbrett(c, i, j) \in Board
          /\ SwapStbrett(c, i, j)[i] = c[j] /\ SwapStbrett(c, i, j)[j] = c[i]
          /\ \A a \in Letters \ {i, j} : SwapStbrett(c, i, j)[a] = c[a]
      <4>1. i \in Letters /\ j \in Letters /\ c \in Board
        BY <2>4, <3>2
      <4> QED BY <4>1, SwapEntries, ZenonT(40)
    <3> QED BY <3>1, <3>2, <3>3
  <2>11. g[n][i] = i /\ g[n][j] = j
    BY <2>4, <2>6, <2>8
  <2> HIDE DEF Plugged
  <2>12. ASSUME NEW a \in Letters
         PROVE  g[n + 1][a] = IF a \in Plugged(n + 1) THEN b[a] ELSE a
    BY <2>5, <2>7, <2>8, <2>10, <2>11
  <2> QED BY <2>3, <2>10, <2>12
<1> HIDE DEF S
<1>15. k \in S
  <2>1. 0 .. k \subseteq S
    BY <1>6, <1>13, <1>14, InductionUpTo
  <2> QED BY <1>6, <2>1
<1>16. g[k] \in Board /\ \A a \in Letters : g[k][a] = IF a \in Plugged(k) THEN b[a] ELSE a
  BY <1>15 DEF S
<1>17. \A a \in Letters : a \notin Plugged(k) => b[a] = a
  <2> SUFFICES ASSUME NEW a \in Letters, b[a] # a PROVE a \in Plugged(k)
    OBVIOUS
  <2>1. PICK n \in Letters : a = sf[n]
    BY <1>1
  <2>2. a \notin alone(b)
    BY DEF alone
  <2>3. n \notin plugs.count .. N - 1
    BY <1>1, <2>1, <2>2
  <2>4. n \in 0 .. N - 1
    BY DEF Letters
  <2>5. n + 1 \in 1 .. 2 * k /\ (n + 1) - 1 = n
    BY <1>6, <2>3, <2>4
  <2>6. list[n + 1] = a
    BY <1>7, <2>1, <2>5
  <2> QED BY <2>5, <2>6
<1> HIDE DEF Plugged
<1>18. \A a \in Letters : g[k][a] = b[a]
  BY <1>16, <1>17
<1>19. g[k] = b
  BY <1>4, <1>16, <1>18 DEF Board
<1> QED BY <1>6, <1>8, <1>10, <1>12, <1>19 DEF plugs, list, sf

-----------------------------------------------------------------------------
(* set_key, for whatever stands in the file.                               *)

KeyField(text) ==
  text.walze \in Seq(Int) /\ text.ring \in Seq(Letter) /\ text.mesg \in Seq(Letter)

NoZero(text) == \A i \in 1 .. 3 : text.walze[i] # 0

\* The places of a sequence hold what it is a sequence of.
LEMMA Places ==
  ASSUME NEW S, NEW s \in Seq(S), NEW i \in 1 .. Len(s)
  PROVE  s[i] \in S
  OBVIOUS

\* Four letters are a setting of the wheels.
LEMMA RecordOfLetters ==
  ASSUME NEW a \in Letter, NEW b \in Letter, NEW c \in Letter, NEW d \in Letter
  PROVE  [g |-> a, l |-> b, m |-> c, r |-> d] \in [g : Letter, l : Letter, m : Letter, r : Letter]
  OBVIOUS

\* Of a letter that is taken for a reflector only one can be meant.
LEMMA UkwRead ==
  ASSUME NEW model \in Models, NEW letter, set_ukw(letter, model) # {}
  PROVE  (CHOOSE u \in set_ukw(letter, model) : TRUE) \in Ukw(model)
<1>1. \E u \in Ukw(model) : set_ukw(letter, model) = {u}
  <2>1. CASE model = "H"
    BY <2>1, SMT DEF set_ukw, Ukw
  <2>2. CASE model = "M3"
    BY <2>2, SMT DEF set_ukw, Ukw
  <2>3. CASE model = "M4"
    BY <2>3, SMT DEF set_ukw, Ukw
  <2> QED BY <2>1, <2>2, <2>3 DEF Models
<1>2. PICK u \in Ukw(model) : set_ukw(letter, model) = {u}
  BY <1>1
<1>3. (CHOOSE v \in {u} : TRUE) = u
  OBVIOUS
<1> QED BY <1>2, <1>3

\* The wheels that are taken are numbered as in the machine, or zero.
LEMMA WheelsRead ==
  ASSUME NEW model \in Models, NEW text, KeyField(text), Len(text.walze) = 3,
         WalzeAccepted(text, model)
  PROVE  LET s == set_walze(text, model)
         IN /\ s \in [g : Greek(model), l : WheelRead(model), m : WheelRead(model),
                      r : WheelRead(model)]
            /\ s.l = text.walze[1] /\ s.m = text.walze[2] /\ s.r = text.walze[3]
            /\ s.l # s.m /\ s.l # s.r /\ s.m # s.r
            /\ NoZero(text) => s.l \in Wheel(model) /\ s.m \in Wheel(model) /\ s.r \in Wheel(model)
<1> DEFINE s == set_walze(text, model)
           g == IF model # "M4" THEN NoWheel ELSE IF text.greek = "B" THEN Beta ELSE Gamma
<1>1. s = [g |-> g, l |-> text.walze[1], m |-> text.walze[2], r |-> text.walze[3]]
  BY DEF set_walze
<1>2. g \in Greek(model)
  BY DEF Greek
<1>3. 1 \in 1 .. 3 /\ 2 \in 1 .. 3 /\ 3 \in 1 .. 3 /\ 1 # 2 /\ 1 # 3 /\ 2 # 3
  OBVIOUS
<1>4. \A i \in 1 .. 3 : text.walze[i] \in Int
  <2>1. PICK w : w = text.walze
    OBVIOUS
  <2>2. w \in Seq(Int) /\ Len(w) = 3
    BY <2>1 DEF KeyField
  <2>3. \A i \in 1 .. 3 : w[i] \in Int
    BY <2>2, Places, Zenon
  <2> QED BY <2>1, <2>3
<1>5. \A i \in 1 .. 3 : /\ text.walze[i] \in WheelRead(model)
                        /\ text.walze[i] # 0 => text.walze[i] \in Wheel(model)
  <2> SUFFICES ASSUME NEW i \in 1 .. 3, NEW w, w = text.walze[i]
               PROVE  w \in WheelRead(model) /\ (w # 0 => w \in Wheel(model))
    OBVIOUS
  <2>1. w \in Int /\ 0 <= w /\ w <= (IF model = "H" THEN 5 ELSE 8)
    BY <1>4 DEF WalzeAccepted
  <2> QED BY <2>1 DEF WheelRead, Wheel
<1>6. /\ text.walze[1] # text.walze[2] /\ text.walze[1] # text.walze[3]
      /\ text.walze[2] # text.walze[3]
  BY <1>3 DEF WalzeAccepted
<1> HIDE DEF g
<1>7. \A i \in 1 .. 3 : NoZero(text) => text.walze[i] \in Wheel(model)
  BY <1>5 DEF NoZero
<1> HIDE DEF s
<1>8. s \in [g : Greek(model), l : WheelRead(model), m : WheelRead(model),
             r : WheelRead(model)]
  BY <1>1, <1>2, <1>3, <1>5, Zenon
<1>9. s.l = text.walze[1] /\ s.m = text.walze[2] /\ s.r = text.walze[3]
  BY <1>1
<1>10. s.l # s.m /\ s.l # s.r /\ s.m # s.r
  BY <1>6, <1>9
<1>11. NoZero(text) => s.l \in Wheel(model) /\ s.m \in Wheel(model) /\ s.r \in Wheel(model)
  BY <1>3, <1>7, <1>9
<1> QED BY <1>8, <1>9, <1>10, <1>11 DEF s

\* The settings that are taken are letters.
LEMMA SettingRead ==
  ASSUME NEW model \in Models, NEW text, KeyField(text), Shaped(text, model)
  PROVE  /\ set_RingsState(text.mesg) \in [g : Letter, l : Letter, m : Letter, r : Letter]
         /\ model # "M4" => set_RingsState(text.mesg).g = 0
         /\ text.ring[1] \in Letter /\ text.ring[2] \in Letter
<1>1. PICK s : s = text.mesg
  OBVIOUS
<1>2. PICK t : t = text.ring
  OBVIOUS
<1>3. s \in Seq(Letter) /\ t \in Seq(Letter) /\ Len(t) = 2
      /\ (IF model = "M4" THEN Len(s) = 4 ELSE Len(s) = 3)
  BY <1>1, <1>2 DEF KeyField, Shaped
<1>4. t[1] \in Letter /\ t[2] \in Letter
  <2>1. t \in Seq(Letter) /\ 1 \in 1 .. Len(t) /\ 2 \in 1 .. Len(t)
    BY <1>3
  <2> QED BY <2>1, Places, Zenon
<1>5. 0 \in Letter
  BY DEF Letter
<1>6. set_RingsState(s) =
        [g |-> IF Len(s) = 4 THEN s[1] ELSE 0,
         l |-> s[Len(s) - 2], m |-> s[Len(s) - 1], r |-> s[Len(s)]]
  BY DEF set_RingsState
<1>7. CASE model = "M4"
  <2>0. Len(s) = 4
    BY <1>3, <1>7
  <2>1. s[1] \in Letter /\ s[2] \in Letter /\ s[3] \in Letter /\ s[4] \in Letter
        /\ Len(s) = 4
    <3>1. s \in Seq(Letter) /\ \A i \in {1, 2, 3, 4} : i \in 1 .. Len(s)
      BY <1>3, <2>0
    <3> QED BY <2>0, <3>1, Places, Zenon
  <2>2. Len(s) - 2 = 2 /\ Len(s) - 1 = 3
    BY <2>1
  <2>3. set_RingsState(s) = [g |-> s[1], l |-> s[2], m |-> s[3], r |-> s[4]]
    BY <1>6, <2>1, <2>2
  <2>4. set_RingsState(s) \in [g : Letter, l : Letter, m : Letter, r : Letter]
    BY <2>1, <2>3, RecordOfLetters, Zenon
  <2> QED BY <1>1, <1>2, <1>4, <1>7, <2>4
<1>8. CASE model # "M4"
  <2>0. s \in Seq(Letter) /\ Len(s) = 3 /\ \A i \in {1, 2, 3} : i \in 1 .. Len(s)
    BY <1>3, <1>8
  <2>1. s[1] \in Letter /\ s[2] \in Letter /\ s[3] \in Letter /\ Len(s) = 3
    BY <2>0, Places, Zenon
  <2>2. Len(s) - 2 = 1 /\ Len(s) - 1 = 2 /\ Len(s) # 4
    BY <2>1
  <2>3. set_RingsState(s) = [g |-> 0, l |-> s[1], m |-> s[2], r |-> s[3]]
    BY <1>6, <2>1, <2>2
  <2>4. set_RingsState(s) \in [g : Letter, l : Letter, m : Letter, r : Letter]
    BY <1>5, <2>1, <2>3, RecordOfLetters, Zenon
  <2>5. set_RingsState(s).g = 0
    BY <2>3
  <2> QED BY <1>1, <1>2, <1>4, <2>4, <2>5
<1> QED BY <1>7, <1>8

\* set_key makes a key of every text it takes, one the search can start from
\* unless the text has a zero for a wheel.
THEOREM AcceptedIsKey ==
  ASSUME NEW model \in Models, NEW text, KeyField(text), Accepted(text, model)
  PROVE  LET k == set_key(text, model)
         IN /\ k \in KeyRead(model) /\ Legible(k)
            /\ NoZero(text) => k \in KeyOf(model) /\ Admissible(k)
<1> DEFINE k == set_key(text, model)
           u == CHOOSE u \in set_ukw(text.ukw, model) : TRUE
           s == set_walze(text, model)
           ring == [m |-> text.ring[1], r |-> text.ring[2]]
           mesg == set_RingsState(text.mesg)
<1>1. /\ Shaped(text, model) /\ set_ukw(text.ukw, model) # {}
      /\ WalzeAccepted(text, model) /\ Len(text.walze) = 3
      /\ ~ RingShortcut(text.walze[2], text.ring[1])
      /\ ~ RingShortcut(text.walze[3], text.ring[2])
  BY DEF Accepted, Shaped
<1>2. k = [model |-> model, ukw |-> u, slot |-> s, ring |-> ring, mesg |-> mesg]
  <2>1. k = [init_key_low(model) EXCEPT !.ukw = u, !.slot = s, !.ring = ring, !.mesg = mesg]
    BY DEF set_key
  <2> HIDE DEF k, u, s, ring, mesg
  <2> QED BY <2>1 DEF init_key_low
<1>3. u \in Ukw(model)
  BY <1>1, UkwRead
<1>4. /\ s \in [g : Greek(model), l : WheelRead(model), m : WheelRead(model),
                r : WheelRead(model)]
      /\ s.m = text.walze[2] /\ s.r = text.walze[3]
      /\ s.l # s.m /\ s.l # s.r /\ s.m # s.r
      /\ NoZero(text) => s.l \in Wheel(model) /\ s.m \in Wheel(model) /\ s.r \in Wheel(model)
  BY <1>1, WheelsRead
<1>5. /\ mesg \in [g : Letter, l : Letter, m : Letter, r : Letter]
      /\ model # "M4" => mesg.g = 0
      /\ text.ring[1] \in Letter /\ text.ring[2] \in Letter
  BY <1>1, SettingRead
<1>6. ring \in [m : Letter, r : Letter]
  BY <1>5
<1>7. ring.m < RingLimit(s.m) /\ ring.r < RingLimit(s.r)
  <2>1. \A w, l : w \in WheelRead(model) /\ l \in Letter /\ ~ RingShortcut(w, l)
                    => l < RingLimit(w)
    BY DEF WheelRead, Wheel, Letter, RingShortcut, RingLimit
  <2>2. s.m \in WheelRead(model) /\ s.r \in WheelRead(model)
    BY <1>4
  <2> QED BY <1>1, <1>4, <1>5, <2>1, <2>2
<1> HIDE DEF k, u, s, ring, mesg
<1>8. /\ k.model = model /\ k.slot = s /\ k.ring = ring /\ k.mesg = mesg
  BY <1>2
<1>9. k \in KeyRead(model)
  BY <1>2, <1>3, <1>4, <1>5, <1>6, Zenon DEF KeyRead
<1>10. Legible(k)
  BY <1>4, <1>5, <1>7, <1>8, <1>9 DEF Legible
<1>11. ASSUME NoZero(text) PROVE k \in KeyOf(model) /\ Admissible(k)
  <2>1. s \in [g : Greek(model), l : Wheel(model), m : Wheel(model), r : Wheel(model)]
    BY <1>4, <1>11, Zenon
  <2>2. k \in KeyOf(model)
    BY <1>2, <1>3, <1>5, <1>6, <2>1, Zenon DEF KeyOf
  <2> QED BY <1>8, <1>10, <2>2 DEF Legible, Admissible
<1> QED BY <1>9, <1>10, <1>11 DEF k

-----------------------------------------------------------------------------
(* What is saved and what is resumed.                                      *)

\* What a search resumed from any file is: searchable, but for a zero in the
\* place of a wheel.
ReadState(model) ==
  [from : KeyRead(model), to : KeyRead(model), ckey : KeyRead(model), gkey : KeyRead(model),
   sw_mode : SwModes, pass : 0 .. MAX_SCORE, firstpass : BOOLEAN,
   stbrett : Involutions, plugs : [sf : Board, count : 0 .. N], score : 0 .. MAX_SCORE]

KeysOf(s) == {s.from, s.to, s.ckey, s.gkey}

Resumable(s) ==
  /\ \E model \in Models : s \in ReadState(model)
  /\ \A key \in KeysOf(s) : Legible(key)
  /\ ~ keycmp_greater(s.from, s.ckey)
  /\ ~ keycmp_greater(s.ckey, s.to)
  /\ s.plugs = get_stecker(s.stbrett)

NoZeroWheel(s) ==
  \A key \in KeysOf(s) : key.slot.l # 0 /\ key.slot.m # 0 /\ key.slot.r # 0

\* What the search has of a state
LEMMA StateParts ==
  ASSUME NEW model \in Models, NEW s \in ReadState(model)
  PROVE  /\ s.from \in KeyRead(model) /\ s.to \in KeyRead(model)
         /\ s.ckey \in KeyRead(model) /\ s.gkey \in KeyRead(model)
         /\ s.from.model = model /\ s.to.model = model
         /\ s.ckey.model = model /\ s.gkey.model = model
         /\ s.sw_mode \in SwModes /\ s.pass \in 0 .. MAX_SCORE /\ s.firstpass \in BOOLEAN
         /\ s.stbrett \in Involutions /\ s.plugs \in [sf : Board, count : 0 .. N]
         /\ s.score \in 0 .. MAX_SCORE
         /\ s = [from |-> s.from, to |-> s.to, ckey |-> s.ckey, gkey |-> s.gkey,
                 sw_mode |-> s.sw_mode, pass |-> s.pass, firstpass |-> s.firstpass,
                 stbrett |-> s.stbrett, plugs |-> s.plugs, score |-> s.score]
<1>1. \A k \in KeyRead(model) : k.model = model
  BY DEF KeyRead
<1> QED BY <1>1, Zenon DEF ReadState

\* ... and that a state with the keys of a search is one of a search
LEMMA StateOfParts ==
  ASSUME NEW model, NEW from \in KeyOf(model), NEW to \in KeyOf(model),
         NEW ckey \in KeyOf(model), NEW gkey \in KeyOf(model),
         NEW sw_mode \in SwModes, NEW pass \in 0 .. MAX_SCORE, NEW firstpass \in BOOLEAN,
         NEW stbrett \in Involutions, NEW plugs \in [sf : Board, count : 0 .. N],
         NEW score \in 0 .. MAX_SCORE
  PROVE  [from |-> from, to |-> to, ckey |-> ckey, gkey |-> gkey,
          sw_mode |-> sw_mode, pass |-> pass, firstpass |-> firstpass,
          stbrett |-> stbrett, plugs |-> plugs, score |-> score] \in StateOf(model)
  BY Zenon DEF StateOf

\* Searchable and resumable differ in a wheel zero only.
LEMMA SearchableIsResumable ==
  ASSUME NEW s
  PROVE  Searchable(s) <=> Resumable(s) /\ NoZeroWheel(s)
<1>1. ASSUME Searchable(s) PROVE Resumable(s) /\ NoZeroWheel(s)
  <2>1. PICK model \in Models : s \in StateOf(model)
    BY <1>1 DEF Searchable
  <2>2. \A k \in KeyOf(model) : /\ k \in KeyRead(model)
                                /\ Admissible(k) => Legible(k)
                                /\ k.slot.l # 0 /\ k.slot.m # 0 /\ k.slot.r # 0
    <3>1. \A k \in KeyOf(model) : /\ k.slot.l \in Wheel(model) /\ k.slot.m \in Wheel(model)
                                  /\ k.slot.r \in Wheel(model)
      BY Zenon DEF KeyOf
    <3>2. 0 \notin Wheel(model)
      BY DEF Wheel
    <3> QED BY <2>1, <3>1, <3>2, SearchedIsLegible, Zenon
  <2>3. /\ s.from \in KeyOf(model) /\ s.to \in KeyOf(model)
        /\ s.ckey \in KeyOf(model) /\ s.gkey \in KeyOf(model)
    BY <2>1, Zenon DEF StateOf
  <2>4. s \in ReadState(model)
    BY <2>1, <2>2, Zenon DEF StateOf, ReadState
  <2>5. \A key \in KeysOf(s) : key \in KeyOf(model) /\ Admissible(key)
    BY <1>1, <2>3 DEF KeysOf, Searchable
  <2> QED BY <1>1, <2>2, <2>4, <2>5 DEF Resumable, NoZeroWheel, Searchable
<1>2. ASSUME Resumable(s), NoZeroWheel(s) PROVE Searchable(s)
  <2>1. PICK model \in Models : s \in ReadState(model)
    BY <1>2 DEF Resumable
  <2>2. ASSUME NEW k \in KeyRead(model), k.slot.l # 0, k.slot.m # 0, k.slot.r # 0, Legible(k)
        PROVE  k \in KeyOf(model) /\ Admissible(k)
    <3>1. k.slot \in [g : Greek(model), l : Wheel(model), m : Wheel(model), r : Wheel(model)]
      BY <2>2, Zenon DEF KeyRead, WheelRead
    <3>2. k \in KeyOf(model)
      BY <3>1, Zenon DEF KeyRead, KeyOf
    <3>3. k.model = model
      BY DEF KeyRead
    <3> QED BY <2>2, <3>2, <3>3 DEF Legible, Admissible
  <2>3. \A key \in KeysOf(s) : key \in KeyOf(model) /\ Admissible(key)
    <3>1. \A key \in KeysOf(s) : key \in KeyRead(model)
      BY <2>1, StateParts DEF KeysOf
    <3> QED BY <1>2, <2>2, <3>1 DEF Resumable, NoZeroWheel
  <2>4. s \in StateOf(model)
    <3>1. /\ s.from \in KeyOf(model) /\ s.to \in KeyOf(model)
          /\ s.ckey \in KeyOf(model) /\ s.gkey \in KeyOf(model)
      BY <2>3 DEF KeysOf
    <3>2. /\ s.sw_mode \in SwModes /\ s.pass \in 0 .. MAX_SCORE /\ s.firstpass \in BOOLEAN
          /\ s.stbrett \in Involutions /\ s.plugs \in [sf : Board, count : 0 .. N]
          /\ s.score \in 0 .. MAX_SCORE
      BY <2>1, StateParts
    <3>3. s = [from |-> s.from, to |-> s.to, ckey |-> s.ckey, gkey |-> s.gkey,
               sw_mode |-> s.sw_mode, pass |-> s.pass, firstpass |-> s.firstpass,
               stbrett |-> s.stbrett, plugs |-> s.plugs, score |-> s.score]
      BY <2>1, StateParts
    <3> QED BY <3>1, <3>2, <3>3, StateOfParts
  <2> QED BY <1>2, <2>1, <2>3, <2>4 DEF Resumable, Searchable, KeysOf
<1> QED BY <1>1, <1>2

-----------------------------------------------------------------------------
(* The fields of a file.                                                   *)

NumberField(f) == f \in [value : Int, clean : BOOLEAN]

\* What may stand in the n-th field
Field(n, f) ==
  /\ n \in {1, 9} => f \in Models
  /\ n \in {2, 3, 4, 10} => KeyField(f)
  /\ n \in 5 .. 8 \cup {12} => NumberField(f)
  /\ n = 11 => f \in Seq(Letters)

FileTyped ==
  /\ Len(file) \in 0 .. 12 /\ DOMAIN file = 1 .. Len(file)
  /\ \A n \in DOMAIN file : Field(n, file[n])

\* The search a file stands for, as set_state reads it
Restored ==
  [from      |-> set_key(file[2], file[1]),
   to        |-> set_key(file[3], file[1]),
   ckey      |-> set_key(file[4], file[1]),
   sw_mode   |-> file[5].value,
   pass      |-> scan_posint(file[6]),
   firstpass |-> file[7].value = 1,
   gkey      |-> set_key(file[10], file[1]),
   stbrett   |-> set_stecker(file[11]),
   plugs     |-> get_stecker(set_stecker(file[11])),
   score     |-> scan_posint(file[12])]

\* print_state writes twelve fields.
LEMMA TwelveFields ==
  ASSUME NEW s
  PROVE  LET f == Fields(s)
         IN /\ Len(f) = 12 /\ DOMAIN f = 1 .. 12
            /\ f[1] = s.from.model /\ f[2] = print_key_rings(s.from)
            /\ f[3] = print_key_rings(s.to) /\ f[4] = print_key_rings(s.ckey)
            /\ f[5] = Number(s.sw_mode) /\ f[6] = Number(s.pass)
            /\ f[7] = Number(IF s.firstpass THEN 1 ELSE 0)
            /\ f[8] = Number(MAX_SCORE) /\ f[9] = s.from.model
            /\ f[10] = print_key_rings(s.gkey) /\ f[11] = PlugList(s.plugs)
            /\ f[12] = Number(s.score)
  BY SMT DEF Fields

\* A number is printed in ten digits at most, and in one if it is less than ten.
LEMMA Widths ==
  ASSUME NEW n \in Nat
  PROVE  Width(n) \in 1 .. 10 /\ (n < 10 => Width(n) = 1)
<1> DEFINE S == {e \in 1 .. 9 : n >= PowerOfTen[e]}
<1>1. IsFiniteSet(1 .. 9) /\ Cardinality(1 .. 9) = 9
  <2>1. 1 \in Int /\ 9 \in Int /\ ~ (1 > 9) /\ 9 - 1 + 1 = 9
    OBVIOUS
  <2> QED BY <2>1, FS_Interval, Zenon
<1>2. S \subseteq 1 .. 9
  OBVIOUS
<1>3. Cardinality(S) \in Nat /\ Cardinality(S) <= 9
  BY <1>1, <1>2, FS_Subset, FS_CardinalityType
<1>4. ASSUME n < 10 PROVE S = {}
  <2>1. \A e \in 1 .. 9 : PowerOfTen[e] >= 10
    BY SMT DEF PowerOfTen
  <2>2. \A e \in 1 .. 9 : PowerOfTen[e] \in Int
    BY SMT DEF PowerOfTen
  <2> QED BY <1>4, <2>1, <2>2
<1>5. Width(n) = 1 + Cardinality(S)
  BY DEF Width
<1> HIDE DEF S
<1>6. n < 10 => Cardinality(S) = 0
  BY <1>4, FS_EmptySet
<1> QED BY <1>3, <1>5, <1>6

\* The text of a key holds what the text of a key may hold.
LEMMA PrintedKey ==
  ASSUME NEW model \in Models, NEW k \in KeyRead(model)
  PROVE  /\ KeyField(print_key_rings(k))
         /\ (k.slot.l # 0 /\ k.slot.m # 0 /\ k.slot.r # 0) => NoZero(print_key_rings(k))
<1> DEFINE text == print_key_rings(k)
<1>1. Parts(k, model)
  BY KeyParts
<1>2. /\ text.walze = << k.slot.l, k.slot.m, k.slot.r >>
      /\ text.ring = << k.ring.m, k.ring.r >>
      /\ text.mesg = (IF k.model = "M4" THEN << k.mesg.g >> ELSE << >>)
                       \o << k.mesg.l, k.mesg.m, k.mesg.r >>
  BY DEF print_key_rings, RingType_to_ALPHA
<1> HIDE DEF text
<1>3. k.slot.l \in Int /\ k.slot.m \in Int /\ k.slot.r \in Int
  BY <1>1, WheelNumbers DEF Parts
<1>4. text.walze \in Seq(Int) /\ (k.slot.l # 0 /\ k.slot.m # 0 /\ k.slot.r # 0 => NoZero(text))
  BY <1>2, <1>3, SMT DEF NoZero
<1>5. text.ring \in Seq(Letter)
  BY <1>1, <1>2, SMT DEF Parts
<1>6. << k.mesg.l, k.mesg.m, k.mesg.r >> \in Seq(Letter) /\ << k.mesg.g >> \in Seq(Letter)
      /\ << >> \in Seq(Letter)
  BY <1>1, SMT DEF Parts
<1>7. text.mesg \in Seq(Letter)
  BY <1>2, <1>6
<1> QED BY <1>4, <1>5, <1>7 DEF KeyField, text

\* The numbers in it are no more than the scores are.
LEMMA Numerals ==
  /\ MAX_SCORE \in Nat /\ INT_MAX = MAX_SCORE + 1
  /\ \A v \in 0 .. MAX_SCORE : v \in Nat /\ v \in Int
  /\ \A v \in SwModes \cup {0, 1} : v \in Nat /\ v \in Int /\ v < 10
<1>1. MAX_SCORE \in Nat
  BY SMT DEF MAX_SCORE
<1>2. INT_MAX = MAX_SCORE + 1
  BY SMT DEF MAX_SCORE, INT_MAX
<1>3. \A v \in 0 .. MAX_SCORE : v \in Nat /\ v \in Int
  BY <1>1
<1>4. \A v \in SwModes \cup {0, 1} : v \in Nat /\ v \in Int /\ v < 10
  BY SMT DEF SwModes
<1> QED BY <1>1, <1>2, <1>3, <1>4

\* What print_state writes is what may stand in the fields.
LEMMA SavedIsTyped ==
  ASSUME NEW s, Resumable(s), NEW n \in 1 .. 12
  PROVE  Field(n, Fields(s)[n])
<1>1. PICK model \in Models : s \in ReadState(model)
  BY DEF Resumable
<1>2. /\ s.from \in KeyRead(model) /\ s.to \in KeyRead(model)
      /\ s.ckey \in KeyRead(model) /\ s.gkey \in KeyRead(model)
      /\ s.from.model = model
      /\ s.sw_mode \in SwModes /\ s.pass \in 0 .. MAX_SCORE /\ s.firstpass \in BOOLEAN
      /\ s.stbrett \in Involutions /\ s.score \in 0 .. MAX_SCORE
  BY <1>1, StateParts
<1>3. \A v \in Int : NumberField(Number(v))
  BY DEF NumberField, Number
<1>4. s.sw_mode \in Int /\ s.pass \in Int /\ MAX_SCORE \in Int /\ s.score \in Int
  BY <1>2, Numerals
<1>5. (IF s.firstpass THEN 1 ELSE 0) \in Int
  OBVIOUS
<1>6. PlugList(s.plugs) \in Seq(Letters)
  BY <1>2, PlugsRoundTrip DEF Resumable
<1>7. \A k \in KeyRead(model) : KeyField(print_key_rings(k))
  BY PrintedKey
<1> DEFINE f == Fields(s)
<1>8. /\ f[1] \in Models /\ KeyField(f[2]) /\ KeyField(f[3]) /\ KeyField(f[4])
      /\ NumberField(f[5]) /\ NumberField(f[6]) /\ NumberField(f[7]) /\ NumberField(f[8])
      /\ f[9] \in Models /\ KeyField(f[10]) /\ f[11] \in Seq(Letters) /\ NumberField(f[12])
  BY <1>2, <1>3, <1>4, <1>5, <1>6, <1>7, TwelveFields, Zenon
<1> HIDE DEF f
<1>9. /\ n \in {1, 9} => f[n] \in Models
      /\ n \in {2, 3, 4, 10} => KeyField(f[n])
      /\ n \in 5 .. 8 \cup {12} => NumberField(f[n])
      /\ n = 11 => f[n] \in Seq(Letters)
  <2>1. \A m \in 5 .. 8 : m = 5 \/ m = 6 \/ m = 7 \/ m = 8
    OBVIOUS
  <2> QED BY <1>8, <2>1, Zenon
<1> QED BY <1>9 DEF Field, f

\* The lines of a search fit, however long its numbers and its plugs are.
LEMMA SavedFits ==
  ASSUME Resumable(search), DOMAIN file = 1 .. 12,
         \A n \in 1 .. 11 : file[n] = Fields(search)[n],
         file[12].value \in 0 .. MAX_SCORE
  PROVE  Line1Fits /\ Line2Fits
<1>1. PICK model \in Models : search \in ReadState(model)
  BY DEF Resumable
<1>2. /\ search.from.model = model /\ search.sw_mode \in SwModes
      /\ search.pass \in 0 .. MAX_SCORE /\ search.firstpass \in BOOLEAN
      /\ search.stbrett \in Involutions
  BY <1>1, StateParts
<1>3. \A m \in 1 .. 11 : file[m] = Fields(search)[m]
  OBVIOUS
<1>4. /\ 1 \in 1 .. 11 /\ 5 \in 1 .. 11 /\ 6 \in 1 .. 11 /\ 7 \in 1 .. 11 /\ 8 \in 1 .. 11
      /\ 9 \in 1 .. 11 /\ 11 \in 1 .. 11
  OBVIOUS
<1>5. /\ file[1] = model /\ file[9] = model
      /\ file[5] = Number(search.sw_mode) /\ file[6] = Number(search.pass)
      /\ file[7] = Number(IF search.firstpass THEN 1 ELSE 0)
      /\ file[8] = Number(MAX_SCORE) /\ file[11] = PlugList(search.plugs)
  BY <1>2, <1>3, <1>4, TwelveFields, Zenon
<1>6. /\ file[5].value \in SwModes /\ file[6].value \in 0 .. MAX_SCORE
      /\ file[7].value \in {0, 1} /\ file[8].value = MAX_SCORE
  BY <1>2, <1>5 DEF Number
<1>7. Len(file[11]) \in Nat /\ Len(file[11]) <= 26
  <2>1. PICK list : list = file[11]
    OBVIOUS
  <2>2. list \in Seq(Letters) /\ Len(list) <= N
    BY <1>2, <1>5, <2>1, PlugsRoundTrip DEF Resumable
  <2>3. Len(list) \in Nat
    BY <2>2
  <2>4. N <= 26 /\ N \in Nat
    BY SteckerAssumption, ResumeAssumption
  <2> QED BY <2>1, <2>2, <2>3, <2>4
<1>8. ModelWidth(model) \in 1 .. 2 /\ KeyWidth(model) \in 12 .. 14
  BY DEF ModelWidth, KeyWidth
<1>9. /\ Width(file[5].value) = 1 /\ Width(file[6].value) \in 1 .. 10
      /\ Width(file[7].value) = 1 /\ Width(file[8].value) \in 1 .. 10
      /\ Width(file[12].value) \in 1 .. 10
  <2>1. /\ file[5].value \in Nat /\ file[5].value < 10 /\ file[6].value \in Nat
        /\ file[7].value \in Nat /\ file[7].value < 10 /\ file[8].value \in Nat
        /\ file[12].value \in Nat
    BY <1>6, Numerals
  <2> QED BY <2>1, Widths
<1>10. PICK w5, w6, w7, w8, w12 :
          /\ w5 = Width(file[5].value) /\ w6 = Width(file[6].value)
          /\ w7 = Width(file[7].value) /\ w8 = Width(file[8].value)
          /\ w12 = Width(file[12].value)
  OBVIOUS
<1>11. PICK a, k, n : a = ModelWidth(model) /\ k = KeyWidth(model) /\ n = Len(file[11])
  OBVIOUS
<1>12. /\ w5 = 1 /\ w6 \in 1 .. 10 /\ w7 = 1 /\ w8 \in 1 .. 10 /\ w12 \in 1 .. 10
       /\ a \in 1 .. 2 /\ k \in 12 .. 14 /\ n \in Nat /\ n <= 26
  BY <1>7, <1>8, <1>9, <1>10, <1>11
<1>13. a + 3 * k + w5 + w6 + w7 + w8 + 7 + 1 < NLINE1 /\ a + k + n + w12 + 3 + 1 < NLINE2
  BY <1>12, SMT DEF NLINE1, NLINE2
<1> QED BY <1>5, <1>10, <1>11, <1>13 DEF Line1Fits, Line2Fits

\* What scan_posint makes of a number that is there in full
LEMMA NumberScanned ==
  ASSUME NEW v \in 0 .. MAX_SCORE
  PROVE  scan_posint(Number(v)) = v /\ scan_posint(Number(v)) # -1
<1>1. v \in Int /\ 0 <= v /\ v < INT_MAX
  BY Numerals
<1> QED BY <1>1 DEF scan_posint, Number

\* What is read of the fields of a search in front of the score is the search.
LEMMA FieldsRestored ==
  ASSUME Resumable(search), \A n \in 1 .. 11 : file[n] = Fields(search)[n]
  PROVE  Restored = [search EXCEPT !.score = scan_posint(file[12])]
<1>1. PICK model \in Models : search \in ReadState(model)
  BY DEF Resumable
<1>2. /\ search.from \in KeyRead(model) /\ search.to \in KeyRead(model)
      /\ search.ckey \in KeyRead(model) /\ search.gkey \in KeyRead(model)
      /\ search.from.model = model
      /\ search.sw_mode \in SwModes
      /\ search.pass \in 0 .. MAX_SCORE /\ search.firstpass \in BOOLEAN
      /\ search.stbrett \in Involutions
  BY <1>1, StateParts
<1>3. \A k \in {search.from, search.to, search.ckey, search.gkey} :
         set_key(print_key_rings(k), model) = k
  BY <1>2, KeyTextRoundTrip DEF Resumable, KeysOf
<1>4. /\ file[1] = model /\ file[2] = print_key_rings(search.from)
      /\ file[3] = print_key_rings(search.to) /\ file[4] = print_key_rings(search.ckey)
      /\ file[5] = Number(search.sw_mode) /\ file[6] = Number(search.pass)
      /\ file[7] = Number(IF search.firstpass THEN 1 ELSE 0)
      /\ file[10] = print_key_rings(search.gkey) /\ file[11] = PlugList(search.plugs)
  <2>1. \A n \in 1 .. 11 : file[n] = Fields(search)[n]
    OBVIOUS
  <2>2. /\ 1 \in 1 .. 11 /\ 2 \in 1 .. 11 /\ 3 \in 1 .. 11 /\ 4 \in 1 .. 11 /\ 5 \in 1 .. 11
        /\ 6 \in 1 .. 11 /\ 7 \in 1 .. 11 /\ 10 \in 1 .. 11 /\ 11 \in 1 .. 11
    OBVIOUS
  <2> QED BY <1>2, <2>1, <2>2, TwelveFields, Zenon
<1>5. /\ set_key(file[2], file[1]) = search.from /\ set_key(file[3], file[1]) = search.to
      /\ set_key(file[4], file[1]) = search.ckey /\ set_key(file[10], file[1]) = search.gkey
  BY <1>3, <1>4
<1>6. file[5].value = search.sw_mode /\ scan_posint(file[6]) = search.pass
  BY <1>2, <1>4, NumberScanned DEF Number
<1>7. (file[7].value = 1) = search.firstpass
  <2>1. file[7].value = IF search.firstpass THEN 1 ELSE 0
    BY <1>4 DEF Number
  <2>2. 0 # 1
    OBVIOUS
  <2> QED BY <1>2, <2>1, <2>2, Zenon
<1>8. set_stecker(file[11]) = search.stbrett /\ search.plugs = get_stecker(search.stbrett)
  BY <1>2, <1>4, PlugsRoundTrip DEF Resumable
<1>9. Restored =
        [from |-> search.from, to |-> search.to, ckey |-> search.ckey,
         sw_mode |-> search.sw_mode, pass |-> search.pass, firstpass |-> search.firstpass,
         gkey |-> search.gkey, stbrett |-> search.stbrett, plugs |-> search.plugs,
         score |-> scan_posint(file[12])]
  BY <1>5, <1>6, <1>7, <1>8, Zenon DEF Restored
<1>10. search = [from |-> search.from, to |-> search.to, ckey |-> search.ckey,
                 gkey |-> search.gkey,
                 sw_mode |-> search.sw_mode, pass |-> search.pass,
                 firstpass |-> search.firstpass,
                 stbrett |-> search.stbrett, plugs |-> search.plugs, score |-> search.score]
  BY <1>1, StateParts
<1> QED BY <1>9, <1>10

\* A file as it was saved is accepted, and the search is as it was.
LEMMA SavedComesBack ==
  ASSUME Resumable(search), file = Fields(search)
  PROVE  Acceptable /\ Restored = search
<1>1. PICK model \in Models : search \in ReadState(model)
  BY DEF Resumable
<1>2. /\ search.from \in KeyRead(model) /\ search.to \in KeyRead(model)
      /\ search.ckey \in KeyRead(model) /\ search.gkey \in KeyRead(model)
      /\ search.from.model = model
      /\ search.sw_mode \in SwModes
      /\ search.pass \in 0 .. MAX_SCORE /\ search.firstpass \in BOOLEAN
      /\ search.stbrett \in Involutions /\ search.score \in 0 .. MAX_SCORE
      /\ search = [from |-> search.from, to |-> search.to, ckey |-> search.ckey,
                   gkey |-> search.gkey,
                   sw_mode |-> search.sw_mode, pass |-> search.pass,
                   firstpass |-> search.firstpass,
                   stbrett |-> search.stbrett, plugs |-> search.plugs, score |-> search.score]
  BY <1>1, StateParts
<1>3. /\ Len(file) = 12 /\ DOMAIN file = 1 .. 12
      /\ file[1] = model /\ file[2] = print_key_rings(search.from)
      /\ file[3] = print_key_rings(search.to) /\ file[4] = print_key_rings(search.ckey)
      /\ file[5] = Number(search.sw_mode) /\ file[6] = Number(search.pass)
      /\ file[7] = Number(IF search.firstpass THEN 1 ELSE 0)
      /\ file[8] = Number(MAX_SCORE) /\ file[9] = model
      /\ file[10] = print_key_rings(search.gkey) /\ file[11] = PlugList(search.plugs)
      /\ file[12] = Number(search.score)
  BY <1>2, TwelveFields
<1>4. \A n \in 1 .. 11 : file[n] = Fields(search)[n]
  OBVIOUS
<1>5. Restored = search
  <2>1. Restored = [search EXCEPT !.score = scan_posint(file[12])]
    BY <1>4, FieldsRestored
  <2>2. scan_posint(file[12]) = search.score
    BY <1>2, <1>3, NumberScanned
  <2> QED BY <1>2, <2>1, <2>2
<1>6. Line1Fits /\ Line2Fits
  <2>1. file[12].value \in 0 .. MAX_SCORE
    BY <1>2, <1>3 DEF Number
  <2> QED BY <1>3, <1>4, <2>1, SavedFits
<1>7. /\ Digit(file[5]) \in SwModes /\ scan_posint(file[6]) # -1
      /\ Digit(file[7]) \in {0, 1} /\ scan_posint(file[8]) = MAX_SCORE
      /\ scan_posint(file[12]) # -1
  <2>1. Digit(file[5]) \in SwModes /\ Digit(file[7]) \in {0, 1}
    BY <1>2, <1>3 DEF Digit, Number
  <2>2. MAX_SCORE \in 0 .. MAX_SCORE
    BY Numerals
  <2> QED BY <1>2, <1>3, <2>1, <2>2, NumberScanned
<1>8. /\ RangeAccepted(file[2], file[3], model)
      /\ RangeAccepted(file[2], file[4], model) /\ RangeAccepted(file[4], file[3], model)
  BY <1>2, <1>3, SavedRangeAccepted DEF Resumable, KeysOf
<1>9. Accepted(file[10], model)
  BY <1>2, <1>3, KeyTextRoundTrip DEF Resumable, KeysOf
<1>10. PlugsAccepted(file[11])
  BY <1>2, <1>3, PlugsRoundTrip DEF Resumable
<1>11. /\ Accepted(file[4], model)
       /\ WithinRange(set_key(file[2], model), set_key(file[3], model), set_key(file[4], model))
  BY <1>8 DEF RangeAccepted, WithinRange
<1>12. Acceptable
  BY <1>3, <1>6, <1>7, <1>8, <1>9, <1>10, <1>11 DEF Acceptable, Complete
<1> QED BY <1>5, <1>12

\* Whatever stands in the fields, what is accepted is a search that can be
\* saved and resumed again.
LEMMA AcceptedIsResumable ==
  ASSUME FileTyped, Acceptable
  PROVE  /\ Resumable(Restored)
         /\ (\A n \in {2, 3, 4, 10} : NoZero(file[n])) => NoZeroWheel(Restored)
<1>1. /\ Len(file) = 12 /\ file[1] \in Models
      /\ Digit(file[5]) \in SwModes /\ scan_posint(file[6]) # -1
      /\ Digit(file[7]) \in {0, 1} /\ scan_posint(file[12]) # -1
      /\ RangeAccepted(file[2], file[3], file[1])
      /\ Accepted(file[4], file[1]) /\ Accepted(file[10], file[1])
      /\ WithinRange(set_key(file[2], file[1]), set_key(file[3], file[1]),
                     set_key(file[4], file[1]))
      /\ PlugsAccepted(file[11])
  BY DEF Acceptable, Complete
<1>2. /\ KeyField(file[2]) /\ KeyField(file[3]) /\ KeyField(file[4]) /\ KeyField(file[10])
      /\ NumberField(file[5]) /\ NumberField(file[6]) /\ NumberField(file[7])
      /\ NumberField(file[12]) /\ file[11] \in Seq(Letters)
  <2>1. \A n \in 1 .. 12 : Field(n, file[n])
    BY <1>1 DEF FileTyped
  <2>2. /\ 2 \in 1 .. 12 /\ 3 \in 1 .. 12 /\ 4 \in 1 .. 12 /\ 5 \in 1 .. 12 /\ 6 \in 1 .. 12
        /\ 7 \in 1 .. 12 /\ 10 \in 1 .. 12 /\ 11 \in 1 .. 12 /\ 12 \in 1 .. 12
        /\ 5 \in 5 .. 8 /\ 6 \in 5 .. 8 /\ 7 \in 5 .. 8
    OBVIOUS
  <2>3. /\ Field(2, file[2]) /\ Field(3, file[3]) /\ Field(4, file[4]) /\ Field(5, file[5])
        /\ Field(6, file[6]) /\ Field(7, file[7]) /\ Field(10, file[10])
        /\ Field(11, file[11]) /\ Field(12, file[12])
    BY <2>1, <2>2
  <2> QED BY <2>2, <2>3, Zenon DEF Field
<1>3. PICK model \in Models : model = file[1]
  BY <1>1
<1> DEFINE from == set_key(file[2], model)
           to   == set_key(file[3], model)
           ckey == set_key(file[4], model)
           gkey == set_key(file[10], model)
           b    == set_stecker(file[11])
<1>4. /\ Accepted(file[2], model) /\ Accepted(file[3], model) /\ Accepted(file[4], model)
      /\ Accepted(file[10], model)
      /\ ~ keycmp_greater(from, ckey) /\ ~ keycmp_greater(ckey, to)
  BY <1>1, <1>3 DEF RangeAccepted, WithinRange
<1>5. \A k \in {from, to, ckey, gkey} : k \in KeyRead(model) /\ Legible(k)
  BY <1>2, <1>4, AcceptedIsKey
<1>6. (\A n \in {2, 3, 4, 10} : NoZero(file[n])) =>
        \A k \in {from, to, ckey, gkey} : k \in KeyOf(model)
  BY <1>2, <1>4, AcceptedIsKey
<1>7. b \in Involutions
  BY <1>1, <1>2, ListGivesPlugboard
<1>8. get_stecker(b) \in [sf : Board, count : 0 .. N]
  <2>1. get_stecker(b).sf \in Board /\ get_stecker(b).count \in 0 .. N
    BY <1>7, ListDescribesBoard
  <2>2. get_stecker(b) = [sf |-> get_stecker(b).sf, count |-> get_stecker(b).count]
    BY DEF get_stecker
  <2> QED BY <2>1, <2>2, Zenon
<1>9. \A f : NumberField(f) /\ scan_posint(f) # -1 => scan_posint(f) \in 0 .. MAX_SCORE
  <2> SUFFICES ASSUME NEW f, NumberField(f), scan_posint(f) # -1
               PROVE  scan_posint(f) \in 0 .. MAX_SCORE
    OBVIOUS
  <2>1. f.value \in Int
    BY DEF NumberField
  <2>2. scan_posint(f) = f.value /\ 0 <= f.value /\ f.value < INT_MAX
    BY DEF scan_posint
  <2> QED BY <2>1, <2>2, Numerals
<1>10. scan_posint(file[6]) \in 0 .. MAX_SCORE /\ scan_posint(file[12]) \in 0 .. MAX_SCORE
  BY <1>1, <1>2, <1>9
<1>11. file[5].value \in SwModes
  BY <1>1 DEF Digit, SwModes
<1>12. (file[7].value = 1) \in BOOLEAN
  OBVIOUS
<1>13. Restored =
         [from |-> from, to |-> to, ckey |-> ckey, sw_mode |-> file[5].value,
          pass |-> scan_posint(file[6]), firstpass |-> (file[7].value = 1), gkey |-> gkey,
          stbrett |-> b, plugs |-> get_stecker(b), score |-> scan_posint(file[12])]
  BY <1>3 DEF Restored
<1> HIDE DEF from, to, ckey, gkey, b
<1>14. /\ Restored.from = from /\ Restored.to = to /\ Restored.ckey = ckey
       /\ Restored.gkey = gkey /\ Restored.stbrett = b /\ Restored.plugs = get_stecker(b)
  BY <1>13
<1>15. Restored \in ReadState(model)
  BY <1>5, <1>7, <1>8, <1>10, <1>11, <1>12, <1>13, Zenon DEF ReadState
<1>16. KeysOf(Restored) = {from, to, ckey, gkey}
  BY <1>14 DEF KeysOf
<1>17. Resumable(Restored)
  BY <1>4, <1>5, <1>14, <1>15, <1>16 DEF Resumable
<1>18. (\A k \in {from, to, ckey, gkey} : k \in KeyOf(model)) => NoZeroWheel(Restored)
  <2>1. \A k \in KeyOf(model) : /\ k.slot.l \in Wheel(model) /\ k.slot.m \in Wheel(model)
                                /\ k.slot.r \in Wheel(model)
    BY Zenon DEF KeyOf
  <2>2. 0 \notin Wheel(model)
    BY DEF Wheel
  <2> QED BY <1>16, <2>1, <2>2, Zenon DEF NoZeroWheel
<1> QED BY <1>6, <1>17, <1>18

-----------------------------------------------------------------------------
(* The invariant: the search can be saved, every field holds what it may   *)
(* hold, and what the file still says of the search.                       *)

Shortened ==
  /\ DOMAIN file = 1 .. 12
  /\ \A n \in 1 .. 11 : file[n] = Fields(search)[n]
  /\ \E v \in 0 .. MAX_SCORE : v < search.score /\ file[12] = Number(v)

Damaged ==
  stage = "file" => /\ damage = "none" => file = Fields(search)
                    /\ damage = "cut" => Len(file) < 12
                    /\ damage = "score" => Shortened

Inv ==
  /\ stage \in {"search", "file", "refused"}
  /\ damage \in {"none", "cut", "score", "edited"}
  /\ rounds \in 0 .. MaxRounds
  /\ Resumable(search) /\ FileTyped /\ Damaged

\* A function on 1 to k is a sequence of length k.
LEMMA LengthOf ==
  ASSUME NEW k \in Nat, NEW f, f = [i \in 1 .. k |-> f[i]]
  PROVE  Len(f) = k
<1> DEFINE S == {f[i] : i \in 1 .. k}
<1>1. \A i \in 1 .. k : f[i] \in S
  OBVIOUS
<1> HIDE DEF S
<1>2. f \in [1 .. k -> S]
  BY <1>1
<1> QED BY <1>2

\* The first fields of a file that was cut off
LEMMA Prefix ==
  ASSUME NEW f, DOMAIN f = 1 .. 12, NEW n \in 0 .. 11
  PROVE  LET g == SubSeq(f, 1, n)
         IN Len(g) = n /\ DOMAIN g = 1 .. n /\ \A i \in 1 .. n : g[i] = f[i]
<1>1. SubSeq(f, 1, n) = [i \in 1 .. n |-> f[i]]
  <2>1. \A i \in 1 .. n : 1 + i - 1 = i
    OBVIOUS
  <2>2. 1 + n - 1 = n
    OBVIOUS
  <2> QED BY <2>1, <2>2, SMT
<1> DEFINE g == SubSeq(f, 1, n)
<1>2. g = [i \in 1 .. n |-> g[i]] /\ DOMAIN g = 1 .. n /\ \A i \in 1 .. n : g[i] = f[i]
  BY <1>1
<1> HIDE DEF g
<1>3. Len(g) = n
  BY <1>2, LengthOf
<1> QED BY <1>2, <1>3 DEF g

\* A field of a complete file is replaced.
LEMMA Replaced ==
  ASSUME NEW f, NEW g, f = [i \in 1 .. 12 |-> f[i]], NEW n \in 1 .. 12, NEW x,
         g = [f EXCEPT ![n] = x]
  PROVE  /\ Len(g) = 12 /\ DOMAIN g = 1 .. 12 /\ g[n] = x
         /\ \A i \in 1 .. 12 : i # n => g[i] = f[i]
<1>1. /\ g = [i \in 1 .. 12 |-> g[i]] /\ DOMAIN g = 1 .. 12 /\ g[n] = x
      /\ \A i \in 1 .. 12 : i # n => g[i] = f[i]
  OBVIOUS
<1>2. Len(g) = 12
  BY <1>1, LengthOf
<1> QED BY <1>1, <1>2

\* The fields of a search are a function.
LEMMA FieldsAsFunction ==
  ASSUME NEW s
  PROVE  Fields(s) = [i \in 1 .. 12 |-> Fields(s)[i]]
  BY SMT DEF Fields

\* A search begins with one that may be saved and no file.
LEMMA InvInit == Init => Inv
<1> SUFFICES ASSUME Init PROVE Inv
  OBVIOUS
<1>1. Resumable(search)
  BY ResumeAssumption, SearchableIsResumable DEF Init
<1>2. FileTyped
  <2>1. file = << >>
    BY DEF Init
  <2> QED BY <2>1, SMT DEF FileTyped
<1>3. 0 \in 0 .. MaxRounds
  BY ResumeAssumption
<1> QED BY <1>1, <1>2, <1>3 DEF Init, Inv, Damaged

LEMMA PrintKeepsInv == Inv /\ print_state => Inv'
<1> SUFFICES ASSUME Inv, print_state PROVE Inv'
  OBVIOUS
<1>1. /\ stage' = "file" /\ file' = Fields(search) /\ damage' = "none"
      /\ rounds' = rounds + 1 /\ search' = search /\ rounds < MaxRounds
  BY DEF print_state
<1>2. rounds' \in 0 .. MaxRounds
  BY <1>1, ResumeAssumption DEF Inv
<1>3. FileTyped'
  <2>1. Len(file') = 12 /\ DOMAIN file' = 1 .. 12
    BY <1>1, TwelveFields
  <2>2. \A n \in 1 .. 12 : Field(n, file'[n])
    BY <1>1, SavedIsTyped DEF Inv
  <2> QED BY <2>1, <2>2 DEF FileTyped
<1>4. Damaged'
  BY <1>1 DEF Damaged
<1> QED BY <1>1, <1>2, <1>3, <1>4 DEF Inv

LEMMA CutKeepsInv == ASSUME NEW n \in 0 .. 11 PROVE Inv /\ CutBetween(n) => Inv'
<1> SUFFICES ASSUME Inv, CutBetween(n) PROVE Inv'
  OBVIOUS
<1>1. /\ stage = "file" /\ damage = "none" /\ file' = SubSeq(file, 1, n)
      /\ damage' = "cut" /\ stage' = stage /\ search' = search /\ rounds' = rounds
  BY DEF CutBetween
<1>2. file = Fields(search)
  BY <1>1 DEF Inv, Damaged
<1>3. DOMAIN file = 1 .. 12
  BY <1>2, TwelveFields
<1>4. Len(file') = n /\ DOMAIN file' = 1 .. n /\ \A i \in 1 .. n : file'[i] = file[i]
  BY <1>1, <1>3, Prefix
<1>5. FileTyped'
  <2>1. \A i \in 1 .. n : i \in 1 .. 12
    OBVIOUS
  <2>2. \A i \in 1 .. n : Field(i, file'[i])
    BY <1>3, <1>4, <2>1 DEF Inv, FileTyped
  <2>3. n \in 0 .. 12
    OBVIOUS
  <2> QED BY <1>4, <2>2, <2>3 DEF FileTyped
<1>6. Damaged'
  BY <1>1, <1>4 DEF Damaged
<1> QED BY <1>1, <1>5, <1>6 DEF Inv

\* Cutting digits off a number makes it smaller.
LEMMA DigitsCut ==
  ASSUME NEW v \in Nat, NEW d \in 1 .. 9, v >= PowerOfTen[d]
  PROVE  v \div PowerOfTen[d] \in Nat /\ v \div PowerOfTen[d] < v
<1>1. PICK p : p = PowerOfTen[d]
  OBVIOUS
<1>2. \/ p = 10 \/ p = 100 \/ p = 1000 \/ p = 10000 \/ p = 100000 \/ p = 1000000
      \/ p = 10000000 \/ p = 100000000 \/ p = 1000000000
  BY <1>1, SMT DEF PowerOfTen
<1>3. v \div p \in Nat /\ v \div p < v
  BY <1>1, <1>2
<1> QED BY <1>1, <1>3

LEMMA ScoreCutKeepsInv == ASSUME NEW d \in 1 .. 9 PROVE Inv /\ CutWithinScore(d) => Inv'
<1> SUFFICES ASSUME Inv, CutWithinScore(d) PROVE Inv'
  OBVIOUS
<1>1. /\ stage = "file" /\ damage = "none" /\ file[12].value >= PowerOfTen[d]
      /\ file' = [file EXCEPT ![12] = Number(@.value \div PowerOfTen[d])]
      /\ damage' = "score" /\ stage' = stage /\ search' = search /\ rounds' = rounds
  BY DEF CutWithinScore
<1>2. file = Fields(search)
  BY <1>1 DEF Inv, Damaged
<1>3. file[12].value = search.score
  <2>1. file[12] = Number(search.score)
    BY <1>2, TwelveFields
  <2> QED BY <2>1 DEF Number
<1>4. search.score \in 0 .. MAX_SCORE
  BY StateParts DEF Inv, Resumable
<1>5. PICK v : v = search.score \div PowerOfTen[d]
  OBVIOUS
<1>6. v \in 0 .. MAX_SCORE /\ v < search.score
  <2>1. search.score \in Nat /\ search.score >= PowerOfTen[d]
    BY <1>1, <1>3, <1>4, Numerals
  <2>2. v \in Nat /\ v < search.score
    BY <1>5, <2>1, DigitsCut
  <2> QED BY <1>4, <2>2, Numerals
<1>7. /\ Len(file') = 12 /\ DOMAIN file' = 1 .. 12 /\ file'[12] = Number(v)
      /\ \A i \in 1 .. 12 : i # 12 => file'[i] = file[i]
  <2>1. file = [i \in 1 .. 12 |-> file[i]]
    BY <1>2, FieldsAsFunction
  <2>2. file' = [file EXCEPT ![12] = Number(v)]
    BY <1>1, <1>3, <1>5
  <2>3. 12 \in 1 .. 12
    OBVIOUS
  <2> QED BY <2>1, <2>2, <2>3, Replaced
<1>8. NumberField(Number(v))
  BY <1>6, Numerals DEF NumberField, Number
<1>9. FileTyped'
  <2>1. \A i \in 1 .. 12 : Field(i, file[i])
    BY <1>2, TwelveFields DEF Inv, FileTyped
  <2>2. Field(12, Number(v))
    BY <1>8 DEF Field
  <2>3. \A i \in 1 .. 12 : Field(i, file'[i])
    BY <1>7, <2>1, <2>2
  <2>4. 12 \in 0 .. 12
    OBVIOUS
  <2> QED BY <1>7, <2>3, <2>4 DEF FileTyped
<1>10. Shortened'
  <2>1. \A i \in 1 .. 11 : i \in 1 .. 12 /\ i # 12
    OBVIOUS
  <2> QED BY <1>1, <1>2, <1>6, <1>7, <2>1 DEF Shortened
<1>11. Damaged'
  BY <1>1, <1>10 DEF Damaged
<1> QED BY <1>1, <1>9, <1>11 DEF Inv

\* What a user writes into a field is what may stand there.
LEMMA EditKeepsInv ==
  ASSUME NEW n \in 1 .. 12, NEW x, Field(n, x)
  PROVE  Inv /\ Edit(n, x) => Inv'
<1> SUFFICES ASSUME Inv, Edit(n, x) PROVE Inv'
  OBVIOUS
<1>1. /\ stage = "file" /\ damage = "none" /\ file' = [file EXCEPT ![n] = x]
      /\ damage' = "edited" /\ stage' = stage /\ search' = search /\ rounds' = rounds
  BY DEF Edit
<1>2. file = Fields(search)
  BY <1>1 DEF Inv, Damaged
<1>3. /\ Len(file') = 12 /\ DOMAIN file' = 1 .. 12 /\ file'[n] = x
      /\ \A i \in 1 .. 12 : i # n => file'[i] = file[i]
  <2>1. file = [i \in 1 .. 12 |-> file[i]]
    BY <1>2, FieldsAsFunction
  <2> QED BY <1>1, <2>1, Replaced
<1>4. \A i \in 1 .. 12 : Field(i, file'[i])
  <2>1. \A i \in 1 .. 12 : Field(i, file[i])
    BY <1>2, TwelveFields DEF Inv, FileTyped
  <2> QED BY <1>3, <2>1
<1>5. 12 \in 0 .. 12
  OBVIOUS
<1>6. FileTyped'
  BY <1>3, <1>4, <1>5 DEF FileTyped
<1>7. Damaged'
  BY <1>1 DEF Damaged
<1> QED BY <1>1, <1>6, <1>7 DEF Inv

\* What may be written is what may stand there.
LEMMA EditsAreTyped ==
  /\ \A n \in {1, 9}, model \in Models : n \in 1 .. 12 /\ Field(n, model)
  /\ \A n \in {2, 3, 4, 10}, text \in KeyTexts : n \in 1 .. 12 /\ Field(n, text)
  /\ \A n \in 5 .. 8 \cup {12}, number \in Numbers : n \in 1 .. 12 /\ Field(n, number)
  /\ \A list \in Lists : 11 \in 1 .. 12 /\ Field(11, list)
<1>1. \A n \in {1, 9} : n \in 1 .. 12 /\ n \notin {2, 3, 4, 10} /\ n \notin 5 .. 8 \cup {12} /\ n # 11
  OBVIOUS
<1>2. \A n \in {2, 3, 4, 10} :
         n \in 1 .. 12 /\ n \notin {1, 9} /\ n \notin 5 .. 8 \cup {12} /\ n # 11
  OBVIOUS
<1>3. \A n \in 5 .. 8 \cup {12} :
         n \in 1 .. 12 /\ n \notin {1, 9} /\ n \notin {2, 3, 4, 10} /\ n # 11
  OBVIOUS
<1>4. 11 \in 1 .. 12 /\ 11 \notin {1, 9} /\ 11 \notin {2, 3, 4, 10} /\ 11 \notin 5 .. 8 \cup {12}
  OBVIOUS
<1>5. /\ \A text \in KeyTexts : KeyField(text)
      /\ \A number \in Numbers : NumberField(number)
      /\ \A list \in Lists : list \in Seq(Letters)
  BY ResumeAssumption DEF KeyField, NumberField
<1> QED BY <1>1, <1>2, <1>3, <1>4, <1>5, Zenon DEF Field

LEMMA RestoreKeepsInv == Inv /\ set_state => Inv'
<1> SUFFICES ASSUME Inv, set_state PROVE Inv'
  OBVIOUS
<1>1. /\ Acceptable /\ search' = Restored /\ stage' = "search"
      /\ file' = file /\ damage' = damage /\ rounds' = rounds
  BY DEF set_state, Restored
<1>2. Resumable(search')
  BY <1>1, AcceptedIsResumable DEF Inv
<1>3. FileTyped'
  BY <1>1 DEF Inv, FileTyped
<1>4. Damaged'
  BY <1>1 DEF Damaged
<1> QED BY <1>1, <1>2, <1>3, <1>4 DEF Inv

LEMMA RefuseKeepsInv == Inv /\ Refuse => Inv'
<1> SUFFICES ASSUME Inv, Refuse PROVE Inv'
  OBVIOUS
<1>1. /\ stage' = "refused" /\ search' = search /\ file' = file
      /\ damage' = damage /\ rounds' = rounds
  BY DEF Refuse
<1>2. FileTyped'
  BY <1>1 DEF Inv, FileTyped
<1>3. Damaged'
  BY <1>1 DEF Damaged
<1> QED BY <1>1, <1>2, <1>3 DEF Inv

LEMMA InvKept == Inv /\ [Next]_vars => Inv'
<1> SUFFICES ASSUME Inv, [Next]_vars PROVE Inv'
  OBVIOUS
<1>1. CASE print_state
  BY <1>1, PrintKeepsInv
<1>2. CASE \E n \in 0 .. 11 : CutBetween(n)
  BY <1>2, CutKeepsInv
<1>3. CASE \E d \in 1 .. 9 : CutWithinScore(d)
  BY <1>3, ScoreCutKeepsInv
<1>4. CASE \E n \in {1, 9}, model \in Models : Edit(n, model)
  BY <1>4, EditKeepsInv, EditsAreTyped
<1>5. CASE \E n \in {2, 3, 4, 10}, text \in KeyTexts : Edit(n, text)
  BY <1>5, EditKeepsInv, EditsAreTyped
<1>6. CASE \E n \in 5 .. 8 \cup {12}, number \in Numbers : Edit(n, number)
  BY <1>6, EditKeepsInv, EditsAreTyped
<1>7. CASE \E list \in Lists : Edit(11, list)
  BY <1>7, EditKeepsInv, EditsAreTyped
<1>8. CASE set_state
  BY <1>8, RestoreKeepsInv
<1>9. CASE Refuse
  BY <1>9, RefuseKeepsInv
<1>10. CASE UNCHANGED vars
  BY <1>10, Zenon DEF vars, Inv, FileTyped, Damaged, Shortened
<1> QED BY <1>1, <1>2, <1>3, <1>4, <1>5, <1>6, <1>7, <1>8, <1>9, <1>10 DEF Next

\* The inductive invariant: whatever is written into the file, what is resumed
\* from it can be saved and resumed again, and an undamaged or shortened file
\* is that of the search.
THEOREM FileFollowsSearch == Spec => []Inv
BY InvInit, InvKept, PTL DEF Spec

-----------------------------------------------------------------------------
(* The properties.                                                         *)

\* The type invariant, for any searches and whatever a user may write.
THEOREM TypeCorrect == Spec => []TypeOK
<1>1. Inv => TypeOK
  <2> SUFFICES ASSUME Inv PROVE TypeOK
    OBVIOUS
  <2>1. search.pass \in 0 .. MAX_SCORE /\ search.score \in 0 .. MAX_SCORE
    BY StateParts DEF Inv, Resumable
  <2> QED BY <2>1 DEF Inv, FileTyped, TypeOK
<1> QED BY <1>1, FileFollowsSearch, PTL

LEMMA RestoredInStep ==
  Inv /\ [Next]_vars =>
    [stage = "file" /\ damage = "none" /\ stage' # "file" =>
       stage' = "search" /\ UNCHANGED search]_vars
<1> SUFFICES ASSUME Inv, Next, stage = "file", damage = "none", stage' # "file"
             PROVE  stage' = "search" /\ search' = search
  OBVIOUS
<1>1. Acceptable /\ Restored = search
  BY SavedComesBack DEF Inv, Damaged
<1>2. set_state
  BY <1>1, Zenon DEF Next, print_state, CutBetween, CutWithinScore, Edit, Refuse
<1> QED BY <1>1, <1>2 DEF set_state, Restored

\* What was saved is what is resumed, for every state of a search that may be
\* saved: keys, numbers of any length and every plugboard.
THEOREM SavedAlwaysRestored == Spec => SavedIsRestored
<1>1. Spec => [][stage = "file" /\ damage = "none" /\ stage' # "file" =>
                   stage' = "search" /\ UNCHANGED search]_vars
  BY RestoredInStep, FileFollowsSearch, PTL DEF Spec
<1> QED BY <1>1, PTL DEF SavedIsRestored

LEMMA CutInStep ==
  Inv /\ [Next]_vars =>
    [stage = "file" /\ stage' = "search" =>
       /\ damage # "cut"
       /\ damage = "score" => /\ search'.score < search.score
                              /\ UNCHANGED [search EXCEPT !.score = 0]]_vars
<1> SUFFICES ASSUME Inv, Next, stage = "file", stage' = "search"
             PROVE  /\ damage # "cut"
                    /\ damage = "score" =>
                         /\ search'.score < search.score
                         /\ [search' EXCEPT !.score = 0] = [search EXCEPT !.score = 0]
  OBVIOUS
<1>1. set_state
  BY Zenon DEF Next, print_state, CutBetween, CutWithinScore, Edit, Refuse
<1>2. Acceptable /\ search' = Restored
  BY <1>1 DEF set_state, Restored
<1>3. damage # "cut"
  <2>1. Len(file) = 12
    BY <1>2 DEF Acceptable, Complete
  <2> QED BY <2>1 DEF Inv, Damaged
<1>4. ASSUME damage = "score"
      PROVE  /\ search'.score < search.score
             /\ [search' EXCEPT !.score = 0] = [search EXCEPT !.score = 0]
  <2>1. Resumable(search) /\ Shortened
    BY <1>4 DEF Inv, Damaged
  <2>2. PICK v \in 0 .. MAX_SCORE : v < search.score /\ file[12] = Number(v)
    BY <2>1 DEF Shortened
  <2>3. search' = [search EXCEPT !.score = v]
    <3>1. search' = [search EXCEPT !.score = scan_posint(file[12])]
      BY <1>2, <2>1, FieldsRestored DEF Shortened
    <3> QED BY <2>2, <3>1, NumberScanned
  <2>4. search = [from |-> search.from, to |-> search.to, ckey |-> search.ckey,
                  gkey |-> search.gkey,
                  sw_mode |-> search.sw_mode, pass |-> search.pass,
                  firstpass |-> search.firstpass,
                  stbrett |-> search.stbrett, plugs |-> search.plugs, score |-> search.score]
    BY <2>1, StateParts DEF Resumable
  <2>5. search'.score = v /\ [search' EXCEPT !.score = 0] = [search EXCEPT !.score = 0]
    BY <2>3, <2>4
  <2> QED BY <2>2, <2>5
<1> QED BY <1>3, <1>4

\* A file that ends too early is refused, wherever that is, unless it ends
\* within the score: then all but the score is as it was.
THEOREM CutAlwaysNoticed == Spec => CutIsNoticed
<1>1. Spec => [][stage = "file" /\ stage' = "search" =>
                   /\ damage # "cut"
                   /\ damage = "score" => /\ search'.score < search.score
                                          /\ UNCHANGED [search EXCEPT !.score = 0]]_vars
  BY CutInStep, FileFollowsSearch, PTL DEF Spec
<1> QED BY <1>1, PTL DEF CutIsNoticed

-----------------------------------------------------------------------------
(* A file without a zero for a wheel.                                      *)

\* No key a user writes has one.
NoneWritten == \A text \in KeyTexts : NoZero(text)

NoneHeld ==
  /\ NoZeroWheel(search)
  /\ \A n \in {2, 3, 4, 10} : n \in DOMAIN file => NoZero(file[n])

LEMMA NoneHeldInit == Init => NoneHeld
<1> SUFFICES ASSUME Init PROVE NoneHeld
  OBVIOUS
<1>1. NoZeroWheel(search)
  BY ResumeAssumption, SearchableIsResumable DEF Init
<1>2. DOMAIN file = {}
  <2>1. file = << >>
    BY DEF Init
  <2> QED BY <2>1, SMT
<1> QED BY <1>1, <1>2 DEF NoneHeld

\* The keys of a search without one are printed without one.
LEMMA PrintedWithout ==
  ASSUME NEW s, Resumable(s), NoZeroWheel(s), NEW n \in {2, 3, 4, 10}
  PROVE  NoZero(Fields(s)[n])
<1>1. PICK model \in Models : s \in ReadState(model)
  BY DEF Resumable
<1>2. \A k \in KeysOf(s) : k \in KeyRead(model)
  BY <1>1, StateParts DEF KeysOf
<1>3. \A k \in KeysOf(s) : NoZero(print_key_rings(k))
  BY <1>2, PrintedKey DEF NoZeroWheel
<1>4. Fields(s)[n] \in {print_key_rings(k) : k \in KeysOf(s)}
  BY TwelveFields DEF KeysOf
<1> QED BY <1>3, <1>4

LEMMA NoneHeldKept ==
  ASSUME NoneWritten
  PROVE  Inv /\ NoneHeld /\ [Next]_vars => NoneHeld'
<1> SUFFICES ASSUME Inv, NoneHeld, [Next]_vars PROVE NoneHeld'
  OBVIOUS
<1> DEFINE Texts == {2, 3, 4, 10}
<1>1. CASE print_state
  <2>1. search' = search /\ file' = Fields(search)
    BY <1>1 DEF print_state
  <2> QED BY <2>1, PrintedWithout DEF NoneHeld, Inv
<1>2. ASSUME NEW n \in 0 .. 11, CutBetween(n) PROVE NoneHeld'
  <2>1. search' = search /\ file' = SubSeq(file, 1, n) /\ file = Fields(search)
    BY <1>2 DEF CutBetween, Inv, Damaged
  <2>2. DOMAIN file = 1 .. 12
    BY <2>1, TwelveFields
  <2>3. DOMAIN file' = 1 .. n /\ \A i \in 1 .. n : file'[i] = file[i]
    BY <2>1, <2>2, Prefix
  <2>4. \A i \in 1 .. n : i \in 1 .. 12
    OBVIOUS
  <2> QED BY <2>1, <2>2, <2>3, <2>4 DEF NoneHeld
<1>3. ASSUME NEW d \in 1 .. 9, CutWithinScore(d) PROVE NoneHeld'
  <2>1. search' = search /\ DOMAIN file' = DOMAIN file
        /\ \A i \in Texts : file'[i] = file[i]
    BY <1>3 DEF CutWithinScore
  <2> QED BY <2>1 DEF NoneHeld
<1>4. ASSUME NEW n, NEW x, n \in Texts => NoZero(x), Edit(n, x) PROVE NoneHeld'
  <2>1. search' = search /\ file' = [file EXCEPT ![n] = x] /\ file = Fields(search)
    BY <1>4 DEF Edit, Inv, Damaged
  <2>2. file = [i \in 1 .. 12 |-> file[i]]
    BY <2>1, FieldsAsFunction
  <2>3. DOMAIN file' = DOMAIN file
        /\ \A i \in DOMAIN file : file'[i] = IF i = n THEN x ELSE file[i]
    BY <2>1, <2>2
  <2> QED BY <1>4, <2>1, <2>3 DEF NoneHeld
<1>5. CASE \E n \in {1, 9}, model \in Models : Edit(n, model)
  BY <1>4, <1>5
<1>6. CASE \E n \in {2, 3, 4, 10}, text \in KeyTexts : Edit(n, text)
  BY <1>4, <1>6 DEF NoneWritten
<1>7. CASE \E n \in 5 .. 8 \cup {12}, number \in Numbers : Edit(n, number)
  BY <1>4, <1>7
<1>8. CASE \E list \in Lists : Edit(11, list)
  BY <1>4, <1>8
<1>9. CASE set_state
  <2>1. Acceptable /\ search' = Restored /\ file' = file
    BY <1>9 DEF set_state, Restored
  <2>2. DOMAIN file = 1 .. 12
    BY <2>1 DEF Acceptable, Complete, Inv, FileTyped
  <2>3. \A n \in Texts : NoZero(file[n])
    BY <2>2 DEF NoneHeld
  <2>4. NoZeroWheel(Restored)
    BY <2>1, <2>3, AcceptedIsResumable DEF Inv
  <2> QED BY <2>1, <2>4 DEF NoneHeld
<1>10. CASE Refuse
  BY <1>10 DEF Refuse, NoneHeld
<1>11. CASE UNCHANGED vars
  BY <1>11 DEF vars, NoneHeld
<1> QED BY <1>1, <1>2, <1>3, <1>5, <1>6, <1>7, <1>8, <1>9, <1>10, <1>11 DEF Next

\* Whatever a user writes, what is resumed can be searched - as long as the
\* user writes no zero for a wheel, the one thing set_walze lets through.
THEOREM AlwaysSearchable ==
  ASSUME NoneWritten
  PROVE  Spec => []ResumedIsSearchable
<1>1. Inv /\ NoneHeld => ResumedIsSearchable
  BY SearchableIsResumable DEF Inv, NoneHeld, ResumedIsSearchable
<1>2. Init => NoneHeld
  BY NoneHeldInit
<1>3. Inv /\ NoneHeld /\ [Next]_vars => NoneHeld'
  BY NoneHeldKept
<1> QED BY <1>1, <1>2, <1>3, FileFollowsSearch, PTL DEF Spec
=============================================================================
