--------------------------- MODULE SteckerProofs ----------------------------
(***************************************************************************)
(* Swaps and the list of plugs, for an alphabet of any size.               *)
(***************************************************************************)
EXTENDS Stecker, FunctionTheorems, FiniteSetTheorems, TLAPS

-----------------------------------------------------------------------------
(* Swaps.                                                                  *)

\* A swap exchanges two entries and leaves the others.
LEMMA SwapEntries ==
  ASSUME NEW b \in Board, NEW i \in Letters, NEW k \in Letters
  PROVE  /\ SwapStbrett(b, i, k) \in Board
         /\ SwapStbrett(b, i, k)[i] = b[k]
         /\ SwapStbrett(b, i, k)[k] = b[i]
         /\ \A a \in Letters \ {i, k} : SwapStbrett(b, i, k)[a] = b[a]
  BY DEF SwapStbrett, Board

\* The same swap undoes it.
LEMMA SwapUndone ==
  ASSUME NEW b \in Board, NEW i \in Letters, NEW k \in Letters
  PROVE  SwapStbrett(SwapStbrett(b, i, k), i, k) = b
  BY DEF SwapStbrett, Board

\* It does not matter which of the two letters is named first.
LEMMA SwapCommutes ==
  ASSUME NEW b \in Board, NEW i \in Letters, NEW k \in Letters
  PROVE  SwapStbrett(b, i, k) = SwapStbrett(b, k, i)
  BY DEF SwapStbrett, Board

\* What an involution is to the provers.
LEMMA Involution ==
  ASSUME NEW b \in Involutions
  PROVE  b \in Board /\ \A a \in Letters : b[a] \in Letters /\ b[b[a]] = a
  BY DEF Involutions, Board

\* Two letters without a plug, or with the same, may be swapped.
LEMMA SwapKeepsInvolution ==
  ASSUME NEW b \in Involutions, NEW i \in Letters, NEW k \in Letters, i # k,
         \/ b[i] = i /\ b[k] = k
         \/ b[i] = k
  PROVE  SwapStbrett(b, i, k) \in Involutions
<1> DEFINE c == SwapStbrett(b, i, k)
<1>1. b \in Board /\ \A a \in Letters : b[a] \in Letters /\ b[b[a]] = a
  BY Involution
<1>2. c \in Board /\ c[i] = b[k] /\ c[k] = b[i] /\ \A a \in Letters \ {i, k} : c[a] = b[a]
  BY <1>1, SwapEntries
<1> HIDE DEF c
<1>3. ASSUME NEW a \in Letters PROVE c[c[a]] = a
  <2>1. CASE a \notin {i, k}
    <3>1. b[a] \notin {i, k}
      BY <1>1, <2>1
    <3> QED BY <1>1, <1>2, <2>1, <3>1
  <2>2. CASE a \in {i, k}
    BY <1>1, <1>2, <2>2
  <2> QED BY <2>1, <2>2
<1>4. c \in Involutions
  BY <1>2, <1>3 DEF Involutions
<1> QED BY <1>4 DEF c

\* A plug is pulled: both its ends are free.
LEMMA Pull ==
  ASSUME NEW b \in Involutions, NEW i \in Letters, b[i] # i
  PROVE  LET bare == SwapStbrett(b, i, b[i])
         IN /\ bare \in Involutions /\ b[i] \in Letters
            /\ bare[i] = i /\ bare[b[i]] = b[i]
            /\ \A a \in Letters \ {i, b[i]} : bare[a] = b[a]
            /\ SwapStbrett(bare, i, b[i]) = b
<1>1. b \in Board /\ b[i] \in Letters /\ b[b[i]] = i
  BY Involution
<1>2. SwapStbrett(b, i, b[i]) \in Involutions
  BY <1>1, SwapKeepsInvolution
<1> QED BY <1>1, <1>2, SwapEntries, SwapUndone

\* Two free letters are plugged: the others are as they were.
LEMMA PlugIn ==
  ASSUME NEW b \in Involutions, NEW i \in Letters, NEW k \in Letters,
         i # k, b[i] = i, b[k] = k
  PROVE  LET c == SwapStbrett(b, i, k)
         IN /\ c \in Involutions /\ c[i] = k /\ c[k] = i
            /\ \A a \in Letters \ {i, k} : c[a] = b[a]
<1>1. SwapStbrett(b, i, k) \in Involutions
  BY SwapKeepsInvolution
<1> QED BY <1>1, Involution, SwapEntries

-----------------------------------------------------------------------------
(* The elements of a set in ascending order.                               *)

\* There are N letters.
LEMMA LettersFinite ==
  /\ IsFiniteSet(Letters) /\ Cardinality(Letters) = N /\ Letters \subseteq Nat
  /\ \A S \in SUBSET Letters : /\ IsFiniteSet(S) /\ Cardinality(S) \in Nat
<1>1. IsFiniteSet(Letters) /\ Cardinality(Letters) = N
  BY SteckerAssumption, FS_Interval, SMT DEF Letters
<1>2. Letters \subseteq Nat
  BY SteckerAssumption, SMT DEF Letters
<1>3. \A S \in SUBSET Letters : IsFiniteSet(S) /\ Cardinality(S) \in Nat
  BY <1>1, FS_Subset, FS_CardinalityType
<1> QED BY <1>1, <1>2, <1>3

\* How many elements of S come before a.
rank(S, a) == Cardinality({b \in S : b < a})

\* The ranks of n elements are 0 to n - 1, ascending with them.
LEMMA RankGrows ==
  ASSUME NEW S \in SUBSET Letters, NEW a \in S
  PROVE  /\ rank(S, a) \in 0 .. Cardinality(S) - 1
         /\ \A b \in S : b < a => rank(S, b) < rank(S, a)
<1> DEFINE below(x) == {b \in S : b < x}
<1>1. \A x \in S : below(x) \in SUBSET S /\ IsFiniteSet(below(x)) /\ Cardinality(below(x)) \in Nat
  BY LettersFinite
<1>2. IsFiniteSet(S) /\ Cardinality(S) \in Nat /\ \A x \in S : x \in Nat
  BY LettersFinite
<1>3. Cardinality(below(a)) < Cardinality(S)
  <2>1. a \notin below(a)
    BY <1>2, SMT
  <2>2. Cardinality(below(a)) <= Cardinality(S) /\ Cardinality(below(a)) # Cardinality(S)
    BY <1>1, <1>2, <2>1, FS_Subset
  <2> QED BY <1>1, <1>2, <2>2, SMT
<1>4. ASSUME NEW b \in S, b < a PROVE Cardinality(below(b)) < Cardinality(below(a))
  <2>1. below(b) \in SUBSET below(a)
    BY <1>2, <1>4, SMT
  <2>2. b \in below(a) /\ b \notin below(b)
    BY <1>2, <1>4, SMT
  <2>3. Cardinality(below(b)) <= Cardinality(below(a))
        /\ Cardinality(below(b)) # Cardinality(below(a))
    BY <1>1, <2>1, <2>2, FS_Subset
  <2> QED BY <1>1, <2>3, SMT
<1>5. rank(S, a) \in 0 .. Cardinality(S) - 1
  BY <1>1, <1>2, <1>3, SMT DEF rank
<1> QED BY <1>4, <1>5 DEF rank

\* Every place is taken, by nth, and every element has its place.
LEMMA NthElement ==
  ASSUME NEW S \in SUBSET Letters
  PROVE  /\ \A n \in 0 .. Cardinality(S) - 1 : nth(S, n) \in S
         /\ \A a \in S : nth(S, rank(S, a)) = a
<1> DEFINE r == [a \in S |-> rank(S, a)]
           T == 0 .. Cardinality(S) - 1
<1>1. IsFiniteSet(S) /\ Cardinality(S) \in Nat /\ \A x \in S : x \in Nat
  BY LettersFinite
<1>2. r \in [S -> T]
  BY RankGrows
<1>3. ASSUME NEW a \in S, NEW b \in S, rank(S, a) = rank(S, b) PROVE a = b
  <2>1. rank(S, a) \in Nat /\ rank(S, b) \in Nat
    BY <1>1, RankGrows, SMT
  <2>2. ~ (a < b) /\ ~ (b < a)
    BY <1>3, <2>1, RankGrows, SMT
  <2> QED BY <1>1, <2>2, SMT
<1>4. r \in Injection(S, T)
  <2>1. \A a, b \in S : r[a] = r[b] => a = b
    BY <1>3
  <2> QED BY <1>2, <2>1, Fun_IsInj
<1>5. IsFiniteSet(T) /\ Cardinality(T) = Cardinality(S)
  BY <1>1, FS_Interval, SMTT(30)
<1>6. r \in Surjection(S, T)
  BY <1>4, <1>5, FS_Injection
<1>7. \A n \in T : \E a \in S : r[a] = n
  <2> HIDE DEF r, T
  <2> QED BY <1>6, Fun_SurjectionProperties
<1>8. ASSUME NEW n \in T PROVE nth(S, n) \in S /\ rank(S, nth(S, n)) = n
  <2>1. \E a \in S : Cardinality({b \in S : b < a}) = n
    BY <1>7 DEF rank
  <2> QED BY <2>1 DEF nth, rank
<1>9. ASSUME NEW a \in S PROVE nth(S, rank(S, a)) = a
  <2>1. rank(S, a) \in T
    BY RankGrows
  <2> QED BY <1>3, <1>8, <2>1
<1> QED BY <1>8, <1>9

-----------------------------------------------------------------------------
(* The list of plugs.                                                      *)

lower(b) == {a \in Letters : b[a] > a}
alone(b) == {a \in Letters : b[a] = a}
upper(b) == {a \in Letters : b[a] < a}

\* Sets without a common element add up.
LEMMA DisjointUnion ==
  ASSUME NEW S \in SUBSET Letters, NEW T \in SUBSET Letters, S \cap T = {}
  PROVE  Cardinality(S \cup T) = Cardinality(S) + Cardinality(T)
<1>1. /\ IsFiniteSet(S) /\ IsFiniteSet(T)
      /\ Cardinality(S) \in Nat /\ Cardinality(T) \in Nat
  BY LettersFinite
<1>2. Cardinality(S \cap T) = 0
  BY FS_EmptySet
<1>3. Cardinality(S \cup T) = Cardinality(S) + Cardinality(T) - Cardinality(S \cap T)
  BY <1>1, FS_Union
<1> QED BY <1>1, <1>2, <1>3, SMT

\* Every plug has two ends, and every letter is one or has no plug.
LEMMA PlugCounts ==
  ASSUME NEW b \in Involutions
  PROVE  /\ Cardinality(lower(b)) \in Nat /\ Cardinality(alone(b)) \in Nat
         /\ N = 2 * Cardinality(lower(b)) + Cardinality(alone(b))
<1> DEFINE f == [a \in lower(b) |-> b[a]]
<1>1. b \in Board /\ \A a \in Letters : b[a] \in Letters /\ b[b[a]] = a /\ a \in Nat
  BY Involution, LettersFinite
<1>2. /\ lower(b) \in SUBSET Letters /\ alone(b) \in SUBSET Letters
      /\ upper(b) \in SUBSET Letters
  BY DEF lower, alone, upper
<1>3. /\ IsFiniteSet(lower(b)) /\ IsFiniteSet(alone(b)) /\ IsFiniteSet(upper(b))
      /\ Cardinality(lower(b)) \in Nat /\ Cardinality(alone(b)) \in Nat
      /\ Cardinality(upper(b)) \in Nat
  BY <1>2, LettersFinite
<1>4. Cardinality(upper(b)) = Cardinality(lower(b))
  <2>1. f \in [lower(b) -> upper(b)]
    BY <1>1, SMT DEF lower, upper
  <2>2. \A x, y \in lower(b) : f[x] = f[y] => x = y
    BY <1>1, <1>2
  <2>3. \A t \in upper(b) : \E x \in lower(b) : f[x] = t
    <3>1. ASSUME NEW t \in upper(b) PROVE b[t] \in lower(b) /\ f[b[t]] = t
      BY <1>1, SMT DEF lower, upper
    <3> QED BY <3>1
  <2>4. f \in Bijection(lower(b), upper(b))
    <3> HIDE DEF f
    <3> QED BY <2>1, <2>2, <2>3, Fun_IsBij
  <2>5. ExistsBijection(lower(b), upper(b))
    BY <2>4, Fun_ExistsBij
  <2> QED BY <1>3, <2>5, FS_Bijection
<1>5. Cardinality(lower(b) \cup upper(b)) = Cardinality(lower(b)) + Cardinality(upper(b))
  <2>1. lower(b) \cap upper(b) = {}
    BY <1>1, SMT DEF lower, upper
  <2> QED BY <1>2, <2>1, DisjointUnion
<1>6. Cardinality((lower(b) \cup upper(b)) \cup alone(b)) =
        Cardinality(lower(b) \cup upper(b)) + Cardinality(alone(b))
  <2>1. (lower(b) \cup upper(b)) \cap alone(b) = {}
    BY <1>1, SMT DEF lower, upper, alone
  <2>2. lower(b) \cup upper(b) \in SUBSET Letters
    BY <1>2
  <2> QED BY <1>2, <2>1, <2>2, DisjointUnion
<1>7. (lower(b) \cup upper(b)) \cup alone(b) = Letters
  BY <1>1, SMT DEF lower, upper, alone
<1> QED BY <1>3, <1>4, <1>5, <1>6, <1>7, LettersFinite, SMT

\* The places of the list, and what is in them.
LEMMA ListPlaces ==
  ASSUME NEW b \in Involutions
  PROVE  LET plugs == get_stecker(b)
             L == Cardinality(lower(b))
         IN /\ plugs.count = 2 * L /\ L \in Nat /\ 2 * L <= N
            /\ \A m \in 0 .. L - 1 : /\ 2 * m \in Letters /\ 2 * m + 1 \in Letters
                                     /\ plugs.sf[2 * m] = nth(lower(b), m)
                                     /\ plugs.sf[2 * m + 1] = b[nth(lower(b), m)]
                                     /\ nth(lower(b), m) \in lower(b)
            /\ \A n \in 2 * L .. N - 1 : /\ n \in Letters
                                         /\ plugs.sf[n] = nth(alone(b), N - 1 - n)
                                         /\ plugs.sf[n] \in alone(b)
            /\ DOMAIN plugs.sf = Letters
<1> DEFINE plugs == get_stecker(b)
           L == Cardinality(lower(b))
           A == Cardinality(alone(b))
<1>1. L \in Nat /\ A \in Nat /\ N = 2 * L + A /\ N \in Nat
  BY PlugCounts, SteckerAssumption
<1>2. /\ plugs.count = 2 * L
      /\ plugs.sf = [n \in Letters |->
                       IF n >= 2 * L THEN nth(alone(b), N - 1 - n)
                       ELSE IF n % 2 = 0 THEN nth(lower(b), n \div 2)
                            ELSE b[nth(lower(b), n \div 2)]]
  BY DEF get_stecker, lower, alone
<1> HIDE DEF plugs, L, A
<1>3. lower(b) \in SUBSET Letters /\ alone(b) \in SUBSET Letters
  BY DEF lower, alone
<1>4. ASSUME NEW m \in 0 .. L - 1
      PROVE  /\ 2 * m \in Letters /\ 2 * m + 1 \in Letters
             /\ plugs.sf[2 * m] = nth(lower(b), m)
             /\ plugs.sf[2 * m + 1] = b[nth(lower(b), m)]
             /\ nth(lower(b), m) \in lower(b)
  <2>1. /\ 2 * m \in Letters /\ 2 * m + 1 \in Letters
        /\ ~ (2 * m >= 2 * L) /\ ~ (2 * m + 1 >= 2 * L)
    BY <1>1, SMT DEF Letters
  <2>2. /\ (2 * m) % 2 = 0 /\ (2 * m) \div 2 = m
        /\ (2 * m + 1) % 2 # 0 /\ (2 * m + 1) \div 2 = m
    BY <1>1, SMT
  <2>3. nth(lower(b), m) \in lower(b)
    BY <1>3, NthElement DEF L
  <2> QED BY <1>2, <2>1, <2>2, <2>3
<1>5. ASSUME NEW n \in 2 * L .. N - 1
      PROVE  /\ n \in Letters /\ plugs.sf[n] = nth(alone(b), N - 1 - n)
             /\ plugs.sf[n] \in alone(b)
  <2>1. n \in Letters /\ n >= 2 * L /\ N - 1 - n \in 0 .. A - 1
    BY <1>1, SMT DEF Letters
  <2>2. nth(alone(b), N - 1 - n) \in alone(b)
    BY <1>3, <2>1, NthElement DEF A
  <2> QED BY <1>2, <2>1, <2>2
<1>6. 2 * L <= N
  BY <1>1, SMT
<1>7. DOMAIN plugs.sf = Letters
  BY <1>2
<1> QED BY <1>1, <1>2, <1>4, <1>5, <1>6, <1>7 DEF plugs, L

\* The list describes the board: plug by plug in front, the other letters
\* behind, and every letter of the alphabet once.
LEMMA ListDescribesBoard ==
  ASSUME NEW b \in Involutions
  PROVE  LET plugs == get_stecker(b)
         IN /\ plugs.sf \in Board /\ plugs.count \in 0 .. N /\ plugs.count % 2 = 0
            /\ \A n \in 0 .. plugs.count - 1 :
                  b[plugs.sf[n]] = plugs.sf[IF n % 2 = 0 THEN n + 1 ELSE n - 1]
            /\ \A n \in 0 .. plugs.count - 1 : n \in Letters /\ b[plugs.sf[n]] # plugs.sf[n]
            /\ {plugs.sf[n] : n \in plugs.count .. N - 1} = alone(b)
            /\ {plugs.sf[n] : n \in Letters} = Letters
<1> DEFINE plugs == get_stecker(b)
           L == Cardinality(lower(b))
           A == Cardinality(alone(b))
<1>1. L \in Nat /\ A \in Nat /\ N = 2 * L + A /\ N \in Nat
  BY PlugCounts, SteckerAssumption
<1>2. /\ plugs.count = 2 * L
      /\ \A m \in 0 .. L - 1 : /\ 2 * m \in Letters /\ 2 * m + 1 \in Letters
                               /\ plugs.sf[2 * m] = nth(lower(b), m)
                               /\ plugs.sf[2 * m + 1] = b[nth(lower(b), m)]
                               /\ nth(lower(b), m) \in lower(b)
      /\ \A n \in 2 * L .. N - 1 : /\ n \in Letters
                                   /\ plugs.sf[n] = nth(alone(b), N - 1 - n)
                                   /\ plugs.sf[n] \in alone(b)
      /\ DOMAIN plugs.sf = Letters
  BY ListPlaces
<1>3. plugs.sf = [n \in Letters |-> plugs.sf[n]]
  BY <1>2 DEF get_stecker
<1> HIDE DEF plugs, L, A
<1>4. \A a \in Letters : b[a] \in Letters /\ b[b[a]] = a /\ a \in Nat
  BY Involution, LettersFinite
<1>5. lower(b) \in SUBSET Letters /\ alone(b) \in SUBSET Letters
  BY DEF lower, alone
<1>6. ASSUME NEW n \in 0 .. plugs.count - 1
      PROVE  \E m \in 0 .. L - 1 : \/ n = 2 * m /\ n % 2 = 0
                                   \/ n = 2 * m + 1 /\ n % 2 # 0
  <2>1. /\ n \div 2 \in 0 .. L - 1
        /\ \/ n = 2 * (n \div 2) /\ n % 2 = 0
           \/ n = 2 * (n \div 2) + 1 /\ n % 2 # 0
    BY <1>1, <1>2, SMT
  <2> QED BY <2>1
<1>7. ASSUME NEW n \in 0 .. plugs.count - 1
      PROVE  /\ n \in Letters /\ plugs.sf[n] \in Letters
             /\ b[plugs.sf[n]] = plugs.sf[IF n % 2 = 0 THEN n + 1 ELSE n - 1]
             /\ b[plugs.sf[n]] # plugs.sf[n]
  <2>1. PICK m \in 0 .. L - 1 :
          \/ n = 2 * m /\ n % 2 = 0
          \/ n = 2 * m + 1 /\ n % 2 # 0
    BY <1>6
  <2> DEFINE a == nth(lower(b), m)
  <2>2. a \in Letters /\ b[a] # a /\ b[b[a]] = a /\ b[a] \in Letters
    BY <1>2, <1>4, SMT DEF lower
  <2>3. /\ plugs.sf[2 * m] = a /\ plugs.sf[2 * m + 1] = b[a]
        /\ 2 * m \in Letters /\ 2 * m + 1 \in Letters
    BY <1>2
  <2> HIDE DEF a
  <2>4. CASE n = 2 * m /\ n % 2 = 0
    BY <2>2, <2>3, <2>4
  <2>5. CASE n = 2 * m + 1 /\ n % 2 # 0
    <3>1. n - 1 = 2 * m
      BY <2>5, <1>1, SMT
    <3> QED BY <2>2, <2>3, <2>5, <3>1
  <2> QED BY <2>1, <2>4, <2>5
<1>8. {plugs.sf[n] : n \in plugs.count .. N - 1} = alone(b)
  <2>1. ASSUME NEW a \in alone(b)
        PROVE  \E n \in plugs.count .. N - 1 : plugs.sf[n] = a
    <3> DEFINE n == N - 1 - rank(alone(b), a)
    <3>1. rank(alone(b), a) \in 0 .. A - 1 /\ nth(alone(b), rank(alone(b), a)) = a
      BY <1>5, RankGrows, NthElement DEF A
    <3>2. n \in 2 * L .. N - 1 /\ N - 1 - n = rank(alone(b), a)
      BY <1>1, <3>1, SMT
    <3>3. plugs.sf[n] = a
      BY <1>2, <3>1, <3>2
    <3> QED BY <1>2, <3>2, <3>3
  <2> QED BY <1>2, <2>1
<1>9. plugs.sf \in Board
  <2>1. ASSUME NEW n \in Letters PROVE plugs.sf[n] \in Letters
    <3>1. n \in 0 .. plugs.count - 1 \/ n \in 2 * L .. N - 1
      BY <1>1, <1>2, SMT DEF Letters
    <3> QED BY <1>2, <1>5, <1>7, <3>1
  <2> QED BY <1>3, <2>1 DEF Board
<1>10. {plugs.sf[n] : n \in Letters} = Letters
  <2>1. ASSUME NEW a \in Letters PROVE \E n \in Letters : plugs.sf[n] = a
    <3>1. CASE a \in alone(b)
      <4>1. plugs.count .. N - 1 \subseteq Letters
        BY <1>1, <1>2, SMT DEF Letters
      <4> QED BY <1>8, <3>1, <4>1
    <3>2. CASE a \in lower(b)
      <4> DEFINE m == rank(lower(b), a)
      <4>1. m \in 0 .. L - 1 /\ nth(lower(b), m) = a
        BY <1>5, <3>2, RankGrows, NthElement DEF L
      <4> QED BY <1>2, <4>1
    <3>3. CASE b[a] \in lower(b)
      <4> DEFINE m == rank(lower(b), b[a])
      <4>1. m \in 0 .. L - 1 /\ nth(lower(b), m) = b[a]
        BY <1>5, <3>3, RankGrows, NthElement DEF L
      <4> QED BY <1>2, <1>4, <4>1
    <3>4. a \in alone(b) \/ a \in lower(b) \/ b[a] \in lower(b)
      BY <1>4, SMT DEF alone, lower
    <3> QED BY <3>1, <3>2, <3>3, <3>4
  <2> QED BY <1>9, <2>1 DEF Board
<1>11. plugs.count \in 0 .. N /\ plugs.count % 2 = 0
  BY <1>1, <1>2, SMT
<1> QED BY <1>7, <1>8, <1>9, <1>10, <1>11 DEF plugs
=============================================================================
