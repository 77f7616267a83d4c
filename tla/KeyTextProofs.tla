--------------------------- MODULE KeyTextProofs ----------------------------
(***************************************************************************)
(* What holds of every key: its text is taken back for the same key, and   *)
(* the order in which bounds are compared is a strict total order.  And    *)
(* the induction the proofs about loops over keys and letters need.        *)
(***************************************************************************)
EXTENDS KeyText, FiniteSets, WellFoundedInduction, TLAPS

-----------------------------------------------------------------------------
(* Induction over the numbers, for what the models write as recursive      *)
(* functions.  A predicate is given as the set of numbers it holds for.    *)

\* What holds for 0, and for n + 1 if it holds for n, holds for every number.
LEMMA InductionOnNat ==
  ASSUME NEW S, 0 \in S, \A n \in Nat : n \in S => n + 1 \in S
  PROVE  Nat \subseteq S
<1> SUFFICES ASSUME Nat \ S # {} PROVE FALSE
  OBVIOUS
<1> DEFINE Less == OpToRel(<, Nat)
<1>1. \A a, b \in Nat : a < b => << a, b >> \in Less
  BY DEF OpToRel
<1>2. IsWellFoundedOn(Less, Nat)
  BY NatLessThanWellFounded
<1> HIDE DEF Less
<1>3. PICK x \in Nat \ S : \A y \in Nat \ S : ~ (<< y, x >> \in Less)
  BY <1>2, WFMin
<1>4. x # 0 /\ x \in Nat
  BY <1>3
<1>5. x - 1 \in Nat /\ x - 1 < x /\ (x - 1) + 1 = x
  BY <1>4
<1>6. << x - 1, x >> \in Less
  BY <1>1, <1>4, <1>5
<1>7. x - 1 \in S
  BY <1>3, <1>5, <1>6
<1>8. x \in S
  BY <1>5, <1>7
<1> QED
  BY <1>3, <1>8

\* The same up to a bound
LEMMA InductionUpTo ==
  ASSUME NEW k \in Nat, NEW S, 0 \in S, \A n \in 0 .. k - 1 : n \in S => n + 1 \in S
  PROVE  0 .. k \subseteq S
<1> DEFINE U == S \cup {n \in Nat : n > k}
<1>1. 0 \in U
  OBVIOUS
<1>2. ASSUME NEW n \in Nat, n \in U PROVE n + 1 \in U
  <2>1. CASE n < k
    <3>1. n \in 0 .. k - 1 /\ n \in S
      BY <1>2, <2>1
    <3> QED
      BY <3>1
  <2>2. CASE ~ (n < k)
    BY <2>2
  <2> QED
    BY <2>1, <2>2
<1> HIDE DEF U
<1>3. Nat \subseteq U
  BY <1>1, <1>2, InductionOnNat
<1> USE DEF U
<1> QED
  BY <1>3

-----------------------------------------------------------------------------
(* The text of a key.                                                      *)

\* The keys set_key makes of a text: it takes a zero for a wheel as well.
WheelRead(model) == Wheel(model) \cup {0}
KeyRead(model) ==
  [model : {model},
   ukw   : Ukw(model),
   slot  : [g : Greek(model), l : WheelRead(model), m : WheelRead(model),
            r : WheelRead(model)],
   ring  : [m : Letter, r : Letter],
   mesg  : [g : Letter, l : Letter, m : Letter, r : Letter]]
Legible(k) ==
  /\ k \in KeyRead(k.model)
  /\ k.slot.l # k.slot.m /\ k.slot.l # k.slot.r /\ k.slot.m # k.slot.r
  /\ k.ring.m < RingLimit(k.slot.m) /\ k.ring.r < RingLimit(k.slot.r)
  /\ k.model # "M4" => k.mesg.g = 0

\* The keys of a search are among them.
LEMMA SearchedIsLegible ==
  ASSUME NEW model \in Models, NEW k \in KeyOf(model)
  PROVE  k \in KeyRead(model) /\ (Admissible(k) => Legible(k))
<1>1. k \in KeyRead(model)
  BY Zenon DEF KeyOf, KeyRead, WheelRead
<1>2. k.model = model
  BY DEF KeyOf
<1> QED BY <1>1, <1>2 DEF Admissible, Legible

\* The parts of a key, by their values.
Parts(k, model) ==
  /\ k.model = model /\ k.ukw \in Ukw(model) /\ k.slot.g \in Greek(model)
  /\ \A w \in {k.slot.l, k.slot.m, k.slot.r} : w \in WheelRead(model)
  /\ k.ring.m \in Letter /\ k.ring.r \in Letter
  /\ k.mesg.g \in Letter /\ k.mesg.l \in Letter
  /\ k.mesg.m \in Letter /\ k.mesg.r \in Letter

\* Every key has them.
LEMMA KeyParts ==
  ASSUME NEW model \in Models, NEW k \in KeyRead(model)
  PROVE  Parts(k, model)
  BY Zenon DEF KeyRead, Parts

\* ... and a key has no other parts.
LEMMA KeyIsItsParts ==
  ASSUME NEW model \in Models, NEW k \in KeyRead(model)
  PROVE  /\ k.slot = [g |-> k.slot.g, l |-> k.slot.l, m |-> k.slot.m, r |-> k.slot.r]
         /\ k.ring = [m |-> k.ring.m, r |-> k.ring.r]
         /\ k.mesg = [g |-> k.mesg.g, l |-> k.mesg.l, m |-> k.mesg.m, r |-> k.mesg.r]
         /\ k = [model |-> k.model, ukw |-> k.ukw, slot |-> k.slot, ring |-> k.ring,
                 mesg |-> k.mesg]
  BY Zenon DEF KeyRead

\* The wheels are numbered within what set_walze takes.
LEMMA WheelNumbers ==
  \A model \in Models : \A w \in WheelRead(model) :
     /\ w \in Nat /\ 0 <= w /\ w <= 8 /\ (model = "H" => w <= 5)
  BY SMT DEF Models, WheelRead, Wheel

\* Of the letter printed for a reflector only that reflector can be meant.
LEMMA UkwRoundTrip ==
  ASSUME NEW model \in Models, NEW ukw \in Ukw(model)
  PROVE  set_ukw(UkwType_to_ALPHA(ukw), model) = {ukw}
<1>1. CASE model = "H"
  BY <1>1, SMT DEF set_ukw, UkwType_to_ALPHA, Ukw
<1>2. CASE model = "M3"
  BY <1>2, SMT DEF set_ukw, UkwType_to_ALPHA, Ukw
<1>3. CASE model = "M4"
  BY <1>3, SMT DEF set_ukw, UkwType_to_ALPHA, Ukw
<1> QED BY <1>1, <1>2, <1>3 DEF Models

\* set_key takes what print_key_rings writes, and makes the same key of it,
\* for every key of a search and for one set_key has made before.
THEOREM KeyTextRoundTrip ==
  ASSUME NEW model \in Models, NEW k \in KeyRead(model), Legible(k)
  PROVE  LET text == print_key_rings(k)
         IN Accepted(text, model) /\ set_key(text, model) = k
<1> DEFINE text == print_key_rings(k)
<1>0. Parts(k, model)
  BY KeyParts
<1>1. k.model = model
  BY <1>0 DEF Parts
<1>2. /\ text.ukw = UkwType_to_ALPHA(k.ukw)
      /\ text.greek = IF model = "M4" THEN GreekRingType_to_ALPHA(k.slot.g) ELSE ""
  BY <1>1 DEF print_key_rings
<1>3. /\ Len(text.walze) = 3 /\ text.walze[1] = k.slot.l
      /\ text.walze[2] = k.slot.m /\ text.walze[3] = k.slot.r
      /\ Len(text.ring) = 2 /\ text.ring[1] = k.ring.m /\ text.ring[2] = k.ring.r
  <2>1. text.walze = << k.slot.l, k.slot.m, k.slot.r >>
        /\ text.ring = << k.ring.m, k.ring.r >>
    BY DEF print_key_rings, RingType_to_ALPHA
  <2> HIDE DEF text
  <2> QED BY <2>1, SMT
<1>4. IF model = "M4"
      THEN /\ Len(text.mesg) = 4 /\ text.mesg[1] = k.mesg.g /\ text.mesg[2] = k.mesg.l
           /\ text.mesg[3] = k.mesg.m /\ text.mesg[4] = k.mesg.r
      ELSE /\ Len(text.mesg) = 3 /\ text.mesg[1] = k.mesg.l
           /\ text.mesg[2] = k.mesg.m /\ text.mesg[3] = k.mesg.r
  <2>1. text.mesg = (IF model = "M4" THEN << k.mesg.g >> ELSE << >>)
                       \o << k.mesg.l, k.mesg.m, k.mesg.r >>
    BY <1>1 DEF print_key_rings
  <2>2. /\ k.mesg.g \in Int /\ k.mesg.l \in Int /\ k.mesg.m \in Int /\ k.mesg.r \in Int
    BY <1>0, SMT DEF Parts, Letter
  <2> HIDE DEF text
  <2>3. CASE model = "M4"
    <3>1. text.mesg = << k.mesg.g >> \o << k.mesg.l, k.mesg.m, k.mesg.r >>
      BY <2>1, <2>3
    <3> QED BY <2>2, <2>3, <3>1, SMT
  <2>4. CASE model # "M4"
    <3>1. text.mesg = << >> \o << k.mesg.l, k.mesg.m, k.mesg.r >>
      BY <2>1, <2>4
    <3> QED BY <2>2, <2>4, <3>1, SMT
  <2> QED BY <2>3, <2>4
<1>5. model = "M4" => \/ k.slot.g = Beta /\ text.greek = "B"
                      \/ k.slot.g = Gamma /\ text.greek = "G"
  <2> SUFFICES ASSUME model = "M4"
               PROVE  \/ k.slot.g = Beta /\ text.greek = "B"
                      \/ k.slot.g = Gamma /\ text.greek = "G"
    OBVIOUS
  <2>1. text.greek = << "B", "G" >>[k.slot.g - 8]
    BY <1>2 DEF GreekRingType_to_ALPHA
  <2>2. k.slot.g = 9 \/ k.slot.g = 10
    BY <1>0 DEF Parts, Greek, Beta, Gamma
  <2>3. << "B", "G" >>[9 - 8] = "B" /\ << "B", "G" >>[10 - 8] = "G"
    BY SMT
  <2> QED BY <2>1, <2>2, <2>3 DEF Beta, Gamma
<1>6. model # "M4" => k.slot.g = NoWheel /\ k.mesg.g = 0 /\ text.greek = ""
  BY <1>0, <1>1, <1>2 DEF Parts, Greek, Legible
<1> HIDE DEF text
<1>7. set_ukw(text.ukw, model) = {k.ukw}
  BY <1>0, <1>2, UkwRoundTrip DEF Parts
<1>8. Shaped(text, model)
  <2>1. CASE model = "M4"
    <3>1. Len(text.mesg) = 4 /\ text.greek # ""
      BY <1>4, <1>5, <2>1
    <3> QED BY <1>3, <2>1, <3>1 DEF Shaped
  <2>2. CASE model # "M4"
    <3>1. Len(text.mesg) = 3 /\ text.greek = ""
      BY <1>4, <1>6, <2>2
    <3> QED BY <1>3, <2>2, <3>1 DEF Shaped
  <2> QED BY <2>1, <2>2
<1>9. WalzeAccepted(text, model)
  <2>1. k.slot.l # k.slot.m /\ k.slot.l # k.slot.r /\ k.slot.m # k.slot.r
    BY DEF Legible
  <2>2. \A w \in {k.slot.l, k.slot.m, k.slot.r} :
           0 <= w /\ w <= (IF model = "H" THEN 5 ELSE 8)
    BY <1>0, WheelNumbers, SMT DEF Parts
  <2>3. \A i \in 1 .. 3 : i = 1 \/ i = 2 \/ i = 3
    BY SMT
  <2>4. \A i \in 1 .. 3 : 0 <= text.walze[i] /\ text.walze[i] <= (IF model = "H" THEN 5 ELSE 8)
    BY <1>3, <2>2, <2>3
  <2>5. \A i, j \in 1 .. 3 : i # j => text.walze[i] # text.walze[j]
    BY <1>3, <2>1, <2>3
  <2>6. model = "M4" => text.greek \in {"B", "G"}
    BY <1>5
  <2> QED BY <2>4, <2>5, <2>6 DEF WalzeAccepted
<1>10. ~ RingShortcut(text.walze[2], text.ring[1]) /\ ~ RingShortcut(text.walze[3], text.ring[2])
  <2>1. k.ring.m < RingLimit(k.slot.m) /\ k.ring.r < RingLimit(k.slot.r)
    BY DEF Legible
  <2>2. k.ring.m \in Nat /\ k.ring.r \in Nat /\ k.slot.m \in Nat /\ k.slot.r \in Nat
    BY <1>0, WheelNumbers, SMT DEF Parts, Letter
  <2> QED BY <1>3, <2>1, <2>2, SMT DEF RingShortcut, RingLimit
<1>11. set_walze(text, model) = k.slot
  <2>1. (IF model # "M4" THEN NoWheel ELSE IF text.greek = "B" THEN Beta ELSE Gamma) = k.slot.g
    <3>1. CASE model = "M4"
      BY <1>5, <3>1
    <3>2. CASE model # "M4"
      BY <1>6, <3>2
    <3> QED BY <3>1, <3>2
  <2> QED BY <1>3, <2>1, KeyIsItsParts DEF set_walze
<1>12. set_RingsState(text.mesg) = k.mesg
  <2>1. CASE model = "M4"
    <3>1. /\ (IF Len(text.mesg) = 4 THEN text.mesg[1] ELSE 0) = k.mesg.g
          /\ text.mesg[Len(text.mesg) - 2] = k.mesg.l
          /\ text.mesg[Len(text.mesg) - 1] = k.mesg.m
          /\ text.mesg[Len(text.mesg)] = k.mesg.r
      BY <1>4, <2>1, SMT
    <3> QED BY <3>1, KeyIsItsParts DEF set_RingsState
  <2>2. CASE model # "M4"
    <3>0. k.mesg.g = 0 /\ Len(text.mesg) = 3
      BY <1>4, <1>6, <2>2
    <3>1. 3 # 4 /\ 3 - 2 = 1 /\ 3 - 1 = 2
      BY SMT
    <3>2. /\ (IF Len(text.mesg) = 4 THEN text.mesg[1] ELSE 0) = k.mesg.g
          /\ text.mesg[Len(text.mesg) - 2] = k.mesg.l
          /\ text.mesg[Len(text.mesg) - 1] = k.mesg.m
          /\ text.mesg[Len(text.mesg)] = k.mesg.r
      BY <1>4, <2>2, <3>0, <3>1
    <3> QED BY <3>2, KeyIsItsParts DEF set_RingsState
  <2> QED BY <2>1, <2>2
<1>13. (CHOOSE u \in set_ukw(text.ukw, model) : TRUE) = k.ukw
  BY <1>7
<1>14. set_key(text, model) = k
  <2>1. [m |-> text.ring[1], r |-> text.ring[2]] = k.ring
    BY <1>3, KeyIsItsParts
  <2>2. set_key(text, model) =
          [init_key_low(model) EXCEPT !.ukw = k.ukw, !.slot = k.slot,
                                      !.ring = k.ring, !.mesg = k.mesg]
    BY <1>11, <1>12, <1>13, <2>1 DEF set_key
  <2>3. set_key(text, model) = [model |-> model, ukw |-> k.ukw, slot |-> k.slot,
                                ring |-> k.ring, mesg |-> k.mesg]
    BY <2>2 DEF init_key_low
  <2> QED BY <1>1, <2>3, KeyIsItsParts
<1>15. Accepted(text, model)
  BY <1>7, <1>8, <1>9, <1>10 DEF Accepted
<1> QED BY <1>14, <1>15 DEF text

-----------------------------------------------------------------------------
(* The order of keys.                                                      *)

\* keycmp_less looks at the first digit in which two keys differ.
Below(d1, d2) ==
  \E i \in 1 .. 11 : d1[i] < d2[i] /\ \A j \in 1 .. i - 1 : d1[j] = d2[j]

Row == [1 .. 11 -> Int]

\* The digits of a key are numbers.
LEMMA RowOfKey ==
  ASSUME NEW model \in Models, NEW k \in KeyRead(model)
  PROVE  Digits(k) \in Row
<1>0. Parts(k, model)
  BY KeyParts
<1>1. k.ukw \in Int /\ k.slot.g \in Int
  BY <1>0, SMT DEF Parts, Ukw, Greek, Models, Beta, Gamma, NoWheel
<1>2. k.slot.l \in Int /\ k.slot.m \in Int /\ k.slot.r \in Int
  BY <1>0, WheelNumbers, SMT DEF Parts
<1>3. /\ k.ring.m \in Int /\ k.ring.r \in Int
      /\ k.mesg.g \in Int /\ k.mesg.l \in Int /\ k.mesg.m \in Int /\ k.mesg.r \in Int
  BY <1>0, SMT DEF Parts, Letter
<1> QED BY <1>1, <1>2, <1>3, SMT DEF Digits, Row

\* The earlier of two first differences decides.
LEMMA BelowTransitive ==
  ASSUME NEW a \in Row, NEW b \in Row, NEW c \in Row, Below(a, b), Below(b, c)
  PROVE  Below(a, c)
<1>1. PICK i \in 1 .. 11 : a[i] < b[i] /\ \A j \in 1 .. i - 1 : a[j] = b[j]
  BY Zenon DEF Below
<1>2. PICK k \in 1 .. 11 : b[k] < c[k] /\ \A j \in 1 .. k - 1 : b[j] = c[j]
  BY Zenon DEF Below
<1>3. CASE i <= k
  <2>1. a[i] < c[i] /\ \A j \in 1 .. i - 1 : a[j] = c[j]
    BY <1>1, <1>2, <1>3, SMT DEF Row
  <2> QED BY <2>1, Zenon DEF Below
<1>4. CASE k < i
  <2>1. a[k] < c[k] /\ \A j \in 1 .. k - 1 : a[j] = c[j]
    BY <1>1, <1>2, <1>4, SMT DEF Row
  <2> QED BY <2>1, Zenon DEF Below
<1> QED BY <1>3, <1>4, SMT

\* Where rows differ there is a first difference, and one is lower there.
LEMMA BelowTotal ==
  ASSUME NEW a \in Row, NEW b \in Row, a # b
  PROVE  Below(a, b) \/ Below(b, a)
<1> DEFINE Same(n) == \A j \in 1 .. n : a[j] = b[j]
<1>1. ~ Same(11)
  BY SMT DEF Row
<1>2. \E i \in 1 .. 11 : a[i] # b[i] /\ Same(i - 1)
  <2>1. Same(0)
    BY SMT
  <2>2. ASSUME NEW n \in 0 .. 10, Same(n), ~ Same(n + 1)
        PROVE  a[n + 1] # b[n + 1] /\ n + 1 \in 1 .. 11 /\ Same((n + 1) - 1)
    BY <2>2, SMT
  <2>3. \E n \in 0 .. 10 : Same(n) /\ ~ Same(n + 1)
    <3> HIDE DEF Same
    <3> QED BY <1>1, <2>1, SMT
  <2> QED BY <2>2, <2>3
<1>3. PICK i \in 1 .. 11 : a[i] # b[i] /\ Same(i - 1)
  BY <1>2
<1>4. a[i] < b[i] \/ b[i] < a[i]
  BY <1>3, SMT DEF Row
<1> QED BY <1>3, <1>4, Zenon DEF Below

\* No row differs from itself.
LEMMA BelowIrreflexive ==
  ASSUME NEW a \in Row, Below(a, a) PROVE FALSE
  BY SMT DEF Below, Row

\* keycmp_less orders the keys of a machine strictly and totally: of two
\* keys one comes before the other or they are the same to Key_equ, the
\* comparison with which hillclimb recognises the end of its range.
THEOREM KeyOrder ==
  ASSUME NEW model \in Models,
         NEW k1 \in KeyRead(model), NEW k2 \in KeyRead(model), NEW k3 \in KeyRead(model)
  PROVE  /\ ~ keycmp_less(k1, k1)
         /\ keycmp_less(k1, k2) /\ keycmp_less(k2, k3) => keycmp_less(k1, k3)
         /\ Key_equ(k1, k2) <=> ~ keycmp_less(k1, k2) /\ ~ keycmp_greater(k1, k2)
<1>1. \A k, j : keycmp_less(k, j) <=> Below(Digits(k), Digits(j))
  BY Zenon DEF keycmp_less, Below
<1>2. Digits(k1) \in Row /\ Digits(k2) \in Row /\ Digits(k3) \in Row
  BY RowOfKey
<1>3. ~ keycmp_less(k1, k1)
  BY <1>1, <1>2, BelowIrreflexive
<1>4. keycmp_less(k1, k2) /\ keycmp_less(k2, k3) => keycmp_less(k1, k3)
  BY <1>1, <1>2, BelowTransitive
<1>5. Key_equ(k1, k2) <=> Digits(k1) = Digits(k2)
  <2>1. Key_equ(k1, k2) => Digits(k1) = Digits(k2)
    BY Zenon DEF Key_equ, Digits
  <2>2. Digits(k1) = Digits(k2) => Key_equ(k1, k2)
    <3> SUFFICES ASSUME Digits(k1) = Digits(k2) PROVE Key_equ(k1, k2)
      OBVIOUS
    <3>1. \A i \in 1 .. 11 : Digits(k1)[i] = Digits(k2)[i]
      OBVIOUS
    <3>2. /\ k1.ukw = k2.ukw /\ k1.slot.g = k2.slot.g /\ k1.slot.l = k2.slot.l
          /\ k1.slot.m = k2.slot.m /\ k1.slot.r = k2.slot.r
          /\ k1.ring.m = k2.ring.m /\ k1.ring.r = k2.ring.r
          /\ k1.mesg.g = k2.mesg.g /\ k1.mesg.l = k2.mesg.l
          /\ k1.mesg.m = k2.mesg.m /\ k1.mesg.r = k2.mesg.r
      BY <3>1, SMT DEF Digits
    <3> QED BY <3>2, KeyIsItsParts DEF Key_equ
  <2> QED BY <2>1, <2>2
<1>6. Digits(k1) = Digits(k2) <=> ~ Below(Digits(k1), Digits(k2)) /\ ~ Below(Digits(k2), Digits(k1))
  <2>1. ~ Below(Digits(k1), Digits(k1))
    BY <1>2, BelowIrreflexive
  <2> QED BY <1>2, <2>1, BelowTotal
<1> QED BY <1>1, <1>3, <1>4, <1>5, <1>6 DEF keycmp_greater

\* The bounds and the position that print_state writes are a range that
\* set_range accepts, and set_state accepts the position in it.
THEOREM SavedRangeAccepted ==
  ASSUME NEW model \in Models, NEW from \in KeyRead(model), NEW current \in KeyRead(model),
         NEW to \in KeyRead(model),
         Legible(from), Legible(current), Legible(to),
         ~ keycmp_greater(from, current), ~ keycmp_greater(current, to)
  PROVE  LET kf == print_key_rings(from)
             kc == print_key_rings(current)
             kt == print_key_rings(to)
         IN /\ RangeAccepted(kf, kt, model)
            /\ RangeAccepted(kf, kc, model) /\ RangeAccepted(kc, kt, model)
<1>1. \A k \in {from, current, to} :
        LET text == print_key_rings(k)
        IN Accepted(text, model) /\ set_key(text, model) = k
  BY KeyTextRoundTrip
<1>2. ~ keycmp_greater(from, to)
  <2> SUFFICES ASSUME keycmp_less(to, from) PROVE FALSE
    BY DEF keycmp_greater
  <2>1. CASE keycmp_less(from, current)
    <3>1. keycmp_less(to, current)
      BY <2>1, KeyOrder
    <3> QED BY <3>1 DEF keycmp_greater
  <2>2. CASE ~ keycmp_less(from, current)
    <3>1. Key_equ(from, current)
      BY <2>2, KeyOrder
    <3>2. Digits(from) = Digits(current)
      BY <3>1, Zenon DEF Key_equ, Digits
    <3>3. keycmp_less(to, current)
      BY <3>2, Zenon DEF keycmp_less
    <3> QED BY <3>3 DEF keycmp_greater
  <2> QED BY <2>1, <2>2
<1> QED BY <1>1, <1>2 DEF RangeAccepted
=============================================================================
