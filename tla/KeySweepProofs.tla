--------------------------- MODULE KeySweepProofs ---------------------------
(***************************************************************************)
(* The order of the search, from any admissible key of any model: the      *)
(* nested iterators visit admissible keys only, and a search resumed at    *)
(* any of them goes on as the interrupted one would have.                  *)
(***************************************************************************)
EXTENDS KeySweep, KeyTextProofs

-----------------------------------------------------------------------------
(* The masks of the wheels.                                                *)

\* A mask as its bits, each 0 or 1
BitsOf(S) == [i \in Bit |-> IF i \in S THEN 1 ELSE 0]
Value(u) == u[0] + 2 * u[1] + 4 * u[2] + 8 * u[3] + 16 * u[4] + 32 * u[5]
              + 64 * u[6] + 128 * u[7]

Power == [i \in Bit |-> 2 ^ i]

LEMMA Powers ==
  /\ Power[0] = 1 /\ Power[1] = 2 /\ Power[2] = 4 /\ Power[3] = 8
  /\ Power[4] = 16 /\ Power[5] = 32 /\ Power[6] = 64 /\ Power[7] = 128
  /\ \A i \in Bit : 2 ^ i = Power[i]
<1>1. /\ 2 ^ 0 = 1 /\ 2 ^ 1 = 2 /\ 2 ^ 2 = 4 /\ 2 ^ 3 = 8
      /\ 2 ^ 4 = 16 /\ 2 ^ 5 = 32 /\ 2 ^ 6 = 64 /\ 2 ^ 7 = 128
  BY SMT
<1>2. 0 \in Bit /\ 1 \in Bit /\ 2 \in Bit /\ 3 \in Bit /\ 4 \in Bit /\ 5 \in Bit /\ 6 \in Bit /\ 7 \in Bit
  BY DEF Bit
<1> QED
  BY <1>1, <1>2, Zenon DEF Power

\* One bit of a sum, between those below and those above
LEMMA BitBetween ==
  ASSUME NEW u \in 0 .. 1, NEW h \in Nat, NEW low \in Nat
  PROVE  /\ low < 32 => ((low + 32 * u + 64 * h) \div 32) % 2 = u
         /\ low < 64 => ((low + 64 * u + 128 * h) \div 64) % 2 = u
         /\ low < 128 => ((low + 128 * u + 256 * h) \div 128) % 2 = u
BY SMT

\* Dividing finds the bits again, whatever has been carried out of the mask.
LEMMA BitFound ==
  ASSUME NEW u \in [Bit -> 0 .. 1], NEW e \in Nat, NEW i \in Bit
  PROVE  ((Value(u) + 256 * e) \div 2 ^ i) % 2 = u[i]
<1>1. PICK u0, u1, u2, u3, u4, u5, u6, u7 \in 0 .. 1 :
        /\ u0 = u[0] /\ u1 = u[1] /\ u2 = u[2] /\ u3 = u[3]
        /\ u4 = u[4] /\ u5 = u[5] /\ u6 = u[6] /\ u7 = u[7]
  BY DEF Bit
<1> DEFINE n == u0 + 2 * u1 + 4 * u2 + 8 * u3 + 16 * u4 + 32 * u5 + 64 * u6 + 128 * u7 + 256 * e
<1>2. Value(u) + 256 * e = n
  BY <1>1 DEF Value
<1>3. (n \div 1) % 2 = u0
  BY SMT
<1>4. (n \div 2) % 2 = u1
  BY SMT
<1>5. (n \div 4) % 2 = u2
  BY SMT
<1>6. (n \div 8) % 2 = u3
  BY SMT
<1>7. (n \div 16) % 2 = u4
  BY SMT
<1>8. (n \div 32) % 2 = u5
  <2>1. PICK low, h \in Nat : low = u0 + 2 * u1 + 4 * u2 + 8 * u3 + 16 * u4
                             /\ h = u6 + 2 * u7 + 4 * e
    OBVIOUS
  <2>2. n = low + 32 * u5 + 64 * h /\ low < 32
    BY <2>1
  <2> HIDE DEF n
  <2> QED
    BY <2>2, BitBetween, ZenonT(40)
<1>9. (n \div 64) % 2 = u6
  <2>1. PICK low, h \in Nat : low = u0 + 2 * u1 + 4 * u2 + 8 * u3 + 16 * u4 + 32 * u5
                             /\ h = u7 + 2 * e
    OBVIOUS
  <2>2. n = low + 64 * u6 + 128 * h /\ low < 64
    BY <2>1
  <2> HIDE DEF n
  <2> QED
    BY <2>2, BitBetween
<1>10. (n \div 128) % 2 = u7
  <2>1. PICK low \in Nat : low = u0 + 2 * u1 + 4 * u2 + 8 * u3 + 16 * u4 + 32 * u5 + 64 * u6
    OBVIOUS
  <2>2. n = low + 128 * u7 + 256 * e /\ low < 128
    BY <2>1
  <2> HIDE DEF n
  <2> QED
    BY <2>2, BitBetween
<1> HIDE DEF n
<1>11. i = 0 \/ i = 1 \/ i = 2 \/ i = 3 \/ i = 4 \/ i = 5 \/ i = 6 \/ i = 7
  BY DEF Bit
<1>12. (n \div Power[i]) % 2 = u[i]
  BY <1>1, <1>2, <1>3, <1>4, <1>5, <1>6, <1>7, <1>8, <1>9, <1>10, <1>11, Powers
<1> QED
  BY <1>2, <1>12, Powers

LEMMA ValueOfMask ==
  ASSUME NEW S
  PROVE  /\ BitsOf(S) \in [Bit -> 0 .. 1]
         /\ MaskValue(S) = Value(BitsOf(S))
         /\ MaskValue(S) \in Nat
<1>1. BitsOf(S) \in [Bit -> 0 .. 1]
  BY DEF BitsOf
<1>2. \A i \in Bit : BitsOf(S)[i] = IF i \in S THEN 1 ELSE 0
  BY DEF BitsOf
<1>3. 0 \in Bit /\ 1 \in Bit /\ 2 \in Bit /\ 3 \in Bit /\ 4 \in Bit /\ 5 \in Bit /\ 6 \in Bit /\ 7 \in Bit
  BY DEF Bit
<1>4. MaskValue(S) = Value(BitsOf(S)) /\ MaskValue(S) \in Nat
  BY <1>2, <1>3, Powers DEF MaskValue, Value
<1> QED
  BY <1>1, <1>4

\* What is left of a sum in the mask
LEMMA MaskOfSum ==
  ASSUME NEW w \in [Bit -> 0 .. 1], NEW e \in Nat
  PROVE  MaskOf(Value(w) + 256 * e) = {i \in Bit : w[i] = 1}
BY BitFound DEF MaskOf

\* Bits from c on that are set, up to d: the carry runs over them to d.
Carried(S, c, d) ==
  [i \in Bit |-> IF c <= i /\ i < d THEN 0 ELSE IF i = d \/ i \in S THEN 1 ELSE 0]

LEMMA CarryRuns ==
  ASSUME NEW S, NEW c \in Bit, NEW d \in 0 .. 8, c <= d,
         d \notin S, \A i \in c .. d - 1 : i \in S
  PROVE  /\ Carried(S, c, d) \in [Bit -> 0 .. 1]
         /\ Value(Carried(S, c, d)) + (IF d = 8 THEN 256 ELSE 0) = MaskValue(S) + 2 ^ c
<1> DEFINE w == Carried(S, c, d)
           u == BitsOf(S)
<1>1. w \in [Bit -> 0 .. 1]
  BY DEF Carried
<1>2. \A i \in Bit : w[i] = IF c <= i /\ i < d THEN 0 ELSE IF i = d THEN 1 ELSE u[i]
  BY DEF Carried, BitsOf
<1>3. \A i \in Bit : c <= i /\ i < d => u[i] = 1
  <2>1. \A i \in Bit : c <= i /\ i < d => i \in c .. d - 1
    BY DEF Bit
  <2> QED
    BY <2>1 DEF BitsOf
<1>4. d \in Bit => u[d] = 0
  BY DEF BitsOf
<1>5. u \in [Bit -> 0 .. 1] /\ MaskValue(S) = Value(u)
  BY ValueOfMask
<1> HIDE DEF w, u
<1>6. PICK u0, u1, u2, u3, u4, u5, u6, u7 \in 0 .. 1 :
        /\ u0 = u[0] /\ u1 = u[1] /\ u2 = u[2] /\ u3 = u[3]
        /\ u4 = u[4] /\ u5 = u[5] /\ u6 = u[6] /\ u7 = u[7]
  BY <1>5 DEF Bit
<1> DEFINE v(i, x) == IF c <= i /\ i < d THEN 0 ELSE IF i = d THEN 1 ELSE x
           one(i, x) == (c <= i /\ i < d => x = 1) /\ (i = d => x = 0)
<1>7. /\ w[0] = v(0, u0) /\ w[1] = v(1, u1) /\ w[2] = v(2, u2) /\ w[3] = v(3, u3)
      /\ w[4] = v(4, u4) /\ w[5] = v(5, u5) /\ w[6] = v(6, u6) /\ w[7] = v(7, u7)
  BY <1>2, <1>6 DEF Bit
<1>8. /\ one(0, u0) /\ one(1, u1) /\ one(2, u2) /\ one(3, u3)
      /\ one(4, u4) /\ one(5, u5) /\ one(6, u6) /\ one(7, u7)
  BY <1>3, <1>4, <1>6 DEF Bit
<1> DEFINE before == u0 + 2 * u1 + 4 * u2 + 8 * u3 + 16 * u4 + 32 * u5 + 64 * u6 + 128 * u7
           after == v(0, u0) + 2 * v(1, u1) + 4 * v(2, u2) + 8 * v(3, u3) + 16 * v(4, u4)
                      + 32 * v(5, u5) + 64 * v(6, u6) + 128 * v(7, u7)
           out == IF d = 8 THEN 256 ELSE 0
<1>9. c = 0 => after + out = before + 1
  BY <1>8, SMT
<1>10. c = 1 => after + out = before + 2
  BY <1>8, SMT
<1>11. c = 2 => after + out = before + 4
  BY <1>8, SMT
<1>12. c = 3 => after + out = before + 8
  BY <1>8, SMT
<1>13. c = 4 => after + out = before + 16
  BY <1>8, SMT
<1>14. c = 5 => after + out = before + 32
  BY <1>8, SMT
<1>15. c = 6 => after + out = before + 64
  BY <1>8, SMT
<1>16. c = 7 => after + out = before + 128
  BY <1>8, SMT
<1>17. Value(w) = after /\ Value(u) = before
  BY <1>6, <1>7 DEF Value
<1>18. c = 0 \/ c = 1 \/ c = 2 \/ c = 3 \/ c = 4 \/ c = 5 \/ c = 6 \/ c = 7
  BY DEF Bit
<1> HIDE DEF after, before, out
<1>19. after + out = before + Power[c]
  BY <1>9, <1>10, <1>11, <1>12, <1>13, <1>14, <1>15, <1>16, <1>18, Powers
<1> QED
  BY <1>1, <1>5, <1>17, <1>19, Powers DEF w, out

\* Somewhere from c on there is a place that is free, behind the mask at last.
LEMMA FreePlace ==
  ASSUME NEW S \in SUBSET Bit, NEW c \in Bit
  PROVE  \E d \in 0 .. 8 : c <= d /\ d \notin S /\ \A i \in c .. d - 1 : i \in S
<1> DEFINE Taken == {n \in Nat : \A i \in c .. c + n - 1 : i \in S}
<1> SUFFICES ASSUME \A d \in 0 .. 8 : c <= d /\ d \notin S => \E i \in c .. d - 1 : i \notin S
             PROVE  FALSE
  OBVIOUS
<1>1. c \in 0 .. 7 /\ \A i \in S : i \in 0 .. 7
  BY DEF Bit
<1>2. 0 \in Taken
  BY <1>1
<1>3. ASSUME NEW n \in 0 .. (8 - c), n \in Taken PROVE n + 1 \in Taken
  <2>1. c + n \in S
    BY <1>1, <1>3
  <2>2. \A i \in c .. c + (n + 1) - 1 : i \in c .. c + n - 1 \/ i = c + n
    BY <1>1
  <2> QED
    BY <1>3, <2>1, <2>2
<1> HIDE DEF Taken
<1>4. 9 - c \in Nat /\ (9 - c) - 1 = 8 - c /\ 9 - c \in 0 .. 9 - c
  BY <1>1
<1>5. 9 - c \in Taken
  BY <1>2, <1>3, <1>4, InductionUpTo
<1> USE DEF Taken
<1>6. 8 \in c .. c + (9 - c) - 1
  BY <1>1
<1>7. 8 \in S
  BY <1>5, <1>6
<1> QED
  BY <1>1, <1>7

\* The wheels from c on that are not taken
Later(S, c, mask) == {i \in mask : c <= i /\ i \notin S}

\* The first of them
Least(d, S, c, mask) == d \in Later(S, c, mask) /\ \A i \in Later(S, c, mask) : d <= i

\* The first of them, or none
FirstLater(R, S, c, mask) ==
  \/ R = {} /\ Later(S, c, mask) = {}
  \/ \E d \in Later(S, c, mask) : R = {d} /\ Least(d, S, c, mask)

\* The sum of the masks finds the first wheel from the candidate on that is
\* not taken: its carry runs over those that are.
THEOREM AdjustFindsNext ==
  ASSUME NEW S \in SUBSET Bit, NEW c \in Bit, NEW top \in Bit
  PROVE  FirstLater(bits_adjust_next(S, {c}, 0 .. top), S, c, 0 .. top)
<1>1. PICK d \in 0 .. 8 : c <= d /\ d \notin S /\ \A i \in c .. d - 1 : i \in S
  BY FreePlace
<1> DEFINE w == Carried(S, c, d)
           e == IF d = 8 THEN 1 ELSE 0
<1>2. MaskValue({c}) = 2 ^ c
  <2>1. BitsOf({c}) \in [Bit -> 0 .. 1] /\ MaskValue({c}) = Value(BitsOf({c}))
    BY ValueOfMask
  <2>2. \A i \in Bit : BitsOf({c})[i] = IF i = c THEN 1 ELSE 0
    BY DEF BitsOf
  <2>3. c \in 0 .. 7
    BY DEF Bit
  <2>4. Value(BitsOf({c})) = Power[c]
    BY <2>2, <2>3, Powers DEF Value, Bit
  <2> QED
    BY <2>1, <2>4, Powers
<1>3. w \in [Bit -> 0 .. 1] /\ Value(w) + (IF d = 8 THEN 256 ELSE 0) = MaskValue(S) + 2 ^ c
  BY <1>1, CarryRuns
<1>4. \A i \in Bit : w[i] = IF c <= i /\ i < d THEN 0 ELSE IF i = d \/ i \in S THEN 1 ELSE 0
  BY DEF Carried
<1> HIDE DEF w
<1>5. MaskValue(S) + MaskValue({c}) = Value(w) + 256 * e
  BY <1>2, <1>3
<1>6. MaskOf(MaskValue(S) + MaskValue({c})) = {i \in Bit : w[i] = 1}
  BY <1>3, <1>5, MaskOfSum
<1>7. bits_adjust_next(S, {c}, 0 .. top) = ({i \in Bit : w[i] = 1} \ S) \cap (0 .. top)
  BY <1>6 DEF bits_adjust_next
<1>8. \A i \in Bit : w[i] = 1 /\ i \notin S <=> i = d
  BY <1>1, <1>4
<1> DEFINE R == bits_adjust_next(S, {c}, 0 .. top)
           L == Later(S, c, 0 .. top)
<1>9. \A i : i \in R <=> i \in 0 .. top /\ i = d
  <2>1. 0 .. top \subseteq Bit
    BY DEF Bit
  <2> QED
    BY <1>7, <1>8, <2>1
<1>10. \A i : i \in L <=> i \in 0 .. top /\ c <= i /\ i \notin S
  BY DEF Later
<1> HIDE DEF R, L
<1>11. top \in 0 .. 7 /\ c \in 0 .. 7
  BY DEF Bit
<1>12. \A i \in L : d <= i
  BY <1>1, <1>10, <1>11
<1>13. CASE d <= top
  <2>1. R = {d}
    BY <1>9, <1>11, <1>13
  <2>2. d \in L
    BY <1>1, <1>10, <1>13
  <2> QED
    BY <1>12, <2>1, <2>2 DEF FirstLater, Least, R, L
<1>14. CASE d > top
  <2>1. R = {}
    BY <1>9, <1>11, <1>14
  <2>2. L = {}
    BY <1>10, <1>11, <1>12, <1>14
  <2> QED
    BY <2>1, <2>2 DEF FirstLater, R, L
<1> QED
  BY <1>11, <1>13, <1>14

\* Nothing is found behind the last wheel.
LEMMA AdjustNothing ==
  ASSUME NEW S \in SUBSET Bit, NEW mask
  PROVE  bits_adjust_next(S, {}, mask) = {}
<1>1. MaskValue({}) = 0
  BY DEF MaskValue
<1>2. BitsOf(S) \in [Bit -> 0 .. 1] /\ MaskValue(S) = Value(BitsOf(S)) /\ MaskValue(S) \in Nat
  BY ValueOfMask
<1>3. MaskValue(S) + MaskValue({}) = Value(BitsOf(S)) + 256 * 0
  BY <1>1, <1>2
<1>4. MaskOf(MaskValue(S) + MaskValue({})) = {i \in Bit : BitsOf(S)[i] = 1}
  BY <1>2, <1>3, MaskOfSum
<1>5. {i \in Bit : BitsOf(S)[i] = 1} \subseteq S
  BY DEF BitsOf
<1> QED
  BY <1>4, <1>5 DEF bits_adjust_next

\* The candidate behind a wheel
LEMMA NextFound ==
  ASSUME NEW S \in SUBSET Bit, NEW z \in Bit, NEW top \in Bit
  PROVE  FirstLater(bits_adjust_next(S, ShiftLeft({z}), 0 .. top), S, z + 1, 0 .. top)
<1>0. z \in 0 .. 7 /\ top \in 0 .. 7
  BY DEF Bit
<1>1. CASE z < 7
  <2>1. z + 1 \in Bit /\ ShiftLeft({z}) = {z + 1}
    BY <1>0, <1>1 DEF ShiftLeft, Bit
  <2> QED
    BY <2>1, AdjustFindsNext
<1>2. CASE z = 7
  <2>1. ShiftLeft({z}) = {}
    BY <1>2 DEF ShiftLeft, Bit
  <2>2. Later(S, z + 1, 0 .. top) = {}
    BY <1>0, <1>2 DEF Later
  <2> QED
    BY <2>1, <2>2, AdjustNothing DEF FirstLater
<1> QED
  BY <1>0, <1>1, <1>2

\* From the first wheel on, one is free.
LEMMA FreeFromFirst ==
  ASSUME NEW S \in SUBSET Bit, NEW x, NEW y, S \subseteq {x, y}, NEW top \in 2 .. 7
  PROVE  \E d \in 0 .. 2 : /\ bits_adjust_next(S, {0}, 0 .. top) = {d}
                           /\ Least(d, S, 0, 0 .. top)
<1>1. 0 \in Bit /\ top \in Bit
  BY DEF Bit
<1>2. FirstLater(bits_adjust_next(S, {0}, 0 .. top), S, 0, 0 .. top)
  BY <1>1, AdjustFindsNext
<1>3. PICK i \in 0 .. 2 : i \notin S
  <2>1. 0 \in 0 .. 2 /\ 1 \in 0 .. 2 /\ 2 \in 0 .. 2
    OBVIOUS
  <2>2. 0 \notin {x, y} \/ 1 \notin {x, y} \/ 2 \notin {x, y}
    OBVIOUS
  <2> QED
    BY <2>1, <2>2
<1>4. i \in Later(S, 0, 0 .. top)
  BY <1>3 DEF Later
<1>5. PICK d \in Later(S, 0, 0 .. top) : bits_adjust_next(S, {0}, 0 .. top) = {d}
                                         /\ Least(d, S, 0, 0 .. top)
  BY <1>2, <1>4 DEF FirstLater
<1>6. d \in 0 .. 2
  BY <1>3, <1>4, <1>5 DEF Least, Later
<1> QED
  BY <1>5, <1>6

-----------------------------------------------------------------------------
(* The wheels in the slots.                                                *)

\* The masks of three wheels, each one bit
Three(o, x, y, z) == [og |-> o, l |-> {x}, m |-> {y}, r |-> {z}]

\* Of three slots the next wheels in the order of the search
TurnsRight(b, o, x, y, z, mask) ==
  \E z2 \in mask : Least(z2, {x, y}, z + 1, mask) /\ b = Three(o, x, y, z2)

TurnsMiddle(b, o, x, y, z, mask) ==
  /\ Later({x, y}, z + 1, mask) = {}
  /\ \E y2, z2 \in mask : /\ Least(y2, {x}, y + 1, mask) /\ Least(z2, {x, y2}, 0, mask)
                          /\ b = Three(o, x, y2, z2)

TurnsLeft(b, o, x, y, z, mask) ==
  /\ Later({x, y}, z + 1, mask) = {} /\ Later({x}, y + 1, mask) = {}
  /\ \E x2, y2, z2 \in mask :
       /\ Least(x2, {}, x + 1, mask) /\ Least(y2, {x2}, 0, mask)
       /\ Least(z2, {x2, y2}, 0, mask)
       /\ b = Three(o, x2, y2, z2)

NothingLeft(x, y, z, mask) ==
  /\ Later({x, y}, z + 1, mask) = {} /\ Later({x}, y + 1, mask) = {}
  /\ Later({}, x + 1, mask) = {}

\* next_slot_common takes the wheels through that order, up to its end.
THEOREM SlotsInOrder ==
  ASSUME NEW top \in 2 .. 7, NEW o,
         NEW x \in 0 .. top, NEW y \in 0 .. top, NEW z \in 0 .. top
  PROVE  LET next == next_slot_common(Three(o, x, y, z), 0 .. top)
         IN IF next.overflow
            THEN NothingLeft(x, y, z, 0 .. top) /\ next.bits = Three(o, 0, 1, 2)
            ELSE \/ TurnsRight(next.bits, o, x, y, z, 0 .. top)
                 \/ TurnsMiddle(next.bits, o, x, y, z, 0 .. top)
                 \/ TurnsLeft(next.bits, o, x, y, z, 0 .. top)
<1> DEFINE mask == 0 .. top
           r1 == bits_adjust_next({x} \cup {y}, ShiftLeft({z}), mask)
           m2 == bits_adjust_next({x}, ShiftLeft({y}), mask)
           r2 == bits_adjust_next({x} \cup m2, {0}, mask)
           l3 == ShiftLeft({x}) \cap mask
           m3 == bits_adjust_next(l3, {0}, mask)
           r3 == bits_adjust_next(l3 \cup m3, {0}, mask)
           b == Three(o, x, y, z)
           next == next_slot_common(b, mask)
<1>0. x \in Bit /\ y \in Bit /\ z \in Bit /\ top \in Bit /\ {x} \cup {y} = {x, y}
  BY DEF Bit
<1>1. next =
        CASE r1 # {} -> [bits |-> [b EXCEPT !.r = r1], overflow |-> FALSE]
          [] r1 = {} /\ m2 # {} ->
               [bits |-> [b EXCEPT !.m = m2, !.r = r2], overflow |-> FALSE]
          [] r1 = {} /\ m2 = {} /\ l3 # {} ->
               [bits |-> [b EXCEPT !.l = l3, !.m = m3, !.r = r3], overflow |-> FALSE]
          [] OTHER ->
               [bits |-> [b EXCEPT !.l = {0}, !.m = {1}, !.r = {2}], overflow |-> TRUE]
  BY DEF next_slot_common, bits_adjust_next_r, bits_adjust_next_m, bits_adjust_next_l, Three
<1>2. FirstLater(r1, {x, y}, z + 1, mask)
  BY <1>0, NextFound
<1>3. FirstLater(m2, {x}, y + 1, mask)
  BY <1>0, NextFound
<1>4. FirstLater(l3, {}, x + 1, mask)
  <2>1. \A i : i \in l3 <=> i = x + 1 /\ i <= top
    BY DEF ShiftLeft, Bit
  <2>2. \A i : i \in Later({}, x + 1, mask) <=> i \in mask /\ x + 1 <= i
    BY DEF Later
  <2> HIDE DEF l3
  <2>3. CASE x < top
    <3>1. l3 = {x + 1} /\ x + 1 \in Later({}, x + 1, mask)
      BY <2>1, <2>2, <2>3
    <3> QED
      BY <2>2, <3>1 DEF FirstLater, Least
  <2>4. CASE x = top
    <3>1. l3 = {} /\ Later({}, x + 1, mask) = {}
      BY <2>1, <2>2, <2>4
    <3> QED
      BY <3>1 DEF FirstLater
  <2> QED
    BY <2>3, <2>4
<1>5. \A S, c : Later(S, c, mask) \subseteq mask
  BY DEF Later
<1>6. ASSUME NEW S \in SUBSET Bit, NEW a, NEW c, S \subseteq {a, c}
      PROVE  \E d \in mask : bits_adjust_next(S, {0}, mask) = {d} /\ Least(d, S, 0, mask)
  <2>1. \E d \in 0 .. 2 : bits_adjust_next(S, {0}, mask) = {d} /\ Least(d, S, 0, mask)
    BY <1>6, FreeFromFirst
  <2> QED
    BY <1>5, <2>1 DEF Least
<1>7. mask \subseteq Bit
  BY DEF Bit
<1> HIDE DEF mask, next
<1>8. CASE r1 # {}
  <2>1. next.bits = [b EXCEPT !.r = r1] /\ next.overflow = FALSE
    BY <1>1, <1>8
  <2> HIDE DEF r1
  <2>2. PICK z2 \in mask : r1 = {z2} /\ Least(z2, {x, y}, z + 1, mask)
    BY <1>2, <1>5, <1>8 DEF FirstLater
  <2>3. TurnsRight(next.bits, o, x, y, z, mask)
    BY <2>1, <2>2 DEF TurnsRight, Three
  <2> QED
    BY <2>1, <2>3 DEF mask, next
<1>9. CASE r1 = {} /\ m2 # {}
  <2>1. next.bits = [b EXCEPT !.m = m2, !.r = r2] /\ next.overflow = FALSE
    BY <1>1, <1>9
  <2>2. Later({x, y}, z + 1, mask) = {}
    BY <1>2, <1>9 DEF FirstLater
  <2> HIDE DEF r1, m2
  <2>3. PICK y2 \in mask : m2 = {y2} /\ Least(y2, {x}, y + 1, mask)
    BY <1>3, <1>5, <1>9 DEF FirstLater
  <2>4. {x, y2} \in SUBSET Bit /\ {x} \cup m2 = {x, y2}
    BY <1>0, <1>7, <2>3
  <2>5. PICK z2 \in mask : r2 = {z2} /\ Least(z2, {x, y2}, 0, mask)
    BY <1>6, <2>4
  <2>6. TurnsMiddle(next.bits, o, x, y, z, mask)
    BY <2>1, <2>2, <2>3, <2>5 DEF TurnsMiddle, Three
  <2> QED
    BY <2>1, <2>6 DEF mask, next
<1>10. CASE r1 = {} /\ m2 = {} /\ l3 # {}
  <2>1. next.bits = [b EXCEPT !.l = l3, !.m = m3, !.r = r3] /\ next.overflow = FALSE
    BY <1>1, <1>10
  <2>2. Later({x, y}, z + 1, mask) = {} /\ Later({x}, y + 1, mask) = {}
    BY <1>2, <1>3, <1>10 DEF FirstLater
  <2> HIDE DEF r1, m2, l3
  <2>3. PICK x2 \in mask : l3 = {x2} /\ Least(x2, {}, x + 1, mask)
    BY <1>4, <1>5, <1>10 DEF FirstLater
  <2>4. PICK y2 \in mask : m3 = {y2} /\ Least(y2, {x2}, 0, mask)
    BY <1>6, <1>7, <2>3
  <2>5. {x2, y2} \in SUBSET Bit /\ l3 \cup m3 = {x2, y2}
    BY <1>7, <2>3, <2>4
  <2>6. PICK z2 \in mask : r3 = {z2} /\ Least(z2, {x2, y2}, 0, mask)
    BY <1>6, <2>5
  <2> HIDE DEF m3, r3
  <2>7. next.bits = Three(o, x2, y2, z2)
    BY <2>1, <2>3, <2>4, <2>6 DEF Three
  <2>8. TurnsLeft(next.bits, o, x, y, z, mask)
    BY <2>2, <2>3, <2>4, <2>6, <2>7 DEF TurnsLeft
  <2> QED
    BY <2>1, <2>8 DEF mask, next
<1>11. CASE r1 = {} /\ m2 = {} /\ l3 = {}
  <2>1. next.bits = [b EXCEPT !.l = {0}, !.m = {1}, !.r = {2}] /\ next.overflow = TRUE
    BY <1>1, <1>11
  <2>2. NothingLeft(x, y, z, mask)
    BY <1>2, <1>3, <1>4, <1>11 DEF FirstLater, NothingLeft
  <2>3. next.bits = Three(o, 0, 1, 2)
    BY <2>1 DEF Three
  <2> QED
    BY <2>1, <2>2, <2>3 DEF mask, next
<1> QED
  BY <1>8, <1>9, <1>10, <1>11

\* The masks of the wheels in the slots
Masks(slot, model) ==
  Three(IF model # "M4" THEN 0 ELSE IF slot.g = Beta THEN 1 ELSE 2,
        slot.l - 1, slot.m - 1, slot.r - 1)

Top(model) == IF model = "H" THEN 4 ELSE 7

LEMMA MaskToTop ==
  ASSUME NEW model \in Models
  PROVE  /\ Mask(model) = 0 .. Top(model) /\ Top(model) \in 2 .. 7
         /\ Mask(model) \subseteq Bit
         /\ Wheel(model) = 1 .. Top(model) + 1
<1>1. CASE model = "H"
  <2>1. 0 .. 4 \subseteq 0 .. 7
    OBVIOUS
  <2> QED
    BY <1>1, <2>1 DEF Mask, Top, Bit, Wheel
<1>2. CASE model # "H"
  BY <1>2 DEF Mask, Top, Bit, Wheel
<1> QED
  BY <1>1, <1>2

\* A wheel that is not taken is left where it is.
LEMMA FreeWheelStays ==
  ASSUME NEW S \in SUBSET Bit, NEW top \in Bit, NEW c \in 0 .. top, c \notin S
  PROVE  bits_adjust_next(S, {c}, 0 .. top) = {c}
<1>1. c \in Bit
  BY DEF Bit
<1>2. FirstLater(bits_adjust_next(S, {c}, 0 .. top), S, c, 0 .. top)
  BY <1>1, AdjustFindsNext
<1>3. c \in Later(S, c, 0 .. top) /\ \A i \in Later(S, c, 0 .. top) : i \in 0 .. top /\ c <= i
  BY DEF Later
<1>4. PICK d \in Later(S, c, 0 .. top) : bits_adjust_next(S, {c}, 0 .. top) = {d}
                                         /\ Least(d, S, c, 0 .. top)
  BY <1>2, <1>3 DEF FirstLater
<1>5. d = c
  BY <1>3, <1>4 DEF Least
<1> QED
  BY <1>4, <1>5

LEMMA WheelOfBit == ASSUME NEW i \in Int PROVE bits_to_RingType({i}) = i + 1
<1>1. Min({i}) = i
  BY SMT DEF Min
<1> QED
  BY <1>1 DEF bits_to_RingType

\* The slots of a machine, no wheel in two of them
Slots(model) ==
  {s \in [g : Greek(model), l : Wheel(model), m : Wheel(model), r : Wheel(model)] :
     s.l # s.m /\ s.l # s.r /\ s.m # s.r}

\* A slot iterator is created with the wheels as they are.
LEMMA SlotEntered ==
  ASSUME NEW model \in Models, NEW s \in Slots(model)
  PROVE  init_SlotIterator(s, model) = [bits |-> Masks(s, model), slot |-> s]
<1> DEFINE x == s.l - 1
           y == s.m - 1
           z == s.r - 1
           top == Top(model)
<1>0. /\ s = [g |-> s.g, l |-> s.l, m |-> s.m, r |-> s.r]
      /\ s.l \in Wheel(model) /\ s.m \in Wheel(model) /\ s.r \in Wheel(model)
      /\ s.l # s.m /\ s.l # s.r /\ s.m # s.r
  BY Zenon DEF Slots
<1>1. /\ Mask(model) = 0 .. top /\ top \in 2 .. 7 /\ Wheel(model) = 1 .. top + 1
  BY MaskToTop
<1> HIDE DEF top
<1>2. /\ x \in 0 .. top /\ y \in 0 .. top /\ z \in 0 .. top
      /\ x # y /\ x # z /\ y # z
      /\ x + 1 = s.l /\ y + 1 = s.m /\ z + 1 = s.r
  BY <1>0, <1>1
<1>3. top \in Bit /\ {x} \in SUBSET Bit /\ {x} \cup {y} \in SUBSET Bit
  <2> HIDE DEF x, y, z
  <2>1. top \in Bit /\ x \in Bit /\ y \in Bit
    BY <1>1, <1>2 DEF Bit
  <2> QED
    BY <2>1
<1>4. /\ RingType_to_bits(s.l) = {x} /\ RingType_to_bits(s.m) = {y}
      /\ RingType_to_bits(s.r) = {z}
  BY DEF RingType_to_bits
<1> HIDE DEF x, y, z, top
<1>5. /\ bits_adjust_next_m({x}, {y}, 0 .. top) = {y}
      /\ bits_adjust_next_r({x}, {y}, {z}, 0 .. top) = {z}
  BY <1>2, <1>3, FreeWheelStays DEF bits_adjust_next_m, bits_adjust_next_r
<1> DEFINE o == IF model # "M4" THEN 0 ELSE IF s.g = Beta THEN 1 ELSE 2
<1>6. Masks(s, model) = Three(o, x, y, z)
  BY <1>0 DEF Masks, x, y, z
<1>7. init_SlotIterator(s, model)
        = [bits |-> Three(o, x, y, z), slot |-> SlotOf(s.g, Three(o, x, y, z))]
  BY <1>1, <1>4, <1>5 DEF init_SlotIterator, Three
<1>8. SlotOf(s.g, Three(o, x, y, z)) = s
  <2>1. /\ bits_to_RingType({x}) = s.l /\ bits_to_RingType({y}) = s.m
        /\ bits_to_RingType({z}) = s.r
    <3>1. x \in Int /\ y \in Int /\ z \in Int
      BY <1>1, <1>2
    <3> QED
      BY <1>2, <3>1, WheelOfBit
  <2> QED
    BY <1>0, <2>1 DEF SlotOf, Three
<1> QED
  BY <1>6, <1>7, <1>8

\* Of the wheels W, the last ones an order of slots has
LastWheels(s, W) ==
  /\ Later({s.l, s.m}, s.r + 1, W) = {} /\ Later({s.l}, s.m + 1, W) = {}
  /\ Later({}, s.l + 1, W) = {}

\* The slots t that follow s
RightTurns(s, t, W) ==
  t.l = s.l /\ t.m = s.m /\ Least(t.r, {s.l, s.m}, s.r + 1, W)

MiddleTurns(s, t, W) ==
  /\ Later({s.l, s.m}, s.r + 1, W) = {}
  /\ t.l = s.l /\ Least(t.m, {s.l}, s.m + 1, W) /\ Least(t.r, {s.l, t.m}, 1, W)

LeftTurns(s, t, W) ==
  /\ Later({s.l, s.m}, s.r + 1, W) = {} /\ Later({s.l}, s.m + 1, W) = {}
  /\ Least(t.l, {}, s.l + 1, W) /\ Least(t.m, {t.l}, 1, W)
  /\ Least(t.r, {t.l, t.m}, 1, W)

\* What holds of bits holds of the wheels they stand for.
LEMMA LeastWheel ==
  ASSUME NEW top \in Nat, NEW S, NEW T, NEW c \in Int, \A i \in Int : i \in T <=> i - 1 \in S
  PROVE  /\ Later(S, c, 0 .. top) = {} => Later(T, c + 1, 1 .. top + 1) = {}
         /\ \A d : Least(d, S, c, 0 .. top) => Least(d + 1, T, c + 1, 1 .. top + 1)
<1>1. ASSUME NEW i \in Later(T, c + 1, 1 .. top + 1) PROVE i \in Int /\ i - 1 \in Later(S, c, 0 .. top)
  <2>1. i \in Int /\ i - 1 \in 0 .. top /\ c <= i - 1 /\ i \notin T
    BY <1>1 DEF Later
  <2> QED
    BY <2>1 DEF Later
<1>2. ASSUME NEW d, Least(d, S, c, 0 .. top)
      PROVE  Least(d + 1, T, c + 1, 1 .. top + 1)
  <2>1. d \in 0 .. top /\ c <= d /\ d \notin S /\ \A i \in Later(S, c, 0 .. top) : d <= i
    BY <1>2 DEF Least, Later
  <2>2. d + 1 \in 1 .. top + 1 /\ c + 1 <= d + 1 /\ d + 1 \notin T
    <3>1. d + 1 \in Int /\ (d + 1) - 1 = d
      BY <2>1
    <3> QED
      BY <2>1, <3>1
  <2>3. \A i \in Later(T, c + 1, 1 .. top + 1) : d + 1 <= i
    BY <1>1, <2>1
  <2> QED
    BY <2>2, <2>3 DEF Least, Later
<1> QED
  BY <1>1, <1>2

AsBits(T, from, W, S, c, M) ==
  /\ Later(S, c, M) = {} => Later(T, from, W) = {}
  /\ \A d : Least(d, S, c, M) => Least(d + 1, T, from, W)

LEMMA WheelsAsBits ==
  ASSUME NEW top \in Nat, NEW a \in Int, NEW b \in Int, NEW c \in Int,
         NEW A, NEW B, NEW from, NEW W,
         A = a + 1, B = b + 1, from = c + 1, W = 1 .. top + 1
  PROVE  /\ AsBits({A, B}, from, W, {a, b}, c, 0 .. top)
         /\ AsBits({A}, from, W, {a}, c, 0 .. top)
         /\ AsBits({}, from, W, {}, c, 0 .. top)
<1>1. \A i \in Int : i \in {A, B} <=> i - 1 \in {a, b}
  OBVIOUS
<1>2. \A i \in Int : i \in {A} <=> i - 1 \in {a}
  OBVIOUS
<1>3. \A i \in Int : i \in {} <=> i - 1 \in {}
  OBVIOUS
<1>4. AsBits({A, B}, c + 1, 1 .. top + 1, {a, b}, c, 0 .. top)
  <2> DEFINE T == {A, B}
             S == {a, b}
  <2> HIDE DEF T, S
  <2>1. \A i \in Int : i \in T <=> i - 1 \in S
    BY <1>1 DEF T, S
  <2>2. AsBits(T, c + 1, 1 .. top + 1, S, c, 0 .. top)
    BY <2>1, LeastWheel DEF AsBits
  <2> QED
    BY <2>2 DEF T, S
<1>5. AsBits({A}, c + 1, 1 .. top + 1, {a}, c, 0 .. top)
  <2> DEFINE T == {A}
             S == {a}
  <2> HIDE DEF T, S
  <2>1. \A i \in Int : i \in T <=> i - 1 \in S
    BY <1>2 DEF T, S
  <2>2. AsBits(T, c + 1, 1 .. top + 1, S, c, 0 .. top)
    BY <2>1, LeastWheel DEF AsBits
  <2> QED
    BY <2>2 DEF T, S
<1>6. AsBits({}, c + 1, 1 .. top + 1, {}, c, 0 .. top)
  BY <1>3, LeastWheel DEF AsBits
<1> QED
  BY <1>4, <1>5, <1>6

LEMMA WheelsOfMasks ==
  ASSUME NEW g, NEW o, NEW x \in Int, NEW y \in Int, NEW z \in Int
  PROVE  SlotOf(g, Three(o, x, y, z)) = [g |-> g, l |-> x + 1, m |-> y + 1, r |-> z + 1]
BY WheelOfBit DEF SlotOf, Three

\* The three wheels of the slots go through their order as the bits do.
LEMMA WheelsInOrder ==
  ASSUME NEW model \in Models, NEW s \in Slots(model), NEW g
  PROVE  LET next == next_slot_common(Masks(s, model), Mask(model))
             t == SlotOf(g, next.bits)
             W == Wheel(model)
         IN /\ t.l \in W /\ t.m \in W /\ t.r \in W /\ t.g = g
            /\ t = [g |-> g, l |-> t.l, m |-> t.m, r |-> t.r]
            /\ t.l # t.m /\ t.l # t.r /\ t.m # t.r
            /\ next.bits = Three(Masks(s, model).og, t.l - 1, t.m - 1, t.r - 1)
            /\ \/ /\ next.overflow = TRUE /\ LastWheels(s, W)
                  /\ t = [g |-> g, l |-> 1, m |-> 2, r |-> 3]
               \/ /\ next.overflow = FALSE
                  /\ RightTurns(s, t, W) \/ MiddleTurns(s, t, W) \/ LeftTurns(s, t, W)
<1> DEFINE top == Top(model)
           o == Masks(s, model).og
           x == s.l - 1
           y == s.m - 1
           z == s.r - 1
           next == next_slot_common(Masks(s, model), Mask(model))
           t == SlotOf(g, next.bits)
           W == Wheel(model)
           Turned == /\ t.l \in W /\ t.m \in W /\ t.r \in W /\ t.g = g
                     /\ t = [g |-> g, l |-> t.l, m |-> t.m, r |-> t.r]
                     /\ t.l # t.m /\ t.l # t.r /\ t.m # t.r
                     /\ next.bits = Three(o, t.l - 1, t.m - 1, t.r - 1)
<1>1. Mask(model) = 0 .. top /\ top \in 2 .. 7 /\ W = 1 .. top + 1
  BY MaskToTop
<1>2. s.l \in W /\ s.m \in W /\ s.r \in W /\ s.l # s.m /\ s.l # s.r /\ s.m # s.r
  BY DEF Slots
<1>3. Masks(s, model) = Three(o, x, y, z)
  BY DEF Masks, Three
<1> HIDE DEF top, o, W
<1>4. /\ x \in 0 .. top /\ y \in 0 .. top /\ z \in 0 .. top
      /\ s.l = x + 1 /\ s.m = y + 1 /\ s.r = z + 1
      /\ s.l + 1 = (x + 1) + 1 /\ s.m + 1 = (y + 1) + 1 /\ s.r + 1 = (z + 1) + 1
      /\ x # y /\ x # z /\ y # z
  <2>1. PICK l, m, r \in 1 .. top + 1 : l = s.l /\ m = s.m /\ r = s.r
    BY <1>1, <1>2
  <2>2. x = l - 1 /\ y = m - 1 /\ z = r - 1 /\ top \in Int
    BY <1>1, <2>1
  <2> HIDE DEF x, y, z
  <2> QED
    BY <1>2, <2>1, <2>2
<1> HIDE DEF x, y, z
<1>5. next = next_slot_common(Three(o, x, y, z), 0 .. top)
  BY <1>1, <1>3
<1> HIDE DEF next
<1>6. IF next.overflow
      THEN NothingLeft(x, y, z, 0 .. top) /\ next.bits = Three(o, 0, 1, 2)
      ELSE \/ TurnsRight(next.bits, o, x, y, z, 0 .. top)
           \/ TurnsMiddle(next.bits, o, x, y, z, 0 .. top)
           \/ TurnsLeft(next.bits, o, x, y, z, 0 .. top)
  BY <1>1, <1>4, <1>5, SlotsInOrder
<1>7. next.overflow \in BOOLEAN
  BY <1>5 DEF next_slot_common
<1>8. top \in Nat
  BY <1>1
<1>9. ASSUME NEW a \in 0 .. top, NEW b \in 0 .. top, NEW c \in 0 .. top,
             next.bits = Three(o, a, b, c), a # b, a # c, b # c
      PROVE  t = [g |-> g, l |-> a + 1, m |-> b + 1, r |-> c + 1] /\ Turned
  <2>1. a \in Int /\ b \in Int /\ c \in Int
    BY <1>1
  <2>2. t = [g |-> g, l |-> a + 1, m |-> b + 1, r |-> c + 1]
    BY <1>9, <2>1, WheelsOfMasks
  <2>3. (a + 1) - 1 = a /\ (b + 1) - 1 = b /\ (c + 1) - 1 = c
    BY <2>1
  <2>4. a + 1 \in W /\ b + 1 \in W /\ c + 1 \in W /\ a + 1 # b + 1 /\ a + 1 # c + 1 /\ b + 1 # c + 1
    BY <1>1, <1>9
  <2> HIDE DEF t
  <2> QED
    BY <1>9, <2>2, <2>3, <2>4
<1>10. /\ AsBits({s.l, s.m}, s.r + 1, W, {x, y}, z + 1, 0 .. top)
       /\ AsBits({s.l}, s.m + 1, W, {x}, y + 1, 0 .. top)
       /\ AsBits({}, s.l + 1, W, {}, x + 1, 0 .. top)
  <2>1. x \in Int /\ y \in Int /\ z \in Int /\ x + 1 \in Int /\ y + 1 \in Int /\ z + 1 \in Int
    BY <1>1, <1>4
  <2>2. AsBits({s.l, s.m}, s.r + 1, W, {x, y}, z + 1, 0 .. top)
    BY <1>1, <1>4, <1>8, <2>1, WheelsAsBits
  <2>3. AsBits({s.l}, s.m + 1, W, {x}, y + 1, 0 .. top)
    BY <1>1, <1>4, <1>8, <2>1, WheelsAsBits
  <2>4. AsBits({}, s.l + 1, W, {}, x + 1, 0 .. top)
    BY <1>1, <1>4, <1>8, <2>1, WheelsAsBits
  <2> QED
    BY <2>2, <2>3, <2>4
<1>15. ASSUME NEW a \in 0 .. top, NEW b \in 0 .. top
       PROVE  /\ AsBits({a + 1, b + 1}, 1, W, {a, b}, 0, 0 .. top)
              /\ AsBits({a + 1}, 1, W, {a}, 0, 0 .. top)
  <2>1. a \in Int /\ b \in Int /\ 0 \in Int /\ 1 = 0 + 1
    BY <1>1
  <2> QED
    BY <1>1, <1>8, <2>1, WheelsAsBits
<1>11. CASE next.overflow
  <2>1. 0 \in 0 .. top /\ 1 \in 0 .. top /\ 2 \in 0 .. top
    BY <1>1
  <2>2. t = [g |-> g, l |-> 0 + 1, m |-> 1 + 1, r |-> 2 + 1] /\ Turned
    <3>1. next.bits = Three(o, 0, 1, 2) /\ 0 # 1 /\ 0 # 2 /\ 1 # 2
      BY <1>6, <1>11
    <3> HIDE DEF t, Turned
    <3> QED
      BY <1>9, <2>1, <3>1
  <2>3. Later({x, y}, z + 1, 0 .. top) = {} => Later({s.l, s.m}, s.r + 1, W) = {}
    BY <1>10 DEF AsBits
  <2>4. Later({x}, y + 1, 0 .. top) = {} => Later({s.l}, s.m + 1, W) = {}
    BY <1>10 DEF AsBits
  <2>5. Later({}, x + 1, 0 .. top) = {} => Later({}, s.l + 1, W) = {}
    BY <1>10 DEF AsBits
  <2>6. LastWheels(s, W)
    BY <1>6, <1>11, <2>3, <2>4, <2>5 DEF NothingLeft, LastWheels
  <2> HIDE DEF t
  <2>7. t = [g |-> g, l |-> 1, m |-> 2, r |-> 3]
    BY <2>2
  <2> QED
    BY <1>7, <1>11, <2>2, <2>6, <2>7 DEF t, next, W, o
<1>12. CASE ~ next.overflow /\ TurnsRight(next.bits, o, x, y, z, 0 .. top)
  <2>1. PICK c \in 0 .. top : Least(c, {x, y}, z + 1, 0 .. top) /\ next.bits = Three(o, x, y, c)
    BY <1>12 DEF TurnsRight
  <2>2. c # x /\ c # y
    BY <2>1 DEF Least, Later
  <2>3. t = [g |-> g, l |-> x + 1, m |-> y + 1, r |-> c + 1] /\ Turned
    BY <1>4, <1>9, <2>1, <2>2
  <2>4. Least(c + 1, {s.l, s.m}, s.r + 1, W)
    BY <1>10, <2>1 DEF AsBits
  <2> HIDE DEF t
  <2>5. RightTurns(s, t, W)
    BY <1>4, <2>3, <2>4 DEF RightTurns
  <2> QED
    BY <1>7, <1>12, <2>3, <2>5 DEF t, next, W, o
<1>13. CASE ~ next.overflow /\ TurnsMiddle(next.bits, o, x, y, z, 0 .. top)
  <2>1. PICK b, c \in 0 .. top :
          /\ Later({x, y}, z + 1, 0 .. top) = {}
          /\ Least(b, {x}, y + 1, 0 .. top) /\ Least(c, {x, b}, 0, 0 .. top)
          /\ next.bits = Three(o, x, b, c)
    BY <1>13 DEF TurnsMiddle
  <2>2. b # x /\ c # x /\ c # b
    BY <2>1 DEF Least, Later
  <2>3. t = [g |-> g, l |-> x + 1, m |-> b + 1, r |-> c + 1] /\ Turned
    BY <1>4, <1>9, <2>1, <2>2
  <2>4. Later({s.l, s.m}, s.r + 1, W) = {}
    BY <1>10, <2>1 DEF AsBits
  <2>5. Least(b + 1, {s.l}, s.m + 1, W)
    BY <1>10, <2>1 DEF AsBits
  <2>6. Least(c + 1, {s.l, b + 1}, 1, W)
    BY <1>4, <1>15, <2>1 DEF AsBits
  <2> HIDE DEF t
  <2>7. MiddleTurns(s, t, W)
    BY <1>4, <2>3, <2>4, <2>5, <2>6 DEF MiddleTurns
  <2> QED
    BY <1>7, <1>13, <2>3, <2>7 DEF t, next, W, o
<1>14. CASE ~ next.overflow /\ TurnsLeft(next.bits, o, x, y, z, 0 .. top)
  <2>1. PICK a, b, c \in 0 .. top :
          /\ Later({x, y}, z + 1, 0 .. top) = {} /\ Later({x}, y + 1, 0 .. top) = {}
          /\ Least(a, {}, x + 1, 0 .. top) /\ Least(b, {a}, 0, 0 .. top)
          /\ Least(c, {a, b}, 0, 0 .. top)
          /\ next.bits = Three(o, a, b, c)
    BY <1>14 DEF TurnsLeft
  <2>2. b # a /\ c # a /\ c # b
    BY <2>1 DEF Least, Later
  <2>3. t = [g |-> g, l |-> a + 1, m |-> b + 1, r |-> c + 1] /\ Turned
    BY <1>4, <1>9, <2>1, <2>2
  <2>4. Later({s.l, s.m}, s.r + 1, W) = {}
    BY <1>10, <2>1 DEF AsBits
  <2>5. Later({s.l}, s.m + 1, W) = {}
    BY <1>10, <2>1 DEF AsBits
  <2>6. Least(a + 1, {}, s.l + 1, W)
    BY <1>10, <2>1 DEF AsBits
  <2>8. Least(b + 1, {a + 1}, 1, W)
    BY <1>15, <2>1 DEF AsBits
  <2>9. Least(c + 1, {a + 1, b + 1}, 1, W)
    BY <1>15, <2>1 DEF AsBits
  <2> HIDE DEF t
  <2>10. LeftTurns(s, t, W)
    BY <2>3, <2>4, <2>5, <2>6, <2>8, <2>9 DEF LeftTurns
  <2> QED
    BY <1>7, <1>14, <2>3, <2>10 DEF t, next, W, o
<1> QED
  BY <1>6, <1>11, <1>12, <1>13, <1>14

\* The last of the Greek wheels, and the slots an order begins with
LastGreek(model) == IF model = "M4" THEN Gamma ELSE NoWheel
FirstSlots(g) == [g |-> g, l |-> 1, m |-> 2, r |-> 3]

\* Of the slots s the slots t that follow: the three wheels turn on, and behind
\* the last of them the Greek wheel.
WheelsTurn(s, t, model) ==
  /\ t.g = s.g
  /\ \/ RightTurns(s, t, Wheel(model)) \/ MiddleTurns(s, t, Wheel(model))
     \/ LeftTurns(s, t, Wheel(model))

GreekTurns(s, t, model) ==
  model = "M4" /\ s.g = Beta /\ LastWheels(s, Wheel(model)) /\ t = FirstSlots(Gamma)

LastSlots(s, model) == s.g = LastGreek(model) /\ LastWheels(s, Wheel(model))

\* next_slot takes slots to slots and the masks along with them, in that order;
\* from the last ones it goes back to the first.
THEOREM SlotIterated ==
  ASSUME NEW model \in Models, NEW s \in Slots(model)
  PROVE  LET next == next_slot(s.g, Masks(s, model), model)
         IN /\ next.slot \in Slots(model)
            /\ next.bits = Masks(next.slot, model)
            /\ \/ next.overflow = FALSE /\ WheelsTurn(s, next.slot, model)
               \/ next.overflow = FALSE /\ GreekTurns(s, next.slot, model)
               \/ /\ next.overflow = TRUE /\ LastSlots(s, model)
                  /\ next.slot = FirstSlots(IF model = "M4" THEN Beta ELSE NoWheel)
<1> DEFINE b == Masks(s, model)
           wheels == next_slot_common(b, Mask(model))
           og == 3 - b.og
           turned == [wheels.bits EXCEPT !.og = og]
           greek == IF og = 1 THEN Beta ELSE Gamma
           next == next_slot(s.g, b, model)
           t == SlotOf(s.g, wheels.bits)
           W == Wheel(model)
<1>1. next = IF model = "M4" /\ wheels.overflow
             THEN [bits |-> turned, slot |-> SlotOf(greek, turned), overflow |-> og = 1]
             ELSE [bits |-> wheels.bits, slot |-> t, overflow |-> wheels.overflow]
  BY DEF next_slot
<1>2. /\ t.l \in W /\ t.m \in W /\ t.r \in W /\ t.g = s.g
      /\ t = [g |-> s.g, l |-> t.l, m |-> t.m, r |-> t.r]
      /\ t.l # t.m /\ t.l # t.r /\ t.m # t.r
      /\ wheels.bits = Three(b.og, t.l - 1, t.m - 1, t.r - 1)
      /\ \/ /\ wheels.overflow = TRUE /\ LastWheels(s, W)
            /\ t = [g |-> s.g, l |-> 1, m |-> 2, r |-> 3]
         \/ /\ wheels.overflow = FALSE
            /\ RightTurns(s, t, W) \/ MiddleTurns(s, t, W) \/ LeftTurns(s, t, W)
  BY WheelsInOrder
<1>3. s.g \in Greek(model) /\ 1 \in W /\ 2 \in W /\ 3 \in W
  <2>1. 1 \in 1 .. 5 /\ 2 \in 1 .. 5 /\ 3 \in 1 .. 5 /\ 1 \in 1 .. 8 /\ 2 \in 1 .. 8 /\ 3 \in 1 .. 8
    OBVIOUS
  <2> QED
    BY <2>1 DEF Slots, Wheel
<1>4. b.og = IF model # "M4" THEN 0 ELSE IF s.g = Beta THEN 1 ELSE 2
  BY DEF Masks, Three
<1> HIDE DEF wheels, W, b, t
<1>5. ASSUME NEW g \in Greek(model), NEW x \in W, NEW y \in W, NEW z \in W, x # y, x # z, y # z
      PROVE  [g |-> g, l |-> x, m |-> y, r |-> z] \in Slots(model)
  BY <1>5 DEF Slots, W
<1>6. ASSUME NEW o, NEW g, o = IF model # "M4" THEN 0 ELSE IF g = Beta THEN 1 ELSE 2,
             NEW x, NEW y, NEW z
      PROVE  Three(o, x - 1, y - 1, z - 1) = Masks([g |-> g, l |-> x, m |-> y, r |-> z], model)
  BY <1>6 DEF Masks
<1>7. CASE wheels.overflow = FALSE
  <2>1. next = [bits |-> wheels.bits, slot |-> t, overflow |-> FALSE]
    BY <1>1, <1>7
  <2>2. t \in Slots(model)
    BY <1>2, <1>3, <1>5
  <2>3. wheels.bits = Masks(t, model)
    BY <1>2, <1>4, <1>6
  <2>4. WheelsTurn(s, t, model)
    BY <1>2, <1>7 DEF WheelsTurn, W
  <2>5. next.slot = t /\ next.bits = wheels.bits /\ next.overflow = FALSE
    BY <2>1
  <2> HIDE DEF next
  <2> QED
    BY <2>2, <2>3, <2>4, <2>5 DEF next, b
<1>8. CASE wheels.overflow = TRUE /\ model # "M4"
  <2>1. next = [bits |-> wheels.bits, slot |-> t, overflow |-> TRUE]
    BY <1>1, <1>8
  <2>2. t \in Slots(model)
    BY <1>2, <1>3, <1>5
  <2>3. wheels.bits = Masks(t, model)
    BY <1>2, <1>4, <1>6
  <2>4. LastSlots(s, model) /\ t = FirstSlots(NoWheel)
    BY <1>2, <1>3, <1>8 DEF LastSlots, FirstSlots, LastGreek, Greek, W
  <2>5. next.slot = t /\ next.bits = wheels.bits /\ next.overflow = TRUE
    BY <2>1
  <2> HIDE DEF next
  <2> QED
    BY <1>8, <2>2, <2>3, <2>4, <2>5 DEF next, b
<1>9. CASE wheels.overflow = TRUE /\ model = "M4"
  <2>1. turned = Three(og, 0, 1, 2)
    BY <1>2, <1>9 DEF Three
  <2>2. SlotOf(greek, turned) = FirstSlots(greek)
    <3> HIDE DEF greek, turned
    <3>1. SlotOf(greek, Three(og, 0, 1, 2)) = [g |-> greek, l |-> 0 + 1, m |-> 1 + 1, r |-> 2 + 1]
      BY WheelsOfMasks
    <3> QED
      BY <2>1, <3>1 DEF FirstSlots
  <2>3. LastWheels(s, Wheel(model))
    BY <1>2, <1>9 DEF W
  <2>4. s.g = Beta \/ s.g = Gamma
    BY <1>3, <1>9 DEF Greek
  <2>5. CASE s.g = Beta
    <3>1. og = 2 /\ greek = Gamma
      BY <1>4, <1>9, <2>5
    <3>2. next = [bits |-> turned, slot |-> FirstSlots(Gamma), overflow |-> FALSE]
      <4>1. (og = 1) = FALSE
        BY <3>1
      <4>2. next = [bits |-> turned, slot |-> SlotOf(greek, turned), overflow |-> og = 1]
        BY <1>1, <1>9
      <4> HIDE DEF turned, greek, og, next
      <4> QED
        BY <2>2, <3>1, <4>1, <4>2, Zenon
    <3>3. FirstSlots(Gamma) \in Slots(model)
      BY <1>3, <1>5, <1>9 DEF FirstSlots, Greek
    <3>4. turned = Masks(FirstSlots(Gamma), model)
      BY <1>9, <2>1, <3>1 DEF Masks, FirstSlots, Beta, Gamma
    <3>5. GreekTurns(s, FirstSlots(Gamma), model)
      BY <1>9, <2>3, <2>5 DEF GreekTurns
    <3>6. next.slot = FirstSlots(Gamma) /\ next.bits = turned /\ next.overflow = FALSE
      BY <3>2
    <3> HIDE DEF next
    <3> QED
      BY <3>3, <3>4, <3>5, <3>6 DEF next, b
  <2>6. CASE s.g = Gamma
    <3>1. og = 1 /\ greek = Beta
      BY <1>4, <1>9, <2>6 DEF Beta, Gamma
    <3>2. next = [bits |-> turned, slot |-> FirstSlots(Beta), overflow |-> TRUE]
      BY <1>1, <1>9, <2>2, <3>1
    <3>3. FirstSlots(Beta) \in Slots(model)
      BY <1>3, <1>5, <1>9 DEF FirstSlots, Greek
    <3>4. turned = Masks(FirstSlots(Beta), model)
      BY <1>9, <2>1, <3>1 DEF Masks, FirstSlots
    <3>5. LastSlots(s, model)
      BY <1>9, <2>3, <2>6 DEF LastSlots, LastGreek
    <3>6. next.slot = FirstSlots(Beta) /\ next.bits = turned /\ next.overflow = TRUE
      BY <3>2
    <3> HIDE DEF next
    <3> QED
      BY <1>9, <3>3, <3>4, <3>5, <3>6 DEF next, b
  <2> QED
    BY <2>4, <2>5, <2>6
<1> QED
  BY <1>2, <1>7, <1>8, <1>9

-----------------------------------------------------------------------------
(* The message setting.                                                    *)

Settings == [g : Letter, l : Letter, m : Letter, r : Letter]

\* A digit that the carry from the one before it moves on, and its own carry
Moved(digit, carry) == IF carry = 1 THEN IF digit = 25 THEN 0 ELSE digit + 1 ELSE digit
Carry(digit, carry) == IF digit = 25 /\ carry = 1 THEN 1 ELSE 0

\* What is left of a lane: without the carry out of it and without its lift
LaneOut(sum) == ((sum % 256) - LaneLift(sum % 256)) % 32

\* One lane of the word: with its lift and the carry into it, what comes out
\* of it is the digit and the carry out of it.
LEMMA Lane ==
  ASSUME NEW digit \in Letter, NEW carry \in 0 .. 1
  PROVE  /\ ((digit + 230) + carry) \div 256 = Carry(digit, carry)
         /\ LaneOut((digit + 230) + carry) = Moved(digit, carry)
         /\ (((digit + 102) + carry) % 256 >= 128 <=> Carry(digit, carry) = 1)
         /\ LaneOut((digit + 102) + carry) = Moved(digit, carry)
         /\ Carry(digit, carry) \in 0 .. 1
<1>1. digit \in 0 .. 25
  BY DEF Letter
<1>2. CASE digit = 25 /\ carry = 1
  BY <1>2, SMT DEF LaneOut, LaneLift, Moved, Carry
<1>3. CASE ~ (digit = 25 /\ carry = 1)
  <2> DEFINE out == (digit + 230) + carry
             low == (digit + 102) + carry
  <2>1. out \in 230 .. 255 /\ low \in 102 .. 127
    BY <1>1, <1>3
  <2>2. out \div 32 = 7 /\ out % 256 = out /\ out \div 256 = 0
        /\ low \div 32 = 3 /\ low % 256 = low
    BY <2>1, SMT
  <2>3. LaneLift(out) = 6 /\ LaneLift(low) = 6
    BY <2>2, SMT DEF LaneLift
  <2>4. (out - 6) % 32 = digit + carry /\ (low - 6) % 32 = digit + carry
    BY <1>1, <1>3, SMT
  <2>5. Moved(digit, carry) = digit + carry /\ Carry(digit, carry) = 0
    BY <1>1, <1>3, SMT DEF Moved, Carry
  <2> HIDE DEF out, low
  <2>6. LaneOut(out) = Moved(digit, carry) /\ LaneOut(low) = Moved(digit, carry)
    BY <2>2, <2>3, <2>4, <2>5 DEF LaneOut
  <2>7. ~ low % 256 >= 128
    BY <2>1, <2>2
  <2> QED
    BY <2>2, <2>5, <2>6, <2>7 DEF out, low
<1> QED
  BY <1>2, <1>3

\* What the sum of an upper lane, or of the top one, gives
Upper(sum, digit, carry) ==
  /\ sum \div 256 = Carry(digit, carry) /\ LaneOut(sum) = Moved(digit, carry)
  /\ Carry(digit, carry) \in 0 .. 1
Topmost(sum, digit, carry) ==
  /\ (sum % 256 >= 128 <=> Carry(digit, carry) = 1)
  /\ LaneOut(sum) = Moved(digit, carry)

LEMMA UpperLane ==
  ASSUME NEW digit \in Letter, NEW carry \in 0 .. 1, NEW sum, sum = (digit + 230) + carry
  PROVE  Upper(sum, digit, carry)
<1> DEFINE x == (digit + 230) + carry
<1>1. Upper(x, digit, carry)
  BY Lane, ZenonT(40) DEF Upper
<1> HIDE DEF x
<1>2. sum = x
  BY DEF x
<1> QED
  BY <1>1, <1>2

LEMMA TopLane ==
  ASSUME NEW digit \in Letter, NEW carry \in 0 .. 1, NEW sum, sum = (digit + 102) + carry
  PROVE  Topmost(sum, digit, carry)
<1> DEFINE x == (digit + 102) + carry
<1>1. Topmost(x, digit, carry)
  <2>1. x % 256 >= 128 <=> Carry(digit, carry) = 1
    BY Lane, ZenonT(40)
  <2>2. LaneOut(x) = Moved(digit, carry)
    BY Lane, ZenonT(40)
  <2> QED
    BY <2>1, <2>2, Zenon DEF Topmost
<1> HIDE DEF x
<1>2. sum = x
  BY DEF x
<1> QED
  BY <1>1, <1>2

\* The lanes one after the other, from sums that take in each other's carry
LEMMA Lanes ==
  ASSUME NEW d1 \in Letter, NEW d2 \in Letter, NEW d3 \in Letter, NEW d4 \in Letter,
         NEW M4 \in 0 .. 1, NEW s1, NEW s2, NEW s3, NEW s4,
         s1 = d1 + 231,
         s2 = (d2 + 230) + (s1 \div 256),
         s3 = (d3 + 230) + (s2 \div 256),
         s4 = (IF M4 = 1 THEN d4 + 102 ELSE 127) + (s3 \div 256),
         NEW r, NEW m, NEW l,
         r = Carry(d1, 1), m = Carry(d2, r), l = Carry(d3, m)
  PROVE  /\ r \in 0 .. 1 /\ m \in 0 .. 1 /\ l \in 0 .. 1
         /\ LaneOut(s1) = Moved(d1, 1) /\ LaneOut(s2) = Moved(d2, r)
         /\ LaneOut(s3) = Moved(d3, m) /\ (M4 = 1 => LaneOut(s4) = Moved(d4, l))
         /\ (s4 % 256 >= 128 <=> (IF M4 = 1 THEN Carry(d4, l) ELSE l) = 1)
<1>1. s1 \div 256 = r /\ LaneOut(s1) = Moved(d1, 1) /\ r \in 0 .. 1
  <2>1. s1 = (d1 + 230) + 1 /\ 1 \in 0 .. 1
    BY DEF Letter
  <2>2. Upper(s1, d1, 1)
    BY <2>1, UpperLane
  <2> QED
    BY <2>2 DEF Upper
<1>2. s2 \div 256 = m /\ LaneOut(s2) = Moved(d2, r) /\ m \in 0 .. 1
  <2>1. s2 = (d2 + 230) + r
    BY <1>1
  <2>2. Upper(s2, d2, r)
    BY <1>1, <2>1, UpperLane
  <2> QED
    BY <2>2 DEF Upper
<1>3. s3 \div 256 = l /\ LaneOut(s3) = Moved(d3, m) /\ l \in 0 .. 1
  <2>1. s3 = (d3 + 230) + m
    BY <1>2
  <2>2. Upper(s3, d3, m)
    BY <1>2, <2>1, UpperLane, ZenonT(40)
  <2> QED
    BY <2>2 DEF Upper
<1>4. CASE M4 = 1
  <2>1. s4 = (d4 + 102) + l
    BY <1>3, <1>4
  <2>2. Topmost(s4, d4, l)
    BY <1>3, <2>1, TopLane, ZenonT(40)
  <2>3. (s4 % 256 >= 128 <=> Carry(d4, l) = 1) /\ LaneOut(s4) = Moved(d4, l)
    BY <2>2 DEF Topmost
  <2> QED
    BY <1>1, <1>2, <1>3, <1>4, <2>3
<1>5. CASE M4 # 1
  <2>1. s4 = 127 + l
    BY <1>3, <1>5
  <2>2. (127 + 0) % 256 = 127 /\ (127 + 1) % 256 = 128
    BY SMT
  <2>3. s4 % 256 >= 128 <=> l = 1
    BY <1>3, <2>1, <2>2
  <2> QED
    BY <1>1, <1>2, <1>3, <1>5, <2>3
<1> QED
  BY <1>4, <1>5

\* The three or four lanes of the word together: the letters are counted as one
\* number, the right wheel first, and the carry out of the last one is seen.
THEOREM LettersCounted ==
  ASSUME NEW model \in Models, NEW mesg \in Settings, model # "M4" => mesg.g = 0
  PROVE  LET r == Carry(mesg.r, 1)
             m == Carry(mesg.m, r)
             l == Carry(mesg.l, m)
             g == IF model = "M4" THEN Carry(mesg.g, l) ELSE l
         IN /\ next_mesg(mesg, model).mesg =
                 [g |-> IF model = "M4" THEN Moved(mesg.g, l) ELSE 0,
                  l |-> Moved(mesg.l, m), m |-> Moved(mesg.m, r), r |-> Moved(mesg.r, 1)]
            /\ (next_mesg(mesg, model).overflow <=> g = 1)
<1> DEFINE in == << mesg.r, mesg.m, mesg.l, mesg.g >>
           term(s, i) == in[i] + LanePusher(i, model) + LaneAddend(i, model)
                           + IF i = 1 THEN 0 ELSE s[i - 1] \div 256
           Sums(s) == s = [i \in 1 .. 4 |-> term(s, i)]
           sum == CHOOSE s : Sums(s)
           result(s, i) == IF i = 4 /\ model # "M4" THEN 0
                           ELSE LaneOut(s[i])
           r == Carry(mesg.r, 1)
           m == Carry(mesg.m, r)
           l == Carry(mesg.l, m)
           g == IF model = "M4" THEN Carry(mesg.g, l) ELSE l
<1>1. PICK d1, d2, d3, d4 \in Letter :
        d1 = mesg.r /\ d2 = mesg.m /\ d3 = mesg.l /\ d4 = mesg.g
  BY DEF Settings
<1>2. /\ in[1] = d1 /\ in[2] = d2 /\ in[3] = d3 /\ in[4] = d4
      /\ LanePusher(1, model) = 224 /\ LaneAddend(1, model) = 7
      /\ LanePusher(2, model) = 224 /\ LaneAddend(2, model) = 6
      /\ LanePusher(3, model) = 224 /\ LaneAddend(3, model) = 6
      /\ LanePusher(4, model) = IF model = "M4" THEN 96 ELSE 127
      /\ LaneAddend(4, model) = IF model = "M4" THEN 6 ELSE 0
  <2>1. 2 \in 2 .. 3 /\ 3 \in 2 .. 3 /\ 4 \notin 2 .. 3 /\ 1 \notin 2 .. 3
    OBVIOUS
  <2> QED
    BY <1>1, <2>1 DEF LanePusher, LaneAddend
<1>3. next_mesg(mesg, model) =
        [mesg     |-> [g |-> result(sum, 4), l |-> result(sum, 3),
                       m |-> result(sum, 2), r |-> result(sum, 1)],
         overflow |-> sum[4] % 256 >= 128]
  BY DEF next_mesg, LaneOut
<1>4. \E s : Sums(s)
  <2> DEFINE s1 == term(<< >>, 1)
             s2 == term(<< s1 >>, 2)
             s3 == term(<< s1, s2 >>, 3)
             s4 == term(<< s1, s2, s3 >>, 4)
             h == [i \in 1 .. 4 |-> IF i = 1 THEN s1 ELSE IF i = 2 THEN s2
                                    ELSE IF i = 3 THEN s3 ELSE s4]
  <2>1. h[1] = s1 /\ h[2] = s2 /\ h[3] = s3 /\ h[4] = s4
    <3> HIDE DEF s1, s2, s3, s4
    <3> QED
      OBVIOUS
  <2>2. term(h, 1) = s1 /\ term(h, 2) = s2 /\ term(h, 3) = s3 /\ term(h, 4) = s4
    <3> HIDE DEF h
    <3> HIDE DEF in
    <3> QED
      BY <2>1
  <2> HIDE DEF s1, s2, s3, s4, term
  <2>3. \A i \in 1 .. 4 : h[i] = term(h, i)
    <3>1. \A i \in 1 .. 4 : i = 1 \/ i = 2 \/ i = 3 \/ i = 4
      OBVIOUS
    <3> HIDE DEF h
    <3> QED
      BY <2>1, <2>2, <3>1
  <2>4. h = [i \in 1 .. 4 |-> term(h, i)]
    <3>1. h = [i \in 1 .. 4 |-> h[i]]
      OBVIOUS
    <3> HIDE DEF h
    <3> QED
      BY <2>3, <3>1
  <2> HIDE DEF h
  <2> QED
    BY <2>4
<1>5. Sums(sum)
  <2> HIDE DEF Sums
  <2> QED
    BY <1>4
<1> HIDE DEF sum
<1>6. \A i \in 1 .. 4 : sum[i] = term(sum, i)
  <2> HIDE DEF term
  <2> QED
    BY <1>5
<1>7. /\ sum[1] = d1 + 231
      /\ sum[2] = (d2 + 230) + (sum[1] \div 256)
      /\ sum[3] = (d3 + 230) + (sum[2] \div 256)
      /\ sum[4] = (IF model = "M4" THEN d4 + 102 ELSE d4 + 127) + (sum[3] \div 256)
  <2> HIDE DEF in
  <2>0. /\ sum[1] = term(sum, 1) /\ sum[2] = term(sum, 2)
        /\ sum[3] = term(sum, 3) /\ sum[4] = term(sum, 4)
    <3> HIDE DEF term
    <3> QED
      BY <1>6
  <2>1. sum[1] = d1 + 231
    BY <1>2, <2>0 DEF Letter
  <2>2. sum[2] = (d2 + 230) + (sum[1] \div 256)
    BY <1>2, <2>0, <2>1 DEF Letter
  <2>3. sum[3] = (d3 + 230) + (sum[2] \div 256)
    BY <1>2, <2>0, <2>1, <2>2 DEF Letter
  <2>4. sum[4] = (IF model = "M4" THEN d4 + 102 ELSE d4 + 127) + (sum[3] \div 256)
    BY <1>2, <2>0, <2>1, <2>2, <2>3 DEF Letter
  <2> QED
    BY <2>1, <2>2, <2>3, <2>4
<1> HIDE DEF in, term
<1>8. PICK s1, s2, s3, s4 : s1 = sum[1] /\ s2 = sum[2] /\ s3 = sum[3] /\ s4 = sum[4]
  OBVIOUS
<1>9. PICK M4 \in 0 .. 1 : M4 = 1 <=> model = "M4"
  <2>1. 0 \in 0 .. 1 /\ 1 \in 0 .. 1 /\ 0 # 1
    OBVIOUS
  <2> QED
    BY <2>1
<1>10. s4 = (IF M4 = 1 THEN d4 + 102 ELSE 127) + (s3 \div 256)
  <2>1. model # "M4" => d4 + 127 = 127
    BY <1>1
  <2> QED
    BY <1>7, <1>8, <1>9, <2>1
<1>11. PICK r1, m1, l1 : r1 = r /\ m1 = m /\ l1 = l
  OBVIOUS
<1>12. r1 = Carry(d1, 1) /\ m1 = Carry(d2, r1) /\ l1 = Carry(d3, m1)
  BY <1>1, <1>11
<1>13. /\ LaneOut(s1) = Moved(d1, 1) /\ LaneOut(s2) = Moved(d2, r1)
       /\ LaneOut(s3) = Moved(d3, m1) /\ (M4 = 1 => LaneOut(s4) = Moved(d4, l1))
       /\ (s4 % 256 >= 128 <=> (IF M4 = 1 THEN Carry(d4, l1) ELSE l1) = 1)
  BY <1>7, <1>8, <1>10, <1>12, Lanes
<1> DEFINE to == [g |-> result(sum, 4), l |-> result(sum, 3),
                  m |-> result(sum, 2), r |-> result(sum, 1)]
           out == sum[4] % 256 >= 128
           next == next_mesg(mesg, model)
<1>14. next = [mesg |-> to, overflow |-> out]
  BY <1>3
<1>15. next.mesg = to /\ (next.overflow <=> out)
  <2> HIDE DEF next, to, out
  <2>1. [mesg |-> to, overflow |-> out].overflow = out
    OBVIOUS
  <2>2. [mesg |-> to, overflow |-> out].mesg = to
    OBVIOUS
  <2> QED
    BY <1>14, <2>1, <2>2, Zenon
<1>16. to = [g |-> IF model = "M4" THEN Moved(mesg.g, l) ELSE 0,
             l |-> Moved(mesg.l, m), m |-> Moved(mesg.m, r), r |-> Moved(mesg.r, 1)]
  <2> HIDE DEF r, m, l
  <2> QED
    BY <1>1, <1>8, <1>9, <1>11, <1>13
<1>17. out <=> g = 1
  <2> HIDE DEF r, m, l
  <2> QED
    BY <1>1, <1>8, <1>9, <1>11, <1>13
<1> HIDE DEF to, out, next
<1>18. next.overflow <=> g = 1
  BY <1>15, <1>17
<1>19. next.mesg = [g |-> IF model = "M4" THEN Moved(mesg.g, l) ELSE 0,
             l |-> Moved(mesg.l, m), m |-> Moved(mesg.m, r), r |-> Moved(mesg.r, 1)]
  BY <1>15, <1>16
<1> QED
  BY <1>18, <1>19 DEF next

-----------------------------------------------------------------------------
(* The ring settings.                                                      *)

\* next_ringstellung counts the right ring up to its limit, then the middle one.
LEMMA RingsCounted ==
  ASSUME NEW ring \in [m : Letter, r : Letter], NEW w,
         ring.m < RingLimit(w.m), ring.r < RingLimit(w.r)
  PROVE  LET next == next_ringstellung(ring, w)
         IN /\ next.ring \in [m : Letter, r : Letter]
            /\ next.ring.m < RingLimit(w.m) /\ next.ring.r < RingLimit(w.r)
            /\ \/ /\ next.overflow = FALSE
                  /\ next.ring.m = ring.m /\ next.ring.r = ring.r + 1
               \/ /\ next.overflow = FALSE /\ ring.r = RingLimit(w.r) - 1
                  /\ next.ring.m = ring.m + 1 /\ next.ring.r = 0
               \/ /\ next.overflow = TRUE
                  /\ ring.m = RingLimit(w.m) - 1 /\ ring.r = RingLimit(w.r) - 1
                  /\ next.ring = [m |-> 0, r |-> 0]
<1>1. PICK x, y \in 0 .. 25 : x = ring.m /\ y = ring.r /\ ring = [m |-> x, r |-> y]
  BY DEF Letter
<1>2. PICK a, b \in {13, 26} : a = RingLimit(w.m) /\ b = RingLimit(w.r)
  BY DEF RingLimit
<1>3. x < a /\ y < b
  BY <1>1, <1>2
<1> DEFINE next == next_ringstellung(ring, w)
<1>4. CASE y + 1 < b
  <2>1. next = [ring |-> [m |-> x, r |-> y + 1], overflow |-> FALSE]
    BY <1>1, <1>2, <1>4 DEF next_ringstellung
  <2>2. y + 1 \in Letter /\ x \in Letter
    BY <1>2, <1>4 DEF Letter
  <2> HIDE DEF next
  <2> QED
    BY <1>1, <1>2, <1>3, <1>4, <2>1, <2>2 DEF next
<1>5. CASE ~ (y + 1 < b) /\ x + 1 < a
  <2>1. next = [ring |-> [m |-> x + 1, r |-> 0], overflow |-> FALSE]
    BY <1>1, <1>2, <1>5 DEF next_ringstellung
  <2>2. x + 1 \in Letter /\ 0 \in Letter /\ y = b - 1 /\ 0 < b
    BY <1>2, <1>3, <1>5 DEF Letter
  <2> HIDE DEF next
  <2> QED
    BY <1>1, <1>2, <1>3, <1>5, <2>1, <2>2 DEF next
<1>6. CASE ~ (y + 1 < b) /\ ~ (x + 1 < a)
  <2>1. next = [ring |-> [m |-> 0, r |-> 0], overflow |-> TRUE]
    BY <1>1, <1>2, <1>6 DEF next_ringstellung
  <2>2. 0 \in Letter /\ x = a - 1 /\ y = b - 1 /\ 0 < b /\ 0 < a
    BY <1>2, <1>3, <1>6 DEF Letter
  <2> HIDE DEF next
  <2> QED
    BY <1>1, <1>2, <1>3, <1>6, <2>1, <2>2 DEF next
<1> QED
  BY <1>4, <1>5, <1>6

\* The message setting stays one of the machine.
LEMMA LettersStayLetters ==
  ASSUME NEW model \in Models, NEW mesg \in Settings, model # "M4" => mesg.g = 0
  PROVE  /\ next_mesg(mesg, model).mesg \in Settings
         /\ model # "M4" => next_mesg(mesg, model).mesg.g = 0
<1> DEFINE r == Carry(mesg.r, 1)
           m == Carry(mesg.m, r)
           l == Carry(mesg.l, m)
           to == [g |-> IF model = "M4" THEN Moved(mesg.g, l) ELSE 0,
                  l |-> Moved(mesg.l, m), m |-> Moved(mesg.m, r), r |-> Moved(mesg.r, 1)]
<1>1. next_mesg(mesg, model).mesg = to
  BY LettersCounted
<1>2. \A d \in Letter : \A c : Moved(d, c) \in Letter
  BY SMT DEF Moved, Letter
<1>3. mesg.g \in Letter /\ mesg.l \in Letter /\ mesg.m \in Letter /\ mesg.r \in Letter /\ 0 \in Letter
  BY DEF Settings, Letter
<1> HIDE DEF r, m, l
<1>4. to \in Settings /\ (model # "M4" => to.g = 0)
  BY <1>2, <1>3 DEF Settings
<1> QED
  BY <1>1, <1>4

-----------------------------------------------------------------------------
(* The nest of the loops.                                                  *)

\* The state the iterators carry belongs to the key they have reached.
IteratorsInStep ==
  running => /\ ringOf = WheelsOf(ckey.slot)
             /\ bits = Masks(ckey.slot, ckey.model)

Inv == TypeOK /\ OnlyAdmissibleKeys /\ IteratorsInStep

\* An admissible key by its parts
LEMMA AdmissibleByParts ==
  ASSUME NEW model \in Models, NEW ukw, NEW slot, NEW ring, NEW mesg
  PROVE  LET k == [model |-> model, ukw |-> ukw, slot |-> slot, ring |-> ring, mesg |-> mesg]
         IN Admissible(k) <=>
              /\ ukw \in Ukw(model) /\ slot \in Slots(model)
              /\ ring \in [m : Letter, r : Letter]
              /\ ring.m < RingLimit(slot.m) /\ ring.r < RingLimit(slot.r)
              /\ mesg \in Settings /\ (model # "M4" => mesg.g = 0)
BY Zenon DEF Admissible, KeyOf, Slots, Settings

LEMMA PartsOfAdmissible ==
  ASSUME NEW k, Admissible(k), k.model \in Models
  PROVE  /\ k = [model |-> k.model, ukw |-> k.ukw, slot |-> k.slot, ring |-> k.ring,
                 mesg |-> k.mesg]
         /\ k.ukw \in Ukw(k.model) /\ k.slot \in Slots(k.model)
         /\ k.ring \in [m : Letter, r : Letter]
         /\ k.ring.m < RingLimit(k.slot.m) /\ k.ring.r < RingLimit(k.slot.r)
         /\ k.mesg \in Settings /\ (k.model # "M4" => k.mesg.g = 0)
<1>1. k \in KeyOf(k.model)
  BY DEF Admissible
<1>2. k = [model |-> k.model, ukw |-> k.ukw, slot |-> k.slot, ring |-> k.ring,
           mesg |-> k.mesg]
  BY <1>1, SearchedIsLegible, KeyIsItsParts
<1> QED
  BY <1>2, AdmissibleByParts

\* Masks of a slot are masks.
LEMMA MasksAreMasks ==
  ASSUME NEW model \in Models, NEW s \in Slots(model)
  PROVE  Masks(s, model) \in [og : 0 .. 2, l : SUBSET Bit, m : SUBSET Bit, r : SUBSET Bit]
<1>1. s.l \in 1 .. 8 /\ s.m \in 1 .. 8 /\ s.r \in 1 .. 8
  <2>1. 1 .. 5 \subseteq 1 .. 8
    OBVIOUS
  <2> QED
    BY <2>1 DEF Slots, Wheel
<1>2. s.l - 1 \in Bit /\ s.m - 1 \in Bit /\ s.r - 1 \in Bit
  <2>1. \A w \in 1 .. 8 : w - 1 \in 0 .. 7
    OBVIOUS
  <2> QED
    BY <1>1, <2>1 DEF Bit
<1> QED
  BY <1>2 DEF Masks, Three

\* The wheels a ring iterator is created with
LEMMA WheelsInRange ==
  ASSUME NEW model \in Models, NEW s \in Slots(model)
  PROVE  s.l \in 1 .. 8 /\ s.m \in 1 .. 8 /\ s.r \in 1 .. 8
<1>1. 1 .. 5 \subseteq 1 .. 8
  OBVIOUS
<1> QED
  BY <1>1 DEF Slots, Wheel

\* Below 13 and 26, the rings the wheels may have
LEMMA RingsBegin ==
  ASSUME NEW w
  PROVE  0 < RingLimit(w) /\ 0 \in Letter
BY DEF RingLimit, Letter

\* What the four iterators give at a key, when they are in step with it
Iterated(k) ==
  /\ mesgNext.mesg \in Settings /\ (k.model # "M4" => mesgNext.mesg.g = 0)
  /\ ringNext = next_ringstellung(k.ring, WheelsOf(k.slot))
  /\ ringNext.ring \in [m : Letter, r : Letter]
  /\ ringNext.ring.m < RingLimit(k.slot.m) /\ ringNext.ring.r < RingLimit(k.slot.r)
  /\ ringNext.overflow = TRUE => ringNext.ring = [m |-> 0, r |-> 0]
  /\ slotNext = next_slot(k.slot.g, Masks(k.slot, k.model), k.model)
  /\ slotNext.slot \in Slots(k.model) /\ slotNext.bits = Masks(slotNext.slot, k.model)
  /\ ukwNext.overflow = FALSE => ukwNext.ukw \in Ukw(k.model)

LEMMA IteratedInStep ==
  ASSUME Inv, running
  PROVE  Iterated(ckey)
<1>1. /\ ckey.model \in Models /\ Admissible(ckey)
      /\ ringOf = WheelsOf(ckey.slot) /\ bits = Masks(ckey.slot, ckey.model)
  BY DEF Inv, TypeOK, OnlyAdmissibleKeys, IteratorsInStep
<1>2. /\ ckey.ukw \in Ukw(ckey.model) /\ ckey.slot \in Slots(ckey.model)
      /\ ckey.ring \in [m : Letter, r : Letter]
      /\ ckey.ring.m < RingLimit(ckey.slot.m) /\ ckey.ring.r < RingLimit(ckey.slot.r)
      /\ ckey.mesg \in Settings /\ (ckey.model # "M4" => ckey.mesg.g = 0)
  BY <1>1, PartsOfAdmissible
<1>3. mesgNext.mesg \in Settings /\ (ckey.model # "M4" => mesgNext.mesg.g = 0)
  BY <1>1, <1>2, LettersStayLetters DEF mesgNext
<1>4. /\ ringNext = next_ringstellung(ckey.ring, WheelsOf(ckey.slot))
      /\ ringNext.ring \in [m : Letter, r : Letter]
      /\ ringNext.ring.m < RingLimit(ckey.slot.m) /\ ringNext.ring.r < RingLimit(ckey.slot.r)
      /\ ringNext.overflow = TRUE => ringNext.ring = [m |-> 0, r |-> 0]
  <2> DEFINE w == WheelsOf(ckey.slot)
  <2>1. w.m = ckey.slot.m /\ w.r = ckey.slot.r
    BY DEF WheelsOf
  <2>2. ringNext = next_ringstellung(ckey.ring, w)
    BY <1>1 DEF ringNext
  <2> HIDE DEF w
  <2> QED
    BY <1>2, <2>1, <2>2, RingsCounted DEF w
<1>5. /\ slotNext = next_slot(ckey.slot.g, Masks(ckey.slot, ckey.model), ckey.model)
      /\ slotNext.slot \in Slots(ckey.model)
      /\ slotNext.bits = Masks(slotNext.slot, ckey.model)
  BY <1>1, <1>2, SlotIterated DEF slotNext
<1>6. ukwNext.overflow = FALSE => ukwNext.ukw \in Ukw(ckey.model)
  <2>1. CASE ckey.ukw + 1 > LastUkw(ckey.model)
    BY <2>1 DEF ukwNext, next_ukw
  <2>2. CASE ~ (ckey.ukw + 1 > LastUkw(ckey.model))
    BY <1>1, <1>2, <2>2 DEF ukwNext, next_ukw, LastUkw, Ukw, Models
  <2> QED
    BY <2>1, <2>2
<1> QED
  BY <1>3, <1>4, <1>5, <1>6 DEF Iterated

\* The loops are entered in step.
LEMMA EnteredInStep == Init => Inv
<1> SUFFICES ASSUME Init PROVE Inv
  OBVIOUS
<1> USE DEF Init
<1>1. PICK k \in StartKeys :
        /\ ckey = [k EXCEPT !.slot = init_SlotIterator(k.slot, k.model).slot]
        /\ bits = init_SlotIterator(k.slot, k.model).bits
        /\ ringOf = WheelsOf(init_SlotIterator(k.slot, k.model).slot)
        /\ running = TRUE /\ turns = 0
  BY Zenon
<1>2. k.model \in Models /\ Admissible(k)
  BY SweepAssumption
<1>3. /\ k = [model |-> k.model, ukw |-> k.ukw, slot |-> k.slot, ring |-> k.ring,
              mesg |-> k.mesg]
      /\ k.slot \in Slots(k.model)
  BY <1>2, PartsOfAdmissible
<1>4. init_SlotIterator(k.slot, k.model) = [bits |-> Masks(k.slot, k.model), slot |-> k.slot]
  BY <1>2, <1>3, SlotEntered
<1>5. ckey = k /\ bits = Masks(k.slot, k.model) /\ ringOf = WheelsOf(k.slot)
  BY <1>1, <1>3, <1>4
<1>6. bits \in [og : 0 .. 2, l : SUBSET Bit, m : SUBSET Bit, r : SUBSET Bit]
  BY <1>2, <1>3, <1>5, MasksAreMasks
<1>7. ringOf \in [m : 1 .. 8, r : 1 .. 8]
  BY <1>2, <1>3, <1>5, WheelsInRange DEF WheelsOf
<1>8. turns \in 0 .. MaxTurns
  BY <1>1, SweepAssumption
<1>9. TypeOK
  BY <1>1, <1>2, <1>5, <1>6, <1>7, <1>8 DEF TypeOK, Admissible
<1> QED
  BY <1>2, <1>5, <1>9 DEF Inv, OnlyAdmissibleKeys, IteratorsInStep

\* A state with an admissible key to which the iterators belong
LEMMA BackInStep ==
  ASSUME Inv, running, Turn,
         NEW ukw \in Ukw(ckey.model), NEW slot \in Slots(ckey.model),
         NEW ring \in [m : Letter, r : Letter],
         ring.m < RingLimit(slot.m), ring.r < RingLimit(slot.r),
         NEW mesg \in Settings, ckey.model # "M4" => mesg.g = 0,
         ckey' = [model |-> ckey.model, ukw |-> ukw, slot |-> slot, ring |-> ring,
                  mesg |-> mesg],
         bits' = Masks(slot, ckey.model), ringOf' = WheelsOf(slot), running' = running
  PROVE  Inv'
<1>1. ckey.model \in Models /\ running \in BOOLEAN /\ turns \in 0 .. MaxTurns
  BY DEF Inv, TypeOK
<1>2. Admissible(ckey') /\ ckey'.model = ckey.model /\ ckey'.slot = slot
  BY <1>1, AdmissibleByParts
<1>3. bits' \in [og : 0 .. 2, l : SUBSET Bit, m : SUBSET Bit, r : SUBSET Bit]
  BY <1>1, MasksAreMasks
<1>4. ringOf' \in [m : 1 .. 8, r : 1 .. 8]
  BY <1>1, WheelsInRange DEF WheelsOf
<1>5. turns' \in 0 .. MaxTurns
  BY <1>1, SweepAssumption DEF Turn
<1>6. TypeOK'
  BY <1>1, <1>2, <1>3, <1>4, <1>5 DEF TypeOK, Admissible
<1> QED
  BY <1>2, <1>6 DEF Inv, OnlyAdmissibleKeys, IteratorsInStep

\* Every turn of the loops leaves them in step.
LEMMA TurnInStep == Inv /\ [Next]_vars => Inv'
<1> SUFFICES ASSUME Inv, [Next]_vars PROVE Inv'
  OBVIOUS
<1>1. CASE UNCHANGED vars
  BY <1>1 DEF vars, Inv, TypeOK, OnlyAdmissibleKeys, IteratorsInStep, Admissible, WheelsOf
<1>2. ASSUME Turn
      PROVE  /\ Iterated(ckey) /\ running = TRUE /\ Admissible(ckey) /\ ckey.model \in Models
             /\ ckey = [model |-> ckey.model, ukw |-> ckey.ukw, slot |-> ckey.slot,
                        ring |-> ckey.ring, mesg |-> ckey.mesg]
             /\ ckey.ukw \in Ukw(ckey.model) /\ ckey.slot \in Slots(ckey.model)
             /\ ckey.ring \in [m : Letter, r : Letter]
             /\ ckey.ring.m < RingLimit(ckey.slot.m) /\ ckey.ring.r < RingLimit(ckey.slot.r)
             /\ bits = Masks(ckey.slot, ckey.model) /\ ringOf = WheelsOf(ckey.slot)
  <2>1. running = TRUE
    BY <1>2 DEF Turn, Inv, TypeOK
  <2>2. Admissible(ckey) /\ ckey.model \in Models
    BY <2>1 DEF Inv, TypeOK, OnlyAdmissibleKeys
  <2>3. bits = Masks(ckey.slot, ckey.model) /\ ringOf = WheelsOf(ckey.slot)
    BY <2>1 DEF Inv, IteratorsInStep
  <2> QED
    BY <2>1, <2>2, <2>3, IteratedInStep, PartsOfAdmissible
<1>3. CASE NextMesg
  <2>1. Turn /\ ckey' = [ckey EXCEPT !.mesg = mesgNext.mesg]
        /\ bits' = bits /\ ringOf' = ringOf /\ running' = running
    BY <1>3 DEF NextMesg
  <2>2. ckey' = [model |-> ckey.model, ukw |-> ckey.ukw, slot |-> ckey.slot,
                 ring |-> ckey.ring, mesg |-> mesgNext.mesg]
    BY <1>2, <2>1
  <2> QED
    BY <1>2, <2>1, <2>2, BackInStep DEF Iterated
<1>4. CASE NextRing
  <2>1. Turn /\ ckey' = [ckey EXCEPT !.mesg = mesgNext.mesg, !.ring = ringNext.ring]
        /\ bits' = bits /\ ringOf' = ringOf /\ running' = running
    BY <1>4 DEF NextRing
  <2>2. ckey' = [model |-> ckey.model, ukw |-> ckey.ukw, slot |-> ckey.slot,
                 ring |-> ringNext.ring, mesg |-> mesgNext.mesg]
    BY <1>2, <2>1
  <2> QED
    BY <1>2, <2>1, <2>2, BackInStep DEF Iterated
<1>5. CASE NextSlot
  <2>1. Turn /\ ckey' = [ckey EXCEPT !.mesg = mesgNext.mesg, !.ring = ringNext.ring,
                                     !.slot = slotNext.slot]
        /\ bits' = slotNext.bits /\ ringOf' = WheelsOf(slotNext.slot) /\ running' = running
    BY <1>5 DEF NextSlot
  <2>2. ringNext.ring = [m |-> 0, r |-> 0]
    BY <1>2, <1>5 DEF NextSlot, Iterated, next_ringstellung
  <2>3. ckey' = [model |-> ckey.model, ukw |-> ckey.ukw, slot |-> slotNext.slot,
                 ring |-> ringNext.ring, mesg |-> mesgNext.mesg]
    BY <1>2, <2>1
  <2>4. ringNext.ring.m < RingLimit(slotNext.slot.m) /\ ringNext.ring.r < RingLimit(slotNext.slot.r)
    BY <2>2, RingsBegin
  <2> QED
    BY <1>2, <2>1, <2>3, <2>4, BackInStep DEF Iterated
<1>6. CASE NextUkw
  <2> DEFINE entry == init_SlotIterator(slotNext.slot, ckey.model)
  <2>1. /\ Turn
        /\ ckey' = [ckey EXCEPT !.ukw = ukwNext.ukw, !.slot = entry.slot,
                                !.ring = ringNext.ring, !.mesg = mesgNext.mesg]
        /\ bits' = entry.bits /\ ringOf' = WheelsOf(entry.slot) /\ running' = running
    BY <1>6, Zenon DEF NextUkw
  <2>2. ringNext.ring = [m |-> 0, r |-> 0]
    BY <1>2, <1>6 DEF NextUkw, Iterated, next_ringstellung
  <2>3. entry = [bits |-> Masks(slotNext.slot, ckey.model), slot |-> slotNext.slot]
    BY <1>2, <2>1, SlotEntered DEF Iterated
  <2>4. entry.bits = Masks(slotNext.slot, ckey.model) /\ entry.slot = slotNext.slot
    BY <2>3
  <2> HIDE DEF entry
  <2>5. ckey' = [model |-> ckey.model, ukw |-> ukwNext.ukw, slot |-> slotNext.slot,
                 ring |-> ringNext.ring, mesg |-> mesgNext.mesg]
    BY <1>2, <2>1, <2>4
  <2>6. ringNext.ring.m < RingLimit(slotNext.slot.m) /\ ringNext.ring.r < RingLimit(slotNext.slot.r)
    BY <2>2, RingsBegin
  <2>7. ukwNext.ukw \in Ukw(ckey.model)
    BY <1>2, <1>6 DEF NextUkw, Iterated, ukwNext, next_ukw
  <2> QED
    BY <1>2, <2>1, <2>4, <2>5, <2>6, <2>7, BackInStep, ZenonT(40) DEF Iterated
<1>7. CASE EndOfKeys
  <2>1. /\ Turn
        /\ ckey' = [ckey EXCEPT !.slot = slotNext.slot, !.ring = ringNext.ring,
                                !.mesg = mesgNext.mesg]
        /\ bits' = slotNext.bits /\ ringOf' = ringOf /\ running' = FALSE
    BY <1>7 DEF EndOfKeys
  <2>2. ringNext.ring = [m |-> 0, r |-> 0]
    BY <1>2, <1>7 DEF EndOfKeys, Iterated, next_ringstellung
  <2>3. ckey' = [model |-> ckey.model, ukw |-> ckey.ukw, slot |-> slotNext.slot,
                 ring |-> ringNext.ring, mesg |-> mesgNext.mesg]
    BY <1>2, <2>1
  <2>4. ringNext.ring.m < RingLimit(slotNext.slot.m) /\ ringNext.ring.r < RingLimit(slotNext.slot.r)
    BY <2>2, RingsBegin
  <2>5. Admissible(ckey') /\ ckey'.model = ckey.model
    <3>1. Admissible([model |-> ckey.model, ukw |-> ckey.ukw, slot |-> slotNext.slot,
                      ring |-> ringNext.ring, mesg |-> mesgNext.mesg])
      BY <1>2, <2>1, <2>4, AdmissibleByParts DEF Iterated
    <3> QED
      BY <2>3, <3>1
  <2>6. bits' \in [og : 0 .. 2, l : SUBSET Bit, m : SUBSET Bit, r : SUBSET Bit]
    BY <1>2, <2>1, MasksAreMasks DEF Iterated
  <2>7. ringOf' \in [m : 1 .. 8, r : 1 .. 8] /\ running' \in BOOLEAN
    BY <2>1 DEF Inv, TypeOK
  <2>8. turns' \in 0 .. MaxTurns
    BY <2>1, SweepAssumption DEF Turn, Inv, TypeOK
  <2>9. TypeOK'
    BY <1>2, <2>1, <2>5, <2>6, <2>7, <2>8 DEF TypeOK, Admissible
  <2> QED
    BY <2>1, <2>9 DEF Inv, OnlyAdmissibleKeys, IteratorsInStep
<1> QED
  BY <1>1, <1>3, <1>4, <1>5, <1>6, <1>7 DEF Next

\* The iterators never lose step with the key, however long the sweep: the masks
\* of the slot iterator and the wheels the ring iterator was created with are
\* those of the key hillclimb is at.
THEOREM IteratorsFollowKey == Spec => []Inv
<1>1. Init => Inv
  BY EnteredInStep
<1>2. Inv /\ [Next]_vars => Inv'
  BY TurnInStep
<1> QED
  BY <1>1, <1>2, PTL DEF Spec

LEMMA InvParts == Inv => TypeOK /\ OnlyAdmissibleKeys /\ IteratorsInStep
BY DEF Inv

\* The sweep keeps its state within the types of the code.
THEOREM TypeCorrect == Spec => []TypeOK
BY IteratorsFollowKey, InvParts, PTL

\* From admissible keys of any machine the four loops only visit admissible
\* keys: no wheel in two slots, no ring that repeats another.
THEOREM AlwaysAdmissible == Spec => []OnlyAdmissibleKeys
BY IteratorsFollowKey, InvParts, PTL

LEMMA InvResumes == Inv => EveryKeyCanBeResumed
<1> SUFFICES ASSUME Inv, running PROVE
      Accepted(print_key_rings(ckey), ckey.model)
        /\ set_key(print_key_rings(ckey), ckey.model) = ckey
  BY Zenon DEF EveryKeyCanBeResumed
<1>1. Admissible(ckey) /\ ckey.model \in Models /\ ckey \in KeyOf(ckey.model)
  BY DEF Inv, TypeOK, OnlyAdmissibleKeys
<1> QED
  BY <1>1, SearchedIsLegible, KeyTextRoundTrip

\* At whatever key a search is stopped, the text written of it is accepted and
\* read as that key again.
THEOREM EveryKeyResumed == Spec => []EveryKeyCanBeResumed
BY IteratorsFollowKey, InvResumes, PTL

-----------------------------------------------------------------------------
(* Resuming keeps the order.                                               *)

\* At a key the iterators have reached, iterators created from it would give
\* what they give.
LEMMA FreshIteratorsAgree ==
  ASSUME Inv, running
  PROVE  /\ next_ringstellung(ckey.ring, [m |-> ckey.slot.m, r |-> ckey.slot.r]) = ringNext
         /\ next_slot(ckey.slot.g, init_SlotIterator(ckey.slot, ckey.model).bits, ckey.model)
              = slotNext
<1>1. ckey.model \in Models /\ Admissible(ckey) /\ Iterated(ckey)
  BY IteratedInStep DEF Inv, TypeOK, OnlyAdmissibleKeys
<1>2. ckey.slot \in Slots(ckey.model)
  BY <1>1, PartsOfAdmissible
<1>3. init_SlotIterator(ckey.slot, ckey.model).bits = Masks(ckey.slot, ckey.model)
  BY <1>1, <1>2, SlotEntered
<1> QED
  BY <1>1, <1>3 DEF Iterated, WheelsOf

\* The successor in terms of the iterators of the sweep
LEMMA SuccessorByIterators ==
  ASSUME Inv, running
  PROVE  /\ SuccessorFrom(ckey) =
              [ckey EXCEPT !.mesg = mesgNext.mesg,
                           !.ring = IF mesgNext.overflow THEN ringNext.ring ELSE @,
                           !.slot = IF mesgNext.overflow /\ ringNext.overflow
                                    THEN slotNext.slot ELSE @,
                           !.ukw  = IF mesgNext.overflow /\ ringNext.overflow
                                         /\ slotNext.overflow
                                    THEN ukwNext.ukw ELSE @]
         /\ HasSuccessor(ckey) <=>
              ~ (/\ mesgNext.overflow /\ ringNext.overflow
                 /\ slotNext.overflow /\ ukwNext.overflow)
<1>1. /\ next_ringstellung(ckey.ring, [m |-> ckey.slot.m, r |-> ckey.slot.r]) = ringNext
      /\ next_slot(ckey.slot.g, init_SlotIterator(ckey.slot, ckey.model).bits, ckey.model)
           = slotNext
  BY FreshIteratorsAgree
<1>2. next_mesg(ckey.mesg, ckey.model) = mesgNext /\ next_ukw(ckey.ukw, ckey.model) = ukwNext
  BY DEF mesgNext, ukwNext
<1>3. HasSuccessor(ckey) <=>
        ~ (/\ mesgNext.overflow /\ ringNext.overflow
           /\ slotNext.overflow /\ ukwNext.overflow)
  BY <1>1, <1>2, Zenon DEF HasSuccessor
<1>4. SuccessorFrom(ckey) =
        [ckey EXCEPT !.mesg = mesgNext.mesg,
                     !.ring = IF mesgNext.overflow THEN ringNext.ring ELSE @,
                     !.slot = IF mesgNext.overflow /\ ringNext.overflow
                              THEN slotNext.slot ELSE @,
                     !.ukw  = IF mesgNext.overflow /\ ringNext.overflow
                                   /\ slotNext.overflow
                              THEN ukwNext.ukw ELSE @]
  BY <1>1, <1>2, Zenon DEF SuccessorFrom
<1> QED
  BY <1>3, <1>4

\* The step of a sweep and the step of a search resumed at its key
KeepsOrder ==
  /\ running' = HasSuccessor(ckey)
  /\ running' => ckey' = SuccessorFrom(ckey)

LEMMA TurnKeepsOrder == Inv /\ [Next]_vars => [KeepsOrder]_vars
<1> SUFFICES ASSUME Inv, Next PROVE KeepsOrder
  OBVIOUS
<1>0. Turn
  BY DEF Next, NextMesg, NextRing, NextSlot, NextUkw, EndOfKeys
<1>1. running = TRUE /\ ckey.model \in Models /\ Admissible(ckey)
  BY <1>0 DEF Turn, Inv, TypeOK, OnlyAdmissibleKeys
<1>2. ckey = [model |-> ckey.model, ukw |-> ckey.ukw, slot |-> ckey.slot,
              ring |-> ckey.ring, mesg |-> ckey.mesg]
  BY <1>1, PartsOfAdmissible
<1>3. /\ SuccessorFrom(ckey) =
           [ckey EXCEPT !.mesg = mesgNext.mesg,
                        !.ring = IF mesgNext.overflow THEN ringNext.ring ELSE @,
                        !.slot = IF mesgNext.overflow /\ ringNext.overflow
                                 THEN slotNext.slot ELSE @,
                        !.ukw  = IF mesgNext.overflow /\ ringNext.overflow
                                      /\ slotNext.overflow
                                 THEN ukwNext.ukw ELSE @]
      /\ HasSuccessor(ckey) <=>
           ~ (/\ mesgNext.overflow /\ ringNext.overflow
              /\ slotNext.overflow /\ ukwNext.overflow)
  BY <1>1, SuccessorByIterators
<1>4. HasSuccessor(ckey) \in BOOLEAN
  BY DEF HasSuccessor
<1>5. CASE NextMesg
  <2>1. ckey' = SuccessorFrom(ckey)
    BY <1>2, <1>3, <1>5 DEF NextMesg
  <2>2. HasSuccessor(ckey) /\ running' = TRUE
    BY <1>1, <1>3, <1>5 DEF NextMesg
  <2> QED
    BY <1>4, <2>1, <2>2 DEF KeepsOrder
<1>6. CASE NextRing
  <2>1. ckey' = SuccessorFrom(ckey)
    BY <1>2, <1>3, <1>6 DEF NextRing
  <2>2. HasSuccessor(ckey) /\ running' = TRUE
    BY <1>1, <1>3, <1>6 DEF NextRing
  <2> QED
    BY <1>4, <2>1, <2>2 DEF KeepsOrder
<1>7. CASE NextSlot
  <2>1. ckey' = SuccessorFrom(ckey)
    BY <1>2, <1>3, <1>7 DEF NextSlot
  <2>2. HasSuccessor(ckey) /\ running' = TRUE
    BY <1>1, <1>3, <1>7 DEF NextSlot
  <2> QED
    BY <1>4, <2>1, <2>2 DEF KeepsOrder
<1>8. CASE NextUkw
  <2>1. init_SlotIterator(slotNext.slot, ckey.model).slot = slotNext.slot
    BY <1>1, IteratedInStep, SlotEntered DEF Iterated
  <2>2. ckey' = [ckey EXCEPT !.ukw = ukwNext.ukw, !.slot = slotNext.slot,
                             !.ring = ringNext.ring, !.mesg = mesgNext.mesg]
    BY <1>8, <2>1 DEF NextUkw
  <2>3. ckey' = SuccessorFrom(ckey)
    BY <1>2, <1>3, <1>8, <2>2 DEF NextUkw
  <2>4. HasSuccessor(ckey) /\ running' = TRUE
    BY <1>1, <1>3, <1>8 DEF NextUkw
  <2> QED
    BY <1>4, <2>3, <2>4 DEF KeepsOrder
<1>9. CASE EndOfKeys
  <2>1. ~ HasSuccessor(ckey) /\ running' = FALSE
    BY <1>3, <1>9 DEF EndOfKeys
  <2> QED
    BY <1>4, <2>1 DEF KeepsOrder
<1> QED
  BY <1>5, <1>6, <1>7, <1>8, <1>9 DEF Next

\* A search stopped at any key and resumed there goes on to the key the search
\* would have gone to, and ends where it would have ended: what the iterators
\* have accumulated is never needed.
THEOREM ResumedInOrder == Spec => ResumeKeepsOrder
<1>1. Inv /\ [Next]_vars => [KeepsOrder]_vars
  BY TurnKeepsOrder
<1>2. Spec => [][KeepsOrder]_vars
  BY <1>1, IteratorsFollowKey, PTL DEF Spec
<1> QED
  BY <1>2, PTL DEF KeepsOrder, ResumeKeepsOrder

-----------------------------------------------------------------------------
(* No key is skipped.                                                      *)

\* How a digit moves from one key to the next: it stays, steps on, or goes back
\* from its last value to its first.
Stays(k1, k2, j) == Digits(k1)[j] = Digits(k2)[j]
Steps(k1, k2, i) ==
  /\ Digits(k1)[i] < Digits(k2)[i]
  /\ Digits(k2)[i] \in Allowed(k2, i)
  /\ \A c \in Allowed(k1, i) : ~ (Digits(k1)[i] < c /\ c < Digits(k2)[i])
Wraps(k1, k2, j) ==
  Digits(k1)[j] = Max(Allowed(k1, j)) /\ Digits(k2)[j] = Min(Allowed(k2, j))

UpTo(k1, k2, n) == \A j \in 1 .. n : Stays(k1, k2, j)
Behind(k1, k2, n) == \A j \in n .. 11 : Wraps(k1, k2, j)

LEMMA NextAt ==
  ASSUME NEW k1, NEW k2, NEW i \in 1 .. 11,
         UpTo(k1, k2, i - 1), Steps(k1, k2, i), Behind(k1, k2, i + 1)
  PROVE  IsNextInOrder(k1, k2)
BY Zenon DEF IsNextInOrder, UpTo, Behind, Stays, Steps, Wraps

LEMMA DigitsAre ==
  ASSUME NEW k
  PROVE  /\ Digits(k)[1] = k.ukw /\ Digits(k)[2] = k.slot.g /\ Digits(k)[3] = k.slot.l
         /\ Digits(k)[4] = k.slot.m /\ Digits(k)[5] = k.slot.r
         /\ Digits(k)[6] = k.ring.m /\ Digits(k)[7] = k.ring.r
         /\ Digits(k)[8] = k.mesg.g /\ Digits(k)[9] = k.mesg.l
         /\ Digits(k)[10] = k.mesg.m /\ Digits(k)[11] = k.mesg.r
BY DEF Digits

LEMMA AllowedAre ==
  ASSUME NEW k
  PROVE  /\ Allowed(k, 1) = Ukw(k.model)
         /\ Allowed(k, 2) = Greek(k.model)
         /\ Allowed(k, 3) = Wheel(k.model)
         /\ Allowed(k, 4) = Wheel(k.model) \ {k.slot.l}
         /\ Allowed(k, 5) = Wheel(k.model) \ {k.slot.l, k.slot.m}
         /\ Allowed(k, 6) = 0 .. RingLimit(k.slot.m) - 1
         /\ Allowed(k, 7) = 0 .. RingLimit(k.slot.r) - 1
         /\ Allowed(k, 8) = IF k.model = "M4" THEN Letter ELSE {0}
         /\ Allowed(k, 9) = Letter /\ Allowed(k, 10) = Letter /\ Allowed(k, 11) = Letter
BY SMT DEF Allowed

\* The ends of a set
LEMMA MaxFound ==
  ASSUME NEW S \in SUBSET Int, NEW m \in S, \A y \in S : y <= m
  PROVE  Max(S) = m
<1>1. \A y \in S : m >= y
  OBVIOUS
<1>2. Max(S) \in S /\ \A y \in S : Max(S) >= y
  BY <1>1, Zenon DEF Max
<1>3. PICK x \in Int : x = Max(S) /\ x <= m /\ x >= m
  BY <1>2
<1> QED
  BY <1>3

LEMMA MinFound ==
  ASSUME NEW S \in SUBSET Int, NEW m \in S, \A y \in S : m <= y
  PROVE  Min(S) = m
<1>1. Min(S) \in S /\ \A y \in S : Min(S) <= y
  BY Zenon DEF Min
<1>2. PICK x \in Int : x = Min(S) /\ x <= m /\ x >= m
  BY <1>1
<1> QED
  BY <1>2

LEMMA EndsOfRange ==
  ASSUME NEW a \in Int, NEW b \in Int, a <= b
  PROVE  Max(a .. b) = b /\ Min(a .. b) = a
<1> DEFINE S == a .. b
<1>1. S \in SUBSET Int /\ a \in S /\ b \in S /\ \A y \in S : y <= b /\ a <= y
  OBVIOUS
<1> HIDE DEF S
<1>2. Max(S) = b
  BY <1>1, MaxFound
<1>3. Min(S) = a
  BY <1>1, MinFound
<1> QED
  BY <1>2, <1>3 DEF S

LEMMA EndsOfOne ==
  ASSUME NEW a \in Int
  PROVE  Max({a}) = a /\ Min({a}) = a
<1>1. {a} \in SUBSET Int /\ a \in {a}
  OBVIOUS
<1> QED
  BY <1>1, MaxFound, MinFound

\* The wheels that are not taken: where they begin, go on and end
LEMMA WheelsLeft ==
  ASSUME NEW W \in SUBSET Int, NEW S, NEW w \in W, w \notin S
  PROVE  /\ Later(S, w + 1, W) = {} => Max(W \ S) = w
         /\ \A d : Least(d, S, w + 1, W) =>
                     w < d /\ d \in W \ S /\ \A c \in W \ S : ~ (w < c /\ c < d)
<1>1. W \ S \in SUBSET Int /\ w \in W \ S /\ w \in Int
  OBVIOUS
<1>2. ASSUME NEW c \in W \ S, ~ (c <= w) PROVE c \in Later(S, w + 1, W)
  BY <1>1, <1>2 DEF Later
<1>3. Later(S, w + 1, W) = {} => Max(W \ S) = w
  BY <1>1, <1>2, MaxFound
<1>4. ASSUME NEW d, Least(d, S, w + 1, W)
      PROVE  w < d /\ d \in W \ S /\ \A c \in W \ S : ~ (w < c /\ c < d)
  <2>1. d \in W \ S /\ w + 1 <= d /\ d \in Int
    BY <1>4 DEF Least, Later
  <2>2. ASSUME NEW c \in W \ S, w < c, c < d PROVE FALSE
    <3>1. c \in Later(S, w + 1, W)
      BY <1>1, <1>2, <2>2
    <3>2. c \in Int /\ d <= c
      BY <1>1, <1>4, <3>1 DEF Least
    <3> QED
      BY <2>1, <2>2, <3>2
  <2> QED
    BY <1>1, <2>1, <2>2
<1> QED
  BY <1>3, <1>4

LEMMA WheelsBegin ==
  ASSUME NEW W \in SUBSET Nat, \A w \in W : 1 <= w, NEW S, NEW d, Least(d, S, 1, W)
  PROVE  Min(W \ S) = d
<1>1. d \in W \ S /\ W \ S \in SUBSET Int
  <2>1. \A w \in W : w \in Int
    OBVIOUS
  <2>2. d \in W \ S
    BY DEF Least, Later
  <2> QED
    BY <2>1, <2>2
<1>2. \A c \in W \ S : d <= c
  BY DEF Least, Later
<1> QED
  BY <1>1, <1>2, MinFound

LEMMA Further ==
  ASSUME NEW k1, NEW k2
  PROVE  /\ UpTo(k1, k2, 0) /\ Behind(k1, k2, 12)
         /\ \A i \in 1 .. 11 : UpTo(k1, k2, i - 1) /\ Stays(k1, k2, i) => UpTo(k1, k2, i)
         /\ \A i \in 1 .. 11 : Behind(k1, k2, i + 1) /\ Wraps(k1, k2, i) => Behind(k1, k2, i)
<1>1. UpTo(k1, k2, 0) /\ Behind(k1, k2, 12)
  BY DEF UpTo, Behind
<1>2. ASSUME NEW i \in 1 .. 11, UpTo(k1, k2, i - 1), Stays(k1, k2, i)
      PROVE  UpTo(k1, k2, i)
  <2>1. \A j \in 1 .. i : j \in 1 .. i - 1 \/ j = i
    OBVIOUS
  <2> QED
    BY <1>2, <2>1, Zenon DEF UpTo
<1>3. ASSUME NEW i \in 1 .. 11, Behind(k1, k2, i + 1), Wraps(k1, k2, i)
      PROVE  Behind(k1, k2, i)
  <2>1. \A j \in i .. 11 : j \in i + 1 .. 11 \/ j = i
    OBVIOUS
  <2> QED
    BY <1>3, <2>1, Zenon DEF Behind
<1> QED
  BY <1>1, <1>2, <1>3

\* What is the same in both keys stays.
LEMMA SameSlots ==
  ASSUME NEW k1, NEW k2, k1.ukw = k2.ukw
  PROVE  /\ UpTo(k1, k2, 1)
         /\ k1.slot.g = k2.slot.g => UpTo(k1, k2, 2)
         /\ k1.slot.g = k2.slot.g /\ k1.slot.l = k2.slot.l => UpTo(k1, k2, 3)
         /\ k1.slot.g = k2.slot.g /\ k1.slot.l = k2.slot.l /\ k1.slot.m = k2.slot.m
              => UpTo(k1, k2, 4)
         /\ k1.slot = k2.slot => UpTo(k1, k2, 5)
<1>1. UpTo(k1, k2, 0) /\ Stays(k1, k2, 1)
  BY Further, DigitsAre DEF Stays
<1>2. UpTo(k1, k2, 1)
  BY <1>1, Further
<1>3. k1.slot.g = k2.slot.g => UpTo(k1, k2, 2)
  <2>1. k1.slot.g = k2.slot.g => Stays(k1, k2, 2)
    BY DigitsAre DEF Stays
  <2> QED
    BY <1>2, <2>1, Further
<1>4. k1.slot.g = k2.slot.g /\ k1.slot.l = k2.slot.l => UpTo(k1, k2, 3)
  <2>1. k1.slot.l = k2.slot.l => Stays(k1, k2, 3)
    BY DigitsAre DEF Stays
  <2> QED
    BY <1>3, <2>1, Further
<1>5. k1.slot.g = k2.slot.g /\ k1.slot.l = k2.slot.l /\ k1.slot.m = k2.slot.m
        => UpTo(k1, k2, 4)
  <2>1. k1.slot.m = k2.slot.m => Stays(k1, k2, 4)
    BY DigitsAre DEF Stays
  <2> QED
    BY <1>4, <2>1, Further
<1>6. k1.slot = k2.slot => UpTo(k1, k2, 5)
  <2>1. k1.slot.r = k2.slot.r => Stays(k1, k2, 5)
    BY DigitsAre DEF Stays
  <2> QED
    BY <1>5, <2>1, Further
<1> QED
  BY <1>2, <1>3, <1>4, <1>5, <1>6

LEMMA SameLetters ==
  ASSUME NEW k1, NEW k2, k1.ukw = k2.ukw, k1.slot = k2.slot
  PROVE  /\ k1.ring.m = k2.ring.m => UpTo(k1, k2, 6)
         /\ k1.ring = k2.ring => UpTo(k1, k2, 7)
         /\ k1.ring = k2.ring /\ k1.mesg.g = k2.mesg.g => UpTo(k1, k2, 8)
         /\ k1.ring = k2.ring /\ k1.mesg.g = k2.mesg.g /\ k1.mesg.l = k2.mesg.l
              => UpTo(k1, k2, 9)
         /\ (k1.ring = k2.ring /\ k1.mesg.g = k2.mesg.g /\ k1.mesg.l = k2.mesg.l
               /\ k1.mesg.m = k2.mesg.m)
              => UpTo(k1, k2, 10)
<1>1. UpTo(k1, k2, 5)
  BY SameSlots
<1>2. k1.ring.m = k2.ring.m => UpTo(k1, k2, 6)
  <2>1. k1.ring.m = k2.ring.m => Stays(k1, k2, 6)
    BY DigitsAre DEF Stays
  <2> QED
    BY <1>1, <2>1, Further
<1>3. k1.ring = k2.ring => UpTo(k1, k2, 7)
  <2>1. k1.ring.r = k2.ring.r => Stays(k1, k2, 7)
    BY DigitsAre DEF Stays
  <2> QED
    BY <1>2, <2>1, Further
<1>4. k1.ring = k2.ring /\ k1.mesg.g = k2.mesg.g => UpTo(k1, k2, 8)
  <2>1. k1.mesg.g = k2.mesg.g => Stays(k1, k2, 8)
    BY DigitsAre DEF Stays
  <2> QED
    BY <1>3, <2>1, Further
<1>5. k1.ring = k2.ring /\ k1.mesg.g = k2.mesg.g /\ k1.mesg.l = k2.mesg.l => UpTo(k1, k2, 9)
  <2>1. k1.mesg.l = k2.mesg.l => Stays(k1, k2, 9)
    BY DigitsAre DEF Stays
  <2> QED
    BY <1>4, <2>1, Further
<1>6. (k1.ring = k2.ring /\ k1.mesg.g = k2.mesg.g /\ k1.mesg.l = k2.mesg.l
         /\ k1.mesg.m = k2.mesg.m)
        => UpTo(k1, k2, 10)
  <2>1. k1.mesg.m = k2.mesg.m => Stays(k1, k2, 10)
    BY DigitsAre DEF Stays
  <2>2. UpTo(k1, k2, 9) /\ Stays(k1, k2, 10) => UpTo(k1, k2, 10)
    <3>1. 10 \in 1 .. 11 /\ 10 - 1 = 9
      OBVIOUS
    <3> QED
      BY <3>1, Further
  <2> QED
    BY <1>5, <2>1, <2>2
<1> QED
  BY <1>2, <1>3, <1>4, <1>5, <1>6

\* The letters of the message setting as one number counted up
LastLetters(model) ==
  [g |-> IF model = "M4" THEN 25 ELSE 0, l |-> 25, m |-> 25, r |-> 25]
FirstLetters == [g |-> 0, l |-> 0, m |-> 0, r |-> 0]

\* The letters t that follow s, by the digit that steps on
LettersTurn(s, t, model) ==
  \/ s.r < 25 /\ t = [g |-> s.g, l |-> s.l, m |-> s.m, r |-> s.r + 1]
  \/ s.r = 25 /\ s.m < 25 /\ t = [g |-> s.g, l |-> s.l, m |-> s.m + 1, r |-> 0]
  \/ /\ s.r = 25 /\ s.m = 25 /\ s.l < 25
     /\ t = [g |-> s.g, l |-> s.l + 1, m |-> 0, r |-> 0]
  \/ /\ model = "M4" /\ s.r = 25 /\ s.m = 25 /\ s.l = 25 /\ s.g < 25
     /\ t = [g |-> s.g + 1, l |-> 0, m |-> 0, r |-> 0]

\* next_mesg takes the letters through their order and, from the last ones, back
\* to the first.
THEOREM LettersInOrder ==
  ASSUME NEW model \in Models, NEW mesg \in Settings, model # "M4" => mesg.g = 0
  PROVE  LET next == next_mesg(mesg, model)
         IN IF next.overflow
            THEN mesg = LastLetters(model) /\ next.mesg = FirstLetters
            ELSE LettersTurn(mesg, next.mesg, model)
<1> DEFINE r == Carry(mesg.r, 1)
           m == Carry(mesg.m, r)
           l == Carry(mesg.l, m)
           g == IF model = "M4" THEN Carry(mesg.g, l) ELSE l
           next == next_mesg(mesg, model)
           to == [g |-> IF model = "M4" THEN Moved(mesg.g, l) ELSE 0,
                  l |-> Moved(mesg.l, m), m |-> Moved(mesg.m, r), r |-> Moved(mesg.r, 1)]
<1>1. next.mesg = to /\ (next.overflow <=> g = 1)
  BY LettersCounted
<1>2. /\ mesg = [g |-> mesg.g, l |-> mesg.l, m |-> mesg.m, r |-> mesg.r]
      /\ mesg.g \in 0 .. 25 /\ mesg.l \in 0 .. 25 /\ mesg.m \in 0 .. 25 /\ mesg.r \in 0 .. 25
  BY DEF Settings, Letter
<1> HIDE DEF next
<1>3. CASE mesg.r < 25
  <2>1. r = 0 /\ m = 0 /\ l = 0 /\ g = 0
    BY <1>2, <1>3 DEF Carry
  <2>2. to = [g |-> mesg.g, l |-> mesg.l, m |-> mesg.m, r |-> mesg.r + 1]
    BY <1>2, <1>3, <2>1 DEF Moved
  <2> HIDE DEF g, to
  <2> QED
    BY <1>1, <1>3, <2>1, <2>2 DEF LettersTurn, next
<1>4. CASE mesg.r = 25 /\ mesg.m < 25
  <2>1. r = 1 /\ m = 0 /\ l = 0 /\ g = 0
    BY <1>2, <1>4 DEF Carry
  <2>2. to = [g |-> mesg.g, l |-> mesg.l, m |-> mesg.m + 1, r |-> 0]
    BY <1>2, <1>4, <2>1 DEF Moved
  <2> HIDE DEF g, to
  <2> QED
    BY <1>1, <1>4, <2>1, <2>2 DEF LettersTurn, next
<1>5. CASE mesg.r = 25 /\ mesg.m = 25 /\ mesg.l < 25
  <2>1. r = 1 /\ m = 1 /\ l = 0 /\ g = 0
    BY <1>2, <1>5 DEF Carry
  <2>2. to = [g |-> mesg.g, l |-> mesg.l + 1, m |-> 0, r |-> 0]
    BY <1>2, <1>5, <2>1 DEF Moved
  <2> HIDE DEF g, to
  <2> QED
    BY <1>1, <1>5, <2>1, <2>2 DEF LettersTurn, next
<1>6. CASE model = "M4" /\ mesg.r = 25 /\ mesg.m = 25 /\ mesg.l = 25 /\ mesg.g < 25
  <2>1. r = 1 /\ m = 1 /\ l = 1 /\ g = 0
    BY <1>2, <1>6 DEF Carry
  <2>2. to = [g |-> mesg.g + 1, l |-> 0, m |-> 0, r |-> 0]
    BY <1>2, <1>6, <2>1 DEF Moved
  <2> HIDE DEF g, to
  <2> QED
    BY <1>1, <1>6, <2>1, <2>2 DEF LettersTurn, next
<1>7. CASE /\ mesg.r = 25 /\ mesg.m = 25 /\ mesg.l = 25
           /\ mesg.g = IF model = "M4" THEN 25 ELSE 0
  <2>1. r = 1 /\ m = 1 /\ l = 1 /\ g = 1
    BY <1>2, <1>7 DEF Carry
  <2>2. to = FirstLetters
    BY <1>2, <1>7, <2>1 DEF Moved, FirstLetters
  <2>3. mesg = LastLetters(model)
    BY <1>2, <1>7 DEF LastLetters
  <2> HIDE DEF g, to
  <2> QED
    BY <1>1, <2>1, <2>2, <2>3 DEF next
<1> QED
  BY <1>2, <1>3, <1>4, <1>5, <1>6, <1>7

\* Digits that wrap, group by group
LEMMA LettersWrap ==
  ASSUME NEW k1, NEW k2, k1.model = k2.model, k1.mesg = LastLetters(k1.model),
         k2.mesg = FirstLetters
  PROVE  Behind(k1, k2, 8) /\ Behind(k1, k2, 9) /\ Behind(k1, k2, 10) /\ Behind(k1, k2, 11)
<1>1. Max(Letter) = 25 /\ Min(Letter) = 0 /\ Max({0}) = 0 /\ Min({0}) = 0
  <2>1. Max(0 .. 25) = 25 /\ Min(0 .. 25) = 0
    <3>1. 0 \in Int /\ 25 \in Int /\ 0 <= 25
      OBVIOUS
    <3> QED
      BY <3>1, EndsOfRange, Zenon
  <2>2. Max({0}) = 0 /\ Min({0}) = 0
    <3>1. 0 \in Int
      OBVIOUS
    <3> QED
      BY <3>1, EndsOfOne, Zenon
  <2> QED
    BY <2>1, <2>2 DEF Letter
<1>2. Wraps(k1, k2, 9) /\ Wraps(k1, k2, 10) /\ Wraps(k1, k2, 11)
  BY <1>1, DigitsAre, AllowedAre DEF Wraps, LastLetters, FirstLetters
<1>3. Wraps(k1, k2, 8)
  <2> DEFINE A(k) == IF k.model = "M4" THEN Letter ELSE {0}
  <2>1. /\ Max(A(k1)) = IF k1.model = "M4" THEN 25 ELSE 0
        /\ Min(A(k2)) = 0
    BY <1>1, Zenon
  <2>2. Allowed(k1, 8) = A(k1) /\ Allowed(k2, 8) = A(k2)
    BY AllowedAre
  <2>3. Digits(k1)[8] = (IF k1.model = "M4" THEN 25 ELSE 0) /\ Digits(k2)[8] = 0
    BY DigitsAre DEF LastLetters, FirstLetters
  <2> HIDE DEF A
  <2> QED
    BY <2>1, <2>2, <2>3 DEF Wraps
<1>4. Behind(k1, k2, 11)
  BY <1>2, Further
<1>5. Behind(k1, k2, 10)
  BY <1>2, <1>4, Further
<1>6. Behind(k1, k2, 9)
  BY <1>2, <1>5, Further
<1>7. Behind(k1, k2, 8)
  BY <1>3, <1>6, Further
<1> QED
  BY <1>4, <1>5, <1>6, <1>7

LEMMA RingsWrap ==
  ASSUME NEW k1, NEW k2, Behind(k1, k2, 8),
         k1.ring.r = RingLimit(k1.slot.r) - 1, k2.ring.r = 0
  PROVE  /\ Behind(k1, k2, 7)
         /\ k1.ring.m = RingLimit(k1.slot.m) - 1 /\ k2.ring.m = 0 => Behind(k1, k2, 6)
<1>1. \A w : RingLimit(w) - 1 \in Int /\ 0 <= RingLimit(w) - 1
  BY DEF RingLimit
<1>2. \A w : Max(0 .. RingLimit(w) - 1) = RingLimit(w) - 1 /\ Min(0 .. RingLimit(w) - 1) = 0
  BY <1>1, EndsOfRange
<1>3. Wraps(k1, k2, 7)
  BY <1>2, DigitsAre, AllowedAre DEF Wraps
<1>4. Behind(k1, k2, 7)
  BY <1>3, Further
<1>5. k1.ring.m = RingLimit(k1.slot.m) - 1 /\ k2.ring.m = 0 => Wraps(k1, k2, 6)
  BY <1>2, DigitsAre, AllowedAre DEF Wraps
<1> QED
  BY <1>4, <1>5, Further

\* The wheels of a machine
LEMMA WheelSet ==
  ASSUME NEW model \in Models
  PROVE  /\ Wheel(model) \in SUBSET Nat /\ Wheel(model) \in SUBSET Int
         /\ \A w \in Wheel(model) : 1 <= w
         /\ 1 \in Wheel(model) /\ 2 \in Wheel(model) /\ 3 \in Wheel(model)
BY DEF Wheel, Models

\* A slot in which nothing is left, and the first wheel in it
LEMMA SlotWraps ==
  ASSUME NEW model \in Models, NEW S1, NEW S2, NEW w1 \in Wheel(model), w1 \notin S1,
         NEW w2, Later(S1, w1 + 1, Wheel(model)) = {}, Least(w2, S2, 1, Wheel(model))
  PROVE  w1 = Max(Wheel(model) \ S1) /\ w2 = Min(Wheel(model) \ S2)
<1> DEFINE W == Wheel(model)
<1>1. W \in SUBSET Int /\ W \in SUBSET Nat /\ \A w \in W : 1 <= w
  BY WheelSet
<1> HIDE DEF W
<1>2. Max(W \ S1) = w1
  <2>1. w1 \in W /\ Later(S1, w1 + 1, W) = {}
    BY DEF W
  <2> QED
    BY <1>1, <2>1, WheelsLeft
<1>3. Min(W \ S2) = w2
  <2>1. Least(w2, S2, 1, W)
    BY DEF W
  <2> QED
    BY <1>1, <2>1, WheelsBegin
<1> QED
  BY <1>2, <1>3 DEF W

LEMMA SlotSteps ==
  ASSUME NEW model \in Models, NEW S, NEW w1 \in Wheel(model), w1 \notin S,
         NEW w2, Least(w2, S, w1 + 1, Wheel(model))
  PROVE  w1 < w2 /\ w2 \in Wheel(model) \ S
         /\ \A c \in Wheel(model) \ S : ~ (w1 < c /\ c < w2)
<1> DEFINE W == Wheel(model)
<1>1. W \in SUBSET Int /\ w1 \in W /\ Least(w2, S, w1 + 1, W)
  BY WheelSet
<1> HIDE DEF W
<1>2. w1 < w2 /\ w2 \in W \ S /\ \A c \in W \ S : ~ (w1 < c /\ c < w2)
  BY <1>1, WheelsLeft
<1> QED
  BY <1>2 DEF W

\* The first wheels
LEMMA FirstWheels ==
  ASSUME NEW model \in Models
  PROVE  /\ Least(1, {}, 1, Wheel(model)) /\ Least(2, {1}, 1, Wheel(model))
         /\ Least(3, {1, 2}, 1, Wheel(model))
<1> DEFINE W == Wheel(model)
<1>1. W \in SUBSET Nat /\ (\A w \in W : 1 <= w) /\ 1 \in W /\ 2 \in W /\ 3 \in W
  BY WheelSet
<1> HIDE DEF W
<1>2. Least(1, {}, 1, W) /\ Least(2, {1}, 1, W) /\ Least(3, {1, 2}, 1, W)
  BY <1>1 DEF Least, Later
<1> QED
  BY <1>2 DEF W

\* The digits of the slots, behind those that go on
LEMMA WheelsTurnInOrder ==
  ASSUME NEW model \in Models, NEW k1, NEW k2, k1.model = model, k2.model = model,
         k1.slot \in Slots(model), k2.slot \in Slots(model), k1.ukw = k2.ukw,
         Behind(k1, k2, 6), WheelsTurn(k1.slot, k2.slot, model)
  PROVE  IsNextInOrder(k1, k2)
<1> DEFINE s == k1.slot
           t == k2.slot
           W == Wheel(model)
<1>1. /\ s.l \in W /\ s.m \in W /\ s.r \in W
      /\ s.l # s.m /\ s.l # s.r /\ s.m # s.r
      /\ s.m \notin {s.l} /\ s.r \notin {s.l, s.m}
  BY DEF Slots
<1>2. /\ Allowed(k1, 3) = W /\ Allowed(k1, 4) = W \ {s.l} /\ Allowed(k1, 5) = W \ {s.l, s.m}
      /\ Allowed(k2, 3) = W /\ Allowed(k2, 4) = W \ {t.l} /\ Allowed(k2, 5) = W \ {t.l, t.m}
      /\ Digits(k1)[3] = s.l /\ Digits(k1)[4] = s.m /\ Digits(k1)[5] = s.r
      /\ Digits(k2)[3] = t.l /\ Digits(k2)[4] = t.m /\ Digits(k2)[5] = t.r
  BY AllowedAre, DigitsAre
<1>3. t.g = s.g /\ (RightTurns(s, t, W) \/ MiddleTurns(s, t, W) \/ LeftTurns(s, t, W))
  BY DEF WheelsTurn
<1>4. CASE RightTurns(s, t, W)
  <2>1. t.l = s.l /\ t.m = s.m /\ Least(t.r, {s.l, s.m}, s.r + 1, W)
    BY <1>4 DEF RightTurns
  <2>2. Steps(k1, k2, 5)
    <3>1. PICK S : S = {s.l, s.m}
      OBVIOUS
    <3>2. s.r < t.r /\ t.r \in W \ S /\ \A c \in W \ S : ~ (s.r < c /\ c < t.r)
      <4>1. s.r \in W /\ s.r \notin S /\ Least(t.r, S, s.r + 1, W)
        BY <1>1, <2>1, <3>1, Zenon
      <4> QED
        BY <4>1, SlotSteps
    <3> QED
      BY <1>2, <2>1, <3>1, <3>2, Zenon DEF Steps
  <2>3. UpTo(k1, k2, 4)
    BY <1>3, <2>1, SameSlots
  <2> QED
    BY <2>2, <2>3, NextAt
<1>5. CASE MiddleTurns(s, t, W)
  <2>1. /\ Later({s.l, s.m}, s.r + 1, W) = {}
        /\ t.l = s.l /\ Least(t.m, {s.l}, s.m + 1, W) /\ Least(t.r, {t.l, t.m}, 1, W)
    BY <1>5 DEF MiddleTurns
  <2>2. Steps(k1, k2, 4)
    <3>1. PICK S : S = {s.l}
      OBVIOUS
    <3>2. s.m < t.m /\ t.m \in W \ S /\ \A c \in W \ S : ~ (s.m < c /\ c < t.m)
      <4>1. s.m \in W /\ s.m \notin S /\ Least(t.m, S, s.m + 1, W)
        BY <1>1, <2>1, <3>1, Zenon
      <4> QED
        BY <4>1, SlotSteps
    <3> QED
      BY <1>2, <2>1, <3>1, <3>2, Zenon DEF Steps
  <2>3. Wraps(k1, k2, 5)
    <3>1. PICK S1, S2 : S1 = {s.l, s.m} /\ S2 = {t.l, t.m}
      OBVIOUS
    <3>2. s.r = Max(W \ S1) /\ t.r = Min(W \ S2)
      <4>1. PICK w1, w2 : w1 = s.r /\ w2 = t.r
        OBVIOUS
      <4>2. /\ w1 \in W /\ w1 \notin S1 /\ Later(S1, w1 + 1, W) = {}
            /\ Least(w2, S2, 1, W)
        BY <1>1, <2>1, <3>1, <4>1, Zenon
      <4>3. w1 = Max(W \ S1) /\ w2 = Min(W \ S2)
        BY <4>2, SlotWraps
      <4> QED
        BY <4>1, <4>3
    <3> QED
      BY <1>2, <3>1, <3>2, Zenon DEF Wraps
  <2>4. Behind(k1, k2, 5)
    BY <2>3, Further
  <2>5. UpTo(k1, k2, 3)
    BY <1>3, <2>1, SameSlots
  <2> QED
    BY <2>2, <2>4, <2>5, NextAt
<1>6. CASE LeftTurns(s, t, W)
  <2>1. /\ Later({s.l, s.m}, s.r + 1, W) = {} /\ Later({s.l}, s.m + 1, W) = {}
        /\ Least(t.l, {}, s.l + 1, W) /\ Least(t.m, {t.l}, 1, W)
        /\ Least(t.r, {t.l, t.m}, 1, W)
    BY <1>6 DEF LeftTurns
  <2>2. Steps(k1, k2, 3)
    <3>1. PICK S : S = {}
      OBVIOUS
    <3>2. s.l < t.l /\ t.l \in W \ S /\ \A c \in W \ S : ~ (s.l < c /\ c < t.l)
      <4>1. s.l \in W /\ s.l \notin S /\ Least(t.l, S, s.l + 1, W)
        BY <1>1, <2>1, <3>1, Zenon
      <4> QED
        BY <4>1, SlotSteps
    <3>3. W \ S = W
      BY <3>1
    <3> QED
      BY <1>2, <2>1, <3>2, <3>3, Zenon DEF Steps
  <2>3. Wraps(k1, k2, 5) /\ Wraps(k1, k2, 4)
    <3>1. PICK S1, S2, S3, S4 : S1 = {s.l, s.m} /\ S2 = {t.l, t.m} /\ S3 = {s.l} /\ S4 = {t.l}
      OBVIOUS
    <3>2. s.r = Max(W \ S1) /\ t.r = Min(W \ S2)
      <4>1. PICK w1, w2 : w1 = s.r /\ w2 = t.r
        OBVIOUS
      <4>2. /\ w1 \in W /\ w1 \notin S1 /\ Later(S1, w1 + 1, W) = {}
            /\ Least(w2, S2, 1, W)
        BY <1>1, <2>1, <3>1, <4>1, Zenon
      <4>3. w1 = Max(W \ S1) /\ w2 = Min(W \ S2)
        BY <4>2, SlotWraps
      <4> QED
        BY <4>1, <4>3
    <3>3. s.m = Max(W \ S3) /\ t.m = Min(W \ S4)
      <4>1. PICK w1, w2 : w1 = s.m /\ w2 = t.m
        OBVIOUS
      <4>2. /\ w1 \in W /\ w1 \notin S3 /\ Later(S3, w1 + 1, W) = {}
            /\ Least(w2, S4, 1, W)
        BY <1>1, <2>1, <3>1, <4>1, Zenon
      <4>3. w1 = Max(W \ S3) /\ w2 = Min(W \ S4)
        BY <4>2, SlotWraps
      <4> QED
        BY <4>1, <4>3
    <3> QED
      BY <1>2, <3>1, <3>2, <3>3, Zenon DEF Wraps
  <2>4. Behind(k1, k2, 5)
    BY <2>3, Further
  <2>5. Behind(k1, k2, 4)
    BY <2>3, <2>4, Further
  <2>6. UpTo(k1, k2, 2)
    BY <1>3, SameSlots
  <2> QED
    BY <2>2, <2>5, <2>6, NextAt
<1> QED
  BY <1>3, <1>4, <1>5, <1>6

\* From the last wheels to the first
LEMMA WheelsWrap ==
  ASSUME NEW model \in Models, NEW k1, NEW k2, k1.model = model, k2.model = model,
         k1.slot \in Slots(model), NEW g, k2.slot = FirstSlots(g),
         LastWheels(k1.slot, Wheel(model))
  PROVE  /\ Wraps(k1, k2, 3) /\ Wraps(k1, k2, 4) /\ Wraps(k1, k2, 5)
         /\ Behind(k1, k2, 6) => Behind(k1, k2, 3)
<1> DEFINE s == k1.slot
           W == Wheel(model)
<1>1. /\ s.l \in W /\ s.m \in W /\ s.r \in W
      /\ s.l \notin {} /\ s.m \notin {s.l} /\ s.r \notin {s.l, s.m}
  BY DEF Slots
<1>2. k2.slot.l = 1 /\ k2.slot.m = 2 /\ k2.slot.r = 3
  BY DEF FirstSlots
<1>3. /\ Allowed(k1, 3) = W \ {} /\ Allowed(k1, 4) = W \ {s.l} /\ Allowed(k1, 5) = W \ {s.l, s.m}
      /\ Allowed(k2, 3) = W \ {} /\ Allowed(k2, 4) = W \ {1} /\ Allowed(k2, 5) = W \ {1, 2}
      /\ Digits(k1)[3] = s.l /\ Digits(k1)[4] = s.m /\ Digits(k1)[5] = s.r
      /\ Digits(k2)[3] = 1 /\ Digits(k2)[4] = 2 /\ Digits(k2)[5] = 3
  <2>1. W \ {} = W
    OBVIOUS
  <2> QED
    BY <1>2, <2>1, AllowedAre, DigitsAre
<1>4. /\ Later({s.l, s.m}, s.r + 1, W) = {} /\ Later({s.l}, s.m + 1, W) = {}
      /\ Later({}, s.l + 1, W) = {}
  BY DEF LastWheels
<1>5. Least(1, {}, 1, W) /\ Least(2, {1}, 1, W) /\ Least(3, {1, 2}, 1, W)
  BY FirstWheels
<1>6. Wraps(k1, k2, 3)
  <2>1. PICK S1, S2 : S1 = {} /\ S2 = {}
    OBVIOUS
  <2>2. s.l = Max(W \ S1) /\ 1 = Min(W \ S2)
    <3>1. /\ s.l \in W /\ s.l \notin S1 /\ Later(S1, s.l + 1, W) = {}
          /\ Least(1, S2, 1, W)
      BY <1>1, <1>4, <1>5, <2>1, Zenon
    <3> QED
      BY <3>1, SlotWraps
  <2> QED
    BY <1>3, <2>1, <2>2, Zenon DEF Wraps
<1>7. Wraps(k1, k2, 4)
  <2>1. PICK S1, S2 : S1 = {s.l} /\ S2 = {1}
    OBVIOUS
  <2>2. s.m = Max(W \ S1) /\ 2 = Min(W \ S2)
    <3>1. /\ s.m \in W /\ s.m \notin S1 /\ Later(S1, s.m + 1, W) = {}
          /\ Least(2, S2, 1, W)
      BY <1>1, <1>4, <1>5, <2>1, Zenon
    <3> QED
      BY <3>1, SlotWraps
  <2> QED
    BY <1>3, <2>1, <2>2, Zenon DEF Wraps
<1>8. Wraps(k1, k2, 5)
  <2>1. PICK S1, S2 : S1 = {s.l, s.m} /\ S2 = {1, 2}
    OBVIOUS
  <2>2. s.r = Max(W \ S1) /\ 3 = Min(W \ S2)
    <3>1. /\ s.r \in W /\ s.r \notin S1 /\ Later(S1, s.r + 1, W) = {}
          /\ Least(3, S2, 1, W)
      BY <1>1, <1>4, <1>5, <2>1, Zenon
    <3> QED
      BY <3>1, SlotWraps
  <2> QED
    BY <1>3, <2>1, <2>2, Zenon DEF Wraps
<1>9. Behind(k1, k2, 6) => Behind(k1, k2, 5)
  BY <1>8, Further
<1>10. Behind(k1, k2, 5) => Behind(k1, k2, 4)
  BY <1>7, Further
<1>11. Behind(k1, k2, 4) => Behind(k1, k2, 3)
  BY <1>6, Further
<1> QED
  BY <1>6, <1>7, <1>8, <1>9, <1>10, <1>11

\* One letter steps on, the ones to its right wrap.
LEMMA LettersTurnInOrder ==
  ASSUME NEW model \in Models, NEW k1, NEW k2, k1.model = model, k2.model = model,
         k1.ukw = k2.ukw, k1.slot = k2.slot, k1.ring = k2.ring,
         k1.mesg \in Settings, LettersTurn(k1.mesg, k2.mesg, model)
  PROVE  IsNextInOrder(k1, k2)
<1> DEFINE s == k1.mesg
           t == k2.mesg
<1>1. s.g \in 0 .. 25 /\ s.l \in 0 .. 25 /\ s.m \in 0 .. 25 /\ s.r \in 0 .. 25
  BY DEF Settings, Letter
<1>2. Max(Letter) = 25 /\ Min(Letter) = 0
  <2>1. 0 \in Int /\ 25 \in Int /\ 0 <= 25
    OBVIOUS
  <2> QED
    BY <2>1, EndsOfRange, Zenon DEF Letter
<1>3. /\ Allowed(k1, 9) = Letter /\ Allowed(k1, 10) = Letter /\ Allowed(k1, 11) = Letter
      /\ Allowed(k2, 9) = Letter /\ Allowed(k2, 10) = Letter /\ Allowed(k2, 11) = Letter
      /\ model = "M4" => Allowed(k1, 8) = Letter /\ Allowed(k2, 8) = Letter
  BY AllowedAre
<1>4. /\ Digits(k1)[8] = s.g /\ Digits(k1)[9] = s.l /\ Digits(k1)[10] = s.m /\ Digits(k1)[11] = s.r
      /\ Digits(k2)[8] = t.g /\ Digits(k2)[9] = t.l /\ Digits(k2)[10] = t.m /\ Digits(k2)[11] = t.r
  BY DigitsAre
<1>5. \A d \in 0 .. 25 : d < 25 => /\ d < d + 1 /\ d + 1 \in Letter
                                   /\ \A c \in Letter : ~ (d < c /\ c < d + 1)
  BY DEF Letter
<1>6. CASE s.r < 25 /\ t = [g |-> s.g, l |-> s.l, m |-> s.m, r |-> s.r + 1]
  <2>1. t.g = s.g /\ t.l = s.l /\ t.m = s.m /\ t.r = s.r + 1
    BY <1>6
  <2>2. Steps(k1, k2, 11)
    BY <1>1, <1>3, <1>4, <1>5, <1>6, <2>1 DEF Steps
  <2>3. UpTo(k1, k2, 10) /\ Behind(k1, k2, 12)
    BY <2>1, SameLetters, Further
  <2>4. 11 \in 1 .. 11 /\ 11 - 1 = 10 /\ 11 + 1 = 12
    OBVIOUS
  <2> QED
    BY <2>2, <2>3, <2>4, NextAt
<1>7. CASE s.r = 25 /\ s.m < 25 /\ t = [g |-> s.g, l |-> s.l, m |-> s.m + 1, r |-> 0]
  <2>1. t.g = s.g /\ t.l = s.l /\ t.m = s.m + 1 /\ t.r = 0
    BY <1>7
  <2>2. Steps(k1, k2, 10)
    BY <1>1, <1>3, <1>4, <1>5, <1>7, <2>1 DEF Steps
  <2>3. Wraps(k1, k2, 11)
    BY <1>2, <1>3, <1>4, <1>7, <2>1 DEF Wraps
  <2>4. UpTo(k1, k2, 9) /\ Behind(k1, k2, 11)
    BY <2>1, <2>3, SameLetters, Further
  <2>5. 10 \in 1 .. 11 /\ 10 - 1 = 9 /\ 10 + 1 = 11
    OBVIOUS
  <2> QED
    BY <2>2, <2>4, <2>5, NextAt
<1>8. CASE s.r = 25 /\ s.m = 25 /\ s.l < 25
           /\ t = [g |-> s.g, l |-> s.l + 1, m |-> 0, r |-> 0]
  <2>1. t.g = s.g /\ t.l = s.l + 1 /\ t.m = 0 /\ t.r = 0
    BY <1>8
  <2>2. Steps(k1, k2, 9)
    BY <1>1, <1>3, <1>4, <1>5, <1>8, <2>1 DEF Steps
  <2>3. Wraps(k1, k2, 11) /\ Wraps(k1, k2, 10)
    BY <1>2, <1>3, <1>4, <1>8, <2>1 DEF Wraps
  <2>4. Behind(k1, k2, 11)
    BY <2>3, Further
  <2>5. UpTo(k1, k2, 8) /\ Behind(k1, k2, 10)
    BY <2>1, <2>3, <2>4, SameLetters, Further
  <2>6. 9 \in 1 .. 11 /\ 9 - 1 = 8 /\ 9 + 1 = 10
    OBVIOUS
  <2> QED
    BY <2>2, <2>5, <2>6, NextAt
<1>9. CASE /\ model = "M4" /\ s.r = 25 /\ s.m = 25 /\ s.l = 25 /\ s.g < 25
           /\ t = [g |-> s.g + 1, l |-> 0, m |-> 0, r |-> 0]
  <2>1. t.g = s.g + 1 /\ t.l = 0 /\ t.m = 0 /\ t.r = 0
    BY <1>9
  <2>2. Steps(k1, k2, 8)
    BY <1>1, <1>3, <1>4, <1>5, <1>9, <2>1 DEF Steps
  <2>3. Wraps(k1, k2, 11) /\ Wraps(k1, k2, 10) /\ Wraps(k1, k2, 9)
    BY <1>2, <1>3, <1>4, <1>9, <2>1 DEF Wraps
  <2>4. Behind(k1, k2, 11)
    BY <2>3, Further
  <2>5. Behind(k1, k2, 10)
    BY <2>3, <2>4, Further
  <2>6. UpTo(k1, k2, 7) /\ Behind(k1, k2, 9)
    BY <2>1, <2>3, <2>5, SameLetters, Further
  <2>7. 8 \in 1 .. 11 /\ 8 - 1 = 7 /\ 8 + 1 = 9
    OBVIOUS
  <2> QED
    BY <2>2, <2>6, <2>7, NextAt
<1> QED
  BY <1>6, <1>7, <1>8, <1>9 DEF LettersTurn

\* A ring steps on, the letters behind it wrap.
LEMMA RingsTurnInOrder ==
  ASSUME NEW k1, NEW k2, k1.ukw = k2.ukw, k1.slot = k2.slot, Behind(k1, k2, 8),
         k1.ring \in [m : Letter, r : Letter], k2.ring \in [m : Letter, r : Letter],
         k2.ring.m < RingLimit(k2.slot.m), k2.ring.r < RingLimit(k2.slot.r),
         \/ k2.ring.m = k1.ring.m /\ k2.ring.r = k1.ring.r + 1
         \/ /\ k1.ring.r = RingLimit(k1.slot.r) - 1
            /\ k2.ring.m = k1.ring.m + 1 /\ k2.ring.r = 0
  PROVE  IsNextInOrder(k1, k2)
<1>1. PICK x1, y1, x2, y2 \in 0 .. 25 :
        /\ x1 = k1.ring.m /\ y1 = k1.ring.r /\ x2 = k2.ring.m /\ y2 = k2.ring.r
  BY DEF Letter
<1>2. PICK a, b \in {13, 26} : a = RingLimit(k2.slot.m) /\ b = RingLimit(k2.slot.r)
  BY DEF RingLimit
<1>3. /\ Allowed(k1, 6) = 0 .. a - 1 /\ Allowed(k2, 6) = 0 .. a - 1
      /\ Allowed(k1, 7) = 0 .. b - 1 /\ Allowed(k2, 7) = 0 .. b - 1
      /\ Digits(k1)[6] = x1 /\ Digits(k1)[7] = y1 /\ Digits(k2)[6] = x2 /\ Digits(k2)[7] = y2
  BY <1>1, <1>2, AllowedAre, DigitsAre, ZenonT(40)
<1>4. x2 < a /\ y2 < b
  BY <1>1, <1>2
<1>5. CASE x2 = x1 /\ y2 = y1 + 1
  <2>1. y1 < y2 /\ y2 \in 0 .. b - 1 /\ \A c \in 0 .. b - 1 : ~ (y1 < c /\ c < y2)
    BY <1>2, <1>4, <1>5
  <2>2. Steps(k1, k2, 7)
    BY <1>3, <2>1, Zenon DEF Steps
  <2>3. UpTo(k1, k2, 6)
    BY <1>1, <1>5, SameLetters
  <2>4. 7 \in 1 .. 11 /\ 7 - 1 = 6 /\ 7 + 1 = 8
    OBVIOUS
  <2> QED
    BY <2>2, <2>3, <2>4, NextAt
<1>6. CASE k1.ring.r = RingLimit(k1.slot.r) - 1 /\ x2 = x1 + 1 /\ y2 = 0
  <2>1. x1 < x2 /\ x2 \in 0 .. a - 1 /\ \A c \in 0 .. a - 1 : ~ (x1 < c /\ c < x2)
    BY <1>2, <1>4, <1>6
  <2>2. Steps(k1, k2, 6)
    BY <1>3, <2>1, Zenon DEF Steps
  <2>3. Behind(k1, k2, 7)
    BY <1>1, <1>6, RingsWrap
  <2>4. UpTo(k1, k2, 5)
    BY SameSlots
  <2>5. 6 \in 1 .. 11 /\ 6 - 1 = 5 /\ 6 + 1 = 7
    OBVIOUS
  <2> QED
    BY <2>2, <2>3, <2>4, <2>5, NextAt
<1> QED
  BY <1>1, <1>5, <1>6

\* The Greek wheel steps on, everything behind it wraps.
LEMMA GreekTurnsInOrder ==
  ASSUME NEW model \in Models, NEW k1, NEW k2, k1.model = model, k2.model = model,
         k1.ukw = k2.ukw, k1.slot \in Slots(model), Behind(k1, k2, 6),
         GreekTurns(k1.slot, k2.slot, model)
  PROVE  IsNextInOrder(k1, k2)
<1>1. /\ model = "M4" /\ k1.slot.g = Beta /\ LastWheels(k1.slot, Wheel(model))
      /\ k2.slot = FirstSlots(Gamma)
  BY DEF GreekTurns
<1>2. Behind(k1, k2, 3)
  BY <1>1, WheelsWrap
<1>3. /\ Allowed(k1, 2) = {9, 10} /\ Allowed(k2, 2) = {9, 10}
      /\ Digits(k1)[2] = 9 /\ Digits(k2)[2] = 10
  BY <1>1, AllowedAre, DigitsAre DEF Greek, Beta, Gamma, FirstSlots
<1>4. Steps(k1, k2, 2)
  BY <1>3 DEF Steps
<1>5. UpTo(k1, k2, 1)
  BY SameSlots
<1>6. 2 \in 1 .. 11 /\ 2 - 1 = 1 /\ 2 + 1 = 3
  OBVIOUS
<1> QED
  BY <1>2, <1>4, <1>5, <1>6, NextAt

\* The last Greek wheel and the last reflector of a machine
LEMMA LastOfAll ==
  ASSUME NEW model \in Models
  PROVE  /\ Max(Greek(model)) = LastGreek(model)
         /\ Min(Greek(model)) = IF model = "M4" THEN Beta ELSE NoWheel
         /\ Max(Ukw(model)) = LastUkw(model)
         /\ Ukw(model) \in SUBSET Int
<1>1. CASE model = "M4"
  <2>1. {9, 10} \in SUBSET Int /\ 9 \in {9, 10} /\ 10 \in {9, 10}
    OBVIOUS
  <2>2. \A y \in {9, 10} : y <= 10 /\ 9 <= y
    OBVIOUS
  <2>3. PICK S : S = {9, 10}
    OBVIOUS
  <2>4. S \in SUBSET Int /\ 9 \in S /\ 10 \in S /\ \A y \in S : y <= 10 /\ 9 <= y
    BY <2>1, <2>2, <2>3
  <2>5. Max(S) = 10
    BY <2>4, MaxFound
  <2>6. Min(S) = 9
    BY <2>4, MinFound
  <2>7. Greek(model) = S
    BY <1>1, <2>3, Zenon DEF Greek, Beta, Gamma
  <2>8. Ukw(model) = 3 .. 4 /\ LastUkw(model) = 4 /\ LastGreek(model) = 10
    BY <1>1 DEF Ukw, LastUkw, LastGreek, Gamma
  <2>9. 3 \in Int /\ 4 \in Int /\ 3 <= 4
    OBVIOUS
  <2>10. Max(3 .. 4) = 4
    BY <2>9, EndsOfRange
  <2>11. 3 .. 4 \in SUBSET Int
    OBVIOUS
  <2> QED
    BY <1>1, <2>5, <2>6, <2>7, <2>8, <2>10, <2>11, Zenon DEF Beta
<1>2. CASE model # "M4"
  <2>1. Max({0}) = 0 /\ Min({0}) = 0
    <3>1. 0 \in Int
      OBVIOUS
    <3> QED
      BY <3>1, EndsOfOne, Zenon
  <2>2. Greek(model) = {0} /\ LastGreek(model) = 0
    BY <1>2, Zenon DEF Greek, LastGreek, NoWheel
  <2>3. Max(0 .. 2) = 2 /\ Max(1 .. 2) = 2
    <3>1. 0 \in Int /\ 1 \in Int /\ 2 \in Int /\ 0 <= 2 /\ 1 <= 2
      OBVIOUS
    <3> QED
      BY <3>1, EndsOfRange, Zenon
  <2>4. Ukw(model) = 0 .. 2 \/ Ukw(model) = 1 .. 2
    BY <1>2 DEF Models, Ukw
  <2>5. LastUkw(model) = 2
    BY <1>2 DEF LastUkw
  <2>6. 0 .. 2 \in SUBSET Int /\ 1 .. 2 \in SUBSET Int
    OBVIOUS
  <2> QED
    BY <1>2, <2>1, <2>2, <2>3, <2>4, <2>5, <2>6, Zenon DEF NoWheel
<1> QED
  BY <1>1, <1>2

\* The reflector steps on, everything behind it wraps.
LEMMA UkwTurnsInOrder ==
  ASSUME NEW model \in Models, NEW k1, NEW k2, k1.model = model, k2.model = model,
         k1.slot \in Slots(model), Behind(k1, k2, 6), LastSlots(k1.slot, model),
         k2.slot = FirstSlots(IF model = "M4" THEN Beta ELSE NoWheel),
         k1.ukw \in Ukw(model), k2.ukw = k1.ukw + 1, k2.ukw \in Ukw(model)
  PROVE  IsNextInOrder(k1, k2)
<1>1. k1.slot.g = LastGreek(model) /\ LastWheels(k1.slot, Wheel(model))
  BY DEF LastSlots
<1>2. Behind(k1, k2, 3)
  BY <1>1, WheelsWrap
<1>3. Wraps(k1, k2, 2)
  BY <1>1, LastOfAll, AllowedAre, DigitsAre DEF Wraps, FirstSlots
<1>4. Behind(k1, k2, 2)
  BY <1>2, <1>3, Further
<1>5. k1.ukw \in Int /\ \A c \in Ukw(model) : c \in Int
  BY LastOfAll
<1>6. Steps(k1, k2, 1)
  <2>1. k1.ukw < k2.ukw /\ \A c \in Ukw(model) : ~ (k1.ukw < c /\ c < k2.ukw)
    BY <1>5
  <2>2. /\ Digits(k1)[1] = k1.ukw /\ Digits(k2)[1] = k2.ukw
        /\ Allowed(k1, 1) = Ukw(model) /\ Allowed(k2, 1) = Ukw(model)
    BY AllowedAre, DigitsAre
  <2> QED
    BY <2>1, <2>2, Zenon DEF Steps
<1>7. UpTo(k1, k2, 0)
  BY Further
<1>8. 1 \in 1 .. 11 /\ 1 - 1 = 0 /\ 1 + 1 = 2
  OBVIOUS
<1> QED
  BY <1>4, <1>6, <1>7, <1>8, NextAt

\* What the iterators give at a key, with the place it has in their orders
Ordered(k) ==
  /\ IF mesgNext.overflow
     THEN k.mesg = LastLetters(k.model) /\ mesgNext.mesg = FirstLetters
     ELSE LettersTurn(k.mesg, mesgNext.mesg, k.model)
  /\ \/ /\ ringNext.overflow = FALSE
        /\ ringNext.ring.m = k.ring.m /\ ringNext.ring.r = k.ring.r + 1
     \/ /\ ringNext.overflow = FALSE /\ k.ring.r = RingLimit(k.slot.r) - 1
        /\ ringNext.ring.m = k.ring.m + 1 /\ ringNext.ring.r = 0
     \/ /\ ringNext.overflow = TRUE
        /\ k.ring.m = RingLimit(k.slot.m) - 1 /\ k.ring.r = RingLimit(k.slot.r) - 1
        /\ ringNext.ring = [m |-> 0, r |-> 0]
  /\ \/ slotNext.overflow = FALSE /\ WheelsTurn(k.slot, slotNext.slot, k.model)
     \/ slotNext.overflow = FALSE /\ GreekTurns(k.slot, slotNext.slot, k.model)
     \/ /\ slotNext.overflow = TRUE /\ LastSlots(k.slot, k.model)
        /\ slotNext.slot = FirstSlots(IF k.model = "M4" THEN Beta ELSE NoWheel)

LEMMA OrderedInStep ==
  ASSUME Inv, running
  PROVE  Ordered(ckey)
<1>1. /\ ckey.model \in Models /\ Admissible(ckey)
      /\ ringOf = WheelsOf(ckey.slot) /\ bits = Masks(ckey.slot, ckey.model)
  BY DEF Inv, TypeOK, OnlyAdmissibleKeys, IteratorsInStep
<1>2. /\ ckey.slot \in Slots(ckey.model)
      /\ ckey.ring \in [m : Letter, r : Letter]
      /\ ckey.ring.m < RingLimit(ckey.slot.m) /\ ckey.ring.r < RingLimit(ckey.slot.r)
      /\ ckey.mesg \in Settings /\ (ckey.model # "M4" => ckey.mesg.g = 0)
  BY <1>1, PartsOfAdmissible
<1>3. IF mesgNext.overflow
      THEN ckey.mesg = LastLetters(ckey.model) /\ mesgNext.mesg = FirstLetters
      ELSE LettersTurn(ckey.mesg, mesgNext.mesg, ckey.model)
  BY <1>1, <1>2, LettersInOrder DEF mesgNext
<1>4. \/ /\ ringNext.overflow = FALSE
         /\ ringNext.ring.m = ckey.ring.m /\ ringNext.ring.r = ckey.ring.r + 1
      \/ /\ ringNext.overflow = FALSE /\ ckey.ring.r = RingLimit(ckey.slot.r) - 1
         /\ ringNext.ring.m = ckey.ring.m + 1 /\ ringNext.ring.r = 0
      \/ /\ ringNext.overflow = TRUE
         /\ ckey.ring.m = RingLimit(ckey.slot.m) - 1 /\ ckey.ring.r = RingLimit(ckey.slot.r) - 1
         /\ ringNext.ring = [m |-> 0, r |-> 0]
  <2> DEFINE w == WheelsOf(ckey.slot)
  <2>1. w.m = ckey.slot.m /\ w.r = ckey.slot.r
    BY DEF WheelsOf
  <2>2. ringNext = next_ringstellung(ckey.ring, w)
    BY <1>1 DEF ringNext
  <2> HIDE DEF w
  <2>3. ckey.ring.m < RingLimit(w.m) /\ ckey.ring.r < RingLimit(w.r)
    BY <1>2, <2>1
  <2> DEFINE next == next_ringstellung(ckey.ring, w)
  <2>4. \/ /\ next.overflow = FALSE
           /\ next.ring.m = ckey.ring.m /\ next.ring.r = ckey.ring.r + 1
        \/ /\ next.overflow = FALSE /\ ckey.ring.r = RingLimit(w.r) - 1
           /\ next.ring.m = ckey.ring.m + 1 /\ next.ring.r = 0
        \/ /\ next.overflow = TRUE
           /\ ckey.ring.m = RingLimit(w.m) - 1 /\ ckey.ring.r = RingLimit(w.r) - 1
           /\ next.ring = [m |-> 0, r |-> 0]
    BY <1>2, <2>3, RingsCounted
  <2>5. ringNext = next
    BY <2>2
  <2> HIDE DEF next
  <2> QED
    BY <2>1, <2>4, <2>5
<1>5. \/ slotNext.overflow = FALSE /\ WheelsTurn(ckey.slot, slotNext.slot, ckey.model)
      \/ slotNext.overflow = FALSE /\ GreekTurns(ckey.slot, slotNext.slot, ckey.model)
      \/ /\ slotNext.overflow = TRUE /\ LastSlots(ckey.slot, ckey.model)
         /\ slotNext.slot = FirstSlots(IF ckey.model = "M4" THEN Beta ELSE NoWheel)
  BY <1>1, <1>2, SlotIterated DEF slotNext
<1> QED
  BY <1>3, <1>4, <1>5, Zenon DEF Ordered

LEMMA TurnInOrder ==
  ASSUME Inv, Next
  PROVE  running' => IsNextInOrder(ckey, ckey')
<1>0. Turn
  BY DEF Next, NextMesg, NextRing, NextSlot, NextUkw, EndOfKeys
<1>1. running = TRUE /\ ckey.model \in Models /\ Admissible(ckey) /\ Ordered(ckey) /\ Iterated(ckey)
  BY <1>0, OrderedInStep, IteratedInStep DEF Turn, Inv, TypeOK, OnlyAdmissibleKeys
<1>2. /\ ckey = [model |-> ckey.model, ukw |-> ckey.ukw, slot |-> ckey.slot,
                 ring |-> ckey.ring, mesg |-> ckey.mesg]
      /\ ckey.ukw \in Ukw(ckey.model) /\ ckey.slot \in Slots(ckey.model)
      /\ ckey.ring \in [m : Letter, r : Letter]
      /\ ckey.ring.m < RingLimit(ckey.slot.m) /\ ckey.ring.r < RingLimit(ckey.slot.r)
      /\ ckey.mesg \in Settings
  BY <1>1, PartsOfAdmissible
<1>3. CASE NextMesg
  <2>1. ~ mesgNext.overflow /\ ckey' = [ckey EXCEPT !.mesg = mesgNext.mesg]
    BY <1>3 DEF NextMesg
  <2>2. ckey' = [model |-> ckey.model, ukw |-> ckey.ukw, slot |-> ckey.slot,
                 ring |-> ckey.ring, mesg |-> mesgNext.mesg]
    BY <1>2, <2>1
  <2>3. /\ ckey'.model = ckey.model /\ ckey'.ukw = ckey.ukw /\ ckey'.slot = ckey.slot
        /\ ckey'.ring = ckey.ring /\ ckey'.mesg = mesgNext.mesg
    BY <2>2
  <2>4. LettersTurn(ckey.mesg, ckey'.mesg, ckey.model)
    BY <1>1, <2>1, <2>3, Zenon DEF Ordered
  <2> QED
    BY <1>1, <1>2, <2>3, <2>4, LettersTurnInOrder
<1>4. CASE NextRing
  <2>1. mesgNext.overflow /\ ~ ringNext.overflow
        /\ ckey' = [ckey EXCEPT !.mesg = mesgNext.mesg, !.ring = ringNext.ring]
    BY <1>4 DEF NextRing
  <2>2. ckey' = [model |-> ckey.model, ukw |-> ckey.ukw, slot |-> ckey.slot,
                 ring |-> ringNext.ring, mesg |-> mesgNext.mesg]
    BY <1>2, <2>1
  <2>3. /\ ckey'.model = ckey.model /\ ckey'.ukw = ckey.ukw /\ ckey'.slot = ckey.slot
        /\ ckey'.ring = ringNext.ring /\ ckey'.mesg = mesgNext.mesg
    BY <2>2
  <2>4. Behind(ckey, ckey', 8)
    BY <1>1, <2>1, <2>3, LettersWrap DEF Ordered
  <2>5. \/ ckey'.ring.m = ckey.ring.m /\ ckey'.ring.r = ckey.ring.r + 1
        \/ /\ ckey.ring.r = RingLimit(ckey.slot.r) - 1
           /\ ckey'.ring.m = ckey.ring.m + 1 /\ ckey'.ring.r = 0
    BY <1>1, <2>1, <2>3 DEF Ordered
  <2>6. /\ ckey'.ring \in [m : Letter, r : Letter]
        /\ ckey'.ring.m < RingLimit(ckey'.slot.m) /\ ckey'.ring.r < RingLimit(ckey'.slot.r)
    BY <1>1, <2>3 DEF Iterated
  <2> QED
    BY <1>2, <2>3, <2>4, <2>5, <2>6, RingsTurnInOrder
<1>5. CASE NextSlot
  <2>1. mesgNext.overflow /\ ringNext.overflow /\ ~ slotNext.overflow
        /\ ckey' = [ckey EXCEPT !.mesg = mesgNext.mesg, !.ring = ringNext.ring,
                                !.slot = slotNext.slot]
    BY <1>5 DEF NextSlot
  <2>2. ckey' = [model |-> ckey.model, ukw |-> ckey.ukw, slot |-> slotNext.slot,
                 ring |-> ringNext.ring, mesg |-> mesgNext.mesg]
    BY <1>2, <2>1
  <2>3. /\ ckey'.model = ckey.model /\ ckey'.ukw = ckey.ukw /\ ckey'.slot = slotNext.slot
        /\ ckey'.ring = ringNext.ring /\ ckey'.mesg = mesgNext.mesg
    BY <2>2
  <2>4. Behind(ckey, ckey', 8)
    BY <1>1, <2>1, <2>3, LettersWrap DEF Ordered
  <2>5. Behind(ckey, ckey', 6)
    <3>1. /\ ckey.ring.m = RingLimit(ckey.slot.m) - 1 /\ ckey.ring.r = RingLimit(ckey.slot.r) - 1
          /\ ckey'.ring = [m |-> 0, r |-> 0]
      BY <1>1, <2>1, <2>3 DEF Ordered
    <3>2. ckey'.ring.m = 0 /\ ckey'.ring.r = 0
      BY <3>1
    <3> QED
      BY <2>4, <3>1, <3>2, RingsWrap
  <2>6. WheelsTurn(ckey.slot, ckey'.slot, ckey.model) \/ GreekTurns(ckey.slot, ckey'.slot, ckey.model)
    BY <1>1, <2>1, <2>3 DEF Ordered
  <2>7. ckey'.slot \in Slots(ckey.model)
    BY <1>1, <2>3 DEF Iterated
  <2> QED
    BY <1>1, <1>2, <2>3, <2>5, <2>6, <2>7, WheelsTurnInOrder, GreekTurnsInOrder
<1>6. CASE NextUkw
  <2>1. init_SlotIterator(slotNext.slot, ckey.model).slot = slotNext.slot
    BY <1>1, SlotEntered DEF Iterated
  <2>2. mesgNext.overflow /\ ringNext.overflow /\ slotNext.overflow /\ ~ ukwNext.overflow
        /\ ckey' = [ckey EXCEPT !.ukw = ukwNext.ukw, !.slot = slotNext.slot,
                                !.ring = ringNext.ring, !.mesg = mesgNext.mesg]
    BY <1>6, <2>1 DEF NextUkw
  <2>3. ckey' = [model |-> ckey.model, ukw |-> ukwNext.ukw, slot |-> slotNext.slot,
                 ring |-> ringNext.ring, mesg |-> mesgNext.mesg]
    BY <1>2, <2>2
  <2>4. /\ ckey'.model = ckey.model /\ ckey'.ukw = ukwNext.ukw /\ ckey'.slot = slotNext.slot
        /\ ckey'.ring = ringNext.ring /\ ckey'.mesg = mesgNext.mesg
    BY <2>3
  <2>5. Behind(ckey, ckey', 8)
    BY <1>1, <2>2, <2>4, LettersWrap DEF Ordered
  <2>6. Behind(ckey, ckey', 6)
    <3>1. /\ ckey.ring.m = RingLimit(ckey.slot.m) - 1 /\ ckey.ring.r = RingLimit(ckey.slot.r) - 1
          /\ ckey'.ring = [m |-> 0, r |-> 0]
      BY <1>1, <2>2, <2>4 DEF Ordered
    <3>2. ckey'.ring.m = 0 /\ ckey'.ring.r = 0
      BY <3>1
    <3> QED
      BY <2>5, <3>1, <3>2, RingsWrap
  <2>7. LastSlots(ckey.slot, ckey.model)
        /\ ckey'.slot = FirstSlots(IF ckey.model = "M4" THEN Beta ELSE NoWheel)
    BY <1>1, <2>2, <2>4 DEF Ordered
  <2>8. ckey'.ukw = ckey.ukw + 1 /\ ckey'.ukw \in Ukw(ckey.model)
    BY <1>1, <2>2, <2>4 DEF Iterated, ukwNext, next_ukw
  <2> QED
    BY <1>1, <1>2, <2>4, <2>6, <2>7, <2>8, UkwTurnsInOrder
<1>7. CASE EndOfKeys
  BY <1>7 DEF EndOfKeys
<1> QED
  BY <1>3, <1>4, <1>5, <1>6, <1>7 DEF Next

\* Every turn of the loops goes to the next admissible key in the order of keycmp:
\* the search skips no key and takes none twice, for any range of any machine.
THEOREM NoKeySkipped == Spec => NextKeyInOrder
<1>1. Inv /\ [Next]_vars => [running' => IsNextInOrder(ckey, ckey')]_vars
  BY TurnInOrder
<1>2. Spec => [][running' => IsNextInOrder(ckey, ckey')]_vars
  BY <1>1, IteratorsFollowKey, PTL DEF Spec
<1> QED
  BY <1>2, PTL DEF NextKeyInOrder

\* The key at which the loops end
LastOfKeys == \A i \in 1 .. 11 : Digits(ckey)[i] = Max(Allowed(ckey, i))

LEMMA EndIsLast ==
  ASSUME Inv, Next
  PROVE  ~ running' => LastOfKeys
<1>0. Turn
  BY DEF Next, NextMesg, NextRing, NextSlot, NextUkw, EndOfKeys
<1>1. running = TRUE /\ ckey.model \in Models /\ Admissible(ckey) /\ Ordered(ckey)
  BY <1>0, OrderedInStep DEF Turn, Inv, TypeOK, OnlyAdmissibleKeys
<1>2. /\ ckey = [model |-> ckey.model, ukw |-> ckey.ukw, slot |-> ckey.slot,
                 ring |-> ckey.ring, mesg |-> ckey.mesg]
      /\ ckey.ukw \in Ukw(ckey.model) /\ ckey.slot \in Slots(ckey.model)
  BY <1>1, PartsOfAdmissible
<1>3. CASE EndOfKeys
  <2>1. mesgNext.overflow /\ ringNext.overflow /\ slotNext.overflow /\ ukwNext.overflow
        /\ ckey' = [ckey EXCEPT !.slot = slotNext.slot, !.ring = ringNext.ring,
                                !.mesg = mesgNext.mesg]
    BY <1>3 DEF EndOfKeys
  <2>2. ckey' = [model |-> ckey.model, ukw |-> ckey.ukw, slot |-> slotNext.slot,
                 ring |-> ringNext.ring, mesg |-> mesgNext.mesg]
    BY <1>2, <2>1
  <2>3. /\ ckey'.model = ckey.model /\ ckey'.slot = slotNext.slot
        /\ ckey'.ring = ringNext.ring /\ ckey'.mesg = mesgNext.mesg
    BY <2>2
  <2>4. Behind(ckey, ckey', 8)
    BY <1>1, <2>1, <2>3, LettersWrap DEF Ordered
  <2>5. Behind(ckey, ckey', 6)
    <3>1. /\ ckey.ring.m = RingLimit(ckey.slot.m) - 1 /\ ckey.ring.r = RingLimit(ckey.slot.r) - 1
          /\ ckey'.ring = [m |-> 0, r |-> 0]
      BY <1>1, <2>1, <2>3 DEF Ordered
    <3>2. ckey'.ring.m = 0 /\ ckey'.ring.r = 0
      BY <3>1
    <3> QED
      BY <2>4, <3>1, <3>2, RingsWrap
  <2>6. LastSlots(ckey.slot, ckey.model)
        /\ ckey'.slot = FirstSlots(IF ckey.model = "M4" THEN Beta ELSE NoWheel)
    BY <1>1, <2>1, <2>3 DEF Ordered
  <2>7. ckey.slot.g = LastGreek(ckey.model) /\ LastWheels(ckey.slot, Wheel(ckey.model))
    BY <2>6 DEF LastSlots
  <2>8. Behind(ckey, ckey', 3)
    BY <1>1, <1>2, <2>3, <2>5, <2>6, <2>7, WheelsWrap
  <2>9. Digits(ckey)[2] = Max(Allowed(ckey, 2))
    BY <1>1, <2>7, LastOfAll, AllowedAre, DigitsAre
  <2>10. Digits(ckey)[1] = Max(Allowed(ckey, 1))
    <3>1. ckey.ukw + 1 > LastUkw(ckey.model)
      BY <2>1 DEF ukwNext, next_ukw
    <3>2. ckey.ukw = LastUkw(ckey.model)
      BY <1>1, <1>2, <3>1 DEF Models, Ukw, LastUkw
    <3> QED
      BY <1>1, <3>2, LastOfAll, AllowedAre, DigitsAre
  <2>11. \A i \in 1 .. 11 : i = 1 \/ i = 2 \/ i \in 3 .. 11
    OBVIOUS
  <2>12. \A i \in 3 .. 11 : Digits(ckey)[i] = Max(Allowed(ckey, i))
    BY <2>8, Zenon DEF Behind, Wraps
  <2> QED
    BY <2>9, <2>10, <2>11, <2>12, Zenon DEF LastOfKeys
<1>4. CASE NextMesg \/ NextRing \/ NextSlot \/ NextUkw
  BY <1>1, <1>4 DEF NextMesg, NextRing, NextSlot, NextUkw
<1> QED
  BY <1>3, <1>4 DEF Next

\* The loops end behind the last admissible key of the machine and nowhere before.
THEOREM EndsAtLastKey == Spec => EndsBehindLastKey
<1>1. Inv /\ [Next]_vars => [~ running' => LastOfKeys]_vars
  BY EndIsLast
<1>2. Spec => [][~ running' => LastOfKeys]_vars
  BY <1>1, IteratorsFollowKey, PTL DEF Spec
<1> QED
  BY <1>2, PTL DEF EndsBehindLastKey, LastOfKeys
=============================================================================
