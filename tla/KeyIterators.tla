---------------------------- MODULE KeyIterators ----------------------------
(***************************************************************************)
(* The four iterators hillclimb nests (libEnigma/include/iterators): the   *)
(* message setting is the innermost loop, then the rings, the slots and    *)
(* the reflector.  Each operator returns the advanced value and whether it *)
(* has overflowed; an iterator that overflows leaves its part of the key   *)
(* at the value from which the next outer step starts it again.            *)
(***************************************************************************)
EXTENDS KeySpace, FiniteSetsExt

-----------------------------------------------------------------------------
(* next_mesg adds one to four letters packed in a 32-bit word, one to a    *)
(* byte lane, r lowest.  A lane is lifted so that letter 25 plus one       *)
(* carries into the next lane; a lane that did not carry has its lift      *)
(* taken off again through bits 5 and 6.  The carry out of the top lane    *)
(* of the word shows as its sign bit.                                      *)

\* | 0x60E0E0E0 (M4) or | 0x7FE0E0E0: on a letter, or-ing is adding.
LanePusher(i, model) == IF i < 4 THEN 224 ELSE IF model = "M4" THEN 96 ELSE 127

\* + 0x06060607 (M4) or + 0x00060607
LaneAddend(i, model) == CASE i = 1 -> 7 [] i \in 2 .. 3 -> 6
                   [] i = 4 -> IF model = "M4" THEN 6 ELSE 0

\* Mutant: the lift is taken off every lane.
MutantLift(b) == 6

\* ( pushed >> 4 ) & 6 within a lane
LaneLift(b) == 2 * ((b \div 32) % 4)

next_mesg(mesg, model) ==
  LET in == << mesg.r, mesg.m, mesg.l, mesg.g >>
      sum[i \in 1 .. 4] ==
        in[i] + LanePusher(i, model) + LaneAddend(i, model)
          + IF i = 1 THEN 0 ELSE sum[i - 1] \div 256
      pushed(i) == sum[i] % 256
      result(i) == IF i = 4 /\ model # "M4" THEN 0
                   ELSE (pushed(i) - LaneLift(pushed(i))) % 32
  IN [mesg     |-> [g |-> result(4), l |-> result(3),
                    m |-> result(2), r |-> result(1)],
      overflow |-> pushed(4) >= 128]

-----------------------------------------------------------------------------
\* Mutant: a limit is compared with <= .
MutantRingLimit(ring, wheels) ==
  IF ring.r < RingLimit(wheels.r)
  THEN [ring |-> [ring EXCEPT !.r = @ + 1], overflow |-> FALSE]
  ELSE IF ring.m < RingLimit(wheels.m)
       THEN [ring |-> [m |-> ring.m + 1, r |-> 0], overflow |-> FALSE]
       ELSE [ring |-> [m |-> 0, r |-> 0], overflow |-> TRUE]

\* next_ringstellung: the ring settings of the right and the middle
\* wheel, bounded by the wheels the iterator was created with.
next_ringstellung(ring, wheels) ==
  IF ring.r + 1 < RingLimit(wheels.r)
  THEN [ring |-> [ring EXCEPT !.r = @ + 1], overflow |-> FALSE]
  ELSE IF ring.m + 1 < RingLimit(wheels.m)
       THEN [ring |-> [m |-> ring.m + 1, r |-> 0], overflow |-> FALSE]
       ELSE [ring |-> [m |-> 0, r |-> 0], overflow |-> TRUE]

-----------------------------------------------------------------------------
(* The slot iterator keeps its wheels as 8-bit masks with one bit set; a   *)
(* mask is here the set of its bit numbers.                                *)

Bit == 0 .. 7
Mask(model) == IF model = "H" THEN 0 .. 4 ELSE Bit

MaskValue(S) ==
  LET bit(i) == IF i \in S THEN 2 ^ i ELSE 0
  IN bit(0) + bit(1) + bit(2) + bit(3) + bit(4) + bit(5) + bit(6) + bit(7)
MaskOf(n) == {i \in Bit : (n \div 2 ^ i) % 2 = 1}
ShiftLeft(S) == {i + 1 : i \in S} \cap Bit

bits_to_RingType(S) == Min(S) + 1
RingType_to_bits(wheel) == {wheel - 1}

\* ( others + candidate ) & ~others & mask: the carry runs over the wheels
\* that are taken.
bits_adjust_next(others, candidate, mask) ==
  (MaskOf(MaskValue(others) + MaskValue(candidate)) \ others) \cap mask

bits_adjust_next_r(l, m, candidate, mask) ==
  bits_adjust_next(l \cup m, candidate, mask)
MutantNoSkip(l, candidate, mask) == candidate \cap mask   \* mutant: l is not skipped
bits_adjust_next_m(l, candidate, mask) == bits_adjust_next(l, candidate, mask)
bits_adjust_next_l(candidate, mask) == candidate \cap mask

SlotOf(g, bits) == [g |-> g, l |-> bits_to_RingType(bits.l),
                    m |-> bits_to_RingType(bits.m),
                    r |-> bits_to_RingType(bits.r)]

init_SlotIterator(slot, model) ==
  LET mask == Mask(model)
      l == RingType_to_bits(slot.l)
      m == bits_adjust_next_m(l, RingType_to_bits(slot.m), mask)
      r == bits_adjust_next_r(l, m, RingType_to_bits(slot.r), mask)
      bits == [og |-> IF model # "M4" THEN 0 ELSE IF slot.g = Beta THEN 1 ELSE 2,
               l |-> l, m |-> m, r |-> r]
  IN [bits |-> bits, slot |-> SlotOf(slot.g, bits)]

\* The three wheels of the machine; overflow leaves wheels 1, 2, 3.
next_slot_common(bits, mask) ==
  LET r1 == bits_adjust_next_r(bits.l, bits.m, ShiftLeft(bits.r), mask)
      m2 == bits_adjust_next_m(bits.l, ShiftLeft(bits.m), mask)
      r2 == bits_adjust_next_r(bits.l, m2, {0}, mask)
      l3 == bits_adjust_next_l(ShiftLeft(bits.l), mask)
      m3 == bits_adjust_next_m(l3, {0}, mask)
      r3 == bits_adjust_next_r(l3, m3, {0}, mask)
  IN CASE r1 # {} -> [bits |-> [bits EXCEPT !.r = r1], overflow |-> FALSE]
       [] r1 = {} /\ m2 # {} ->
            [bits |-> [bits EXCEPT !.m = m2, !.r = r2], overflow |-> FALSE]
       [] r1 = {} /\ m2 = {} /\ l3 # {} ->
            [bits |-> [bits EXCEPT !.l = l3, !.m = m3, !.r = r3], overflow |-> FALSE]
       [] OTHER ->
            [bits |-> [bits EXCEPT !.l = {0}, !.m = {1}, !.r = {2}], overflow |-> TRUE]

\* next_slot_h, next_slot_m3 and, with the Greek wheel, next_slot_m4
next_slot(g, bits, model) ==
  LET wheels == next_slot_common(bits, Mask(model))
      og     == 3 - bits.og
      turned == [wheels.bits EXCEPT !.og = og]
      greek  == IF og = 1 THEN Beta ELSE Gamma
  IN IF model = "M4" /\ wheels.overflow
     THEN [bits |-> turned, slot |-> SlotOf(greek, turned), overflow |-> og = 1]
     ELSE [bits |-> wheels.bits, slot |-> SlotOf(g, wheels.bits),
           overflow |-> wheels.overflow]

-----------------------------------------------------------------------------
MutantLastUkw(model) == IF model = "M4" THEN 3 ELSE 1      \* mutant: C is not reached
LastUkw(model) == IF model = "M4" THEN 4 ELSE 2

next_ukw(ukw, model) ==
  IF ukw + 1 > LastUkw(model)
  THEN [ukw |-> LowUkw(model), overflow |-> TRUE]
  ELSE [ukw |-> ukw + 1, overflow |-> FALSE]

-----------------------------------------------------------------------------
\* The successor of a key, had the loops been entered at that key: what a
\* search that was stopped there and resumed does next.
SuccessorFrom(k) ==
  LET mesg == next_mesg(k.mesg, k.model)
      ring == next_ringstellung(k.ring, [m |-> k.slot.m, r |-> k.slot.r])
      slot == next_slot(k.slot.g, init_SlotIterator(k.slot, k.model).bits, k.model)
      ukw  == next_ukw(k.ukw, k.model)
  IN [k EXCEPT !.mesg = mesg.mesg,
               !.ring = IF mesg.overflow THEN ring.ring ELSE @,
               !.slot = IF mesg.overflow /\ ring.overflow THEN slot.slot ELSE @,
               !.ukw  = IF mesg.overflow /\ ring.overflow /\ slot.overflow
                        THEN ukw.ukw ELSE @]

HasSuccessor(k) ==
  ~ /\ next_mesg(k.mesg, k.model).overflow
    /\ next_ringstellung(k.ring, [m |-> k.slot.m, r |-> k.slot.r]).overflow
    /\ next_slot(k.slot.g, init_SlotIterator(k.slot, k.model).bits, k.model).overflow
    /\ next_ukw(k.ukw, k.model).overflow
=============================================================================
