------------------------------ MODULE KeySpace ------------------------------
(***************************************************************************)
(* The key of an Enigma message (libEnigma/include/key.h, src/key.c): the  *)
(* reflector, the wheels in the slots, the ring settings and the message   *)
(* setting.  The plugboard part of struct Key is the business of the       *)
(* Stecker module: neither the order of keys nor the iterators read it.    *)
(*                                                                         *)
(* Letters are 0..25, wheels 1..8, and as in the enumerations of key.h the *)
(* Greek wheels are 9 and 10, the reflectors A, B, C, B-thin, C-thin are   *)
(* 0..4.                                                                   *)
(***************************************************************************)
EXTENDS Integers, Sequences

Models == {"H", "M3", "M4"}      \* enum ModelType_t

NoWheel == 0
Beta    == 9
Gamma   == 10

Letter == 0 .. 25
Wheel(model) == IF model = "H" THEN 1 .. 5 ELSE 1 .. 8
Greek(model) == IF model = "M4" THEN {Beta, Gamma} ELSE {NoWheel}
Ukw(model)   == CASE model = "H"  -> 0 .. 2
                  [] model = "M3" -> 1 .. 2
                  [] model = "M4" -> 3 .. 4

\* Wheels 6, 7 and 8 have two notches thirteen letters apart, so that half
\* of their ring settings repeat the other half.
RingLimit(wheel) == IF wheel > 5 THEN 13 ELSE 26

KeyOf(model) ==
  [model : {model},
   ukw   : Ukw(model),
   slot  : [g : Greek(model), l : Wheel(model), m : Wheel(model), r : Wheel(model)],
   ring  : [m : Letter, r : Letter],
   mesg  : [g : Letter, l : Letter, m : Letter, r : Letter]]

\* The keys a search is about: no wheel twice, and only the thirteen ring
\* settings of a two-notch wheel that are not repetitions.
Admissible(k) ==
  /\ k \in KeyOf(k.model)
  /\ k.slot.l # k.slot.m /\ k.slot.l # k.slot.r /\ k.slot.m # k.slot.r
  /\ k.ring.m < RingLimit(k.slot.m) /\ k.ring.r < RingLimit(k.slot.r)
  /\ k.model # "M4" => k.mesg.g = 0

-----------------------------------------------------------------------------

LowUkw(model) == CASE model = "H" -> 0 [] model = "M3" -> 1 [] model = "M4" -> 3

\* The lowest value of every element of a key.
init_key_low(model) ==
  [model |-> model,
   ukw   |-> LowUkw(model),
   slot  |-> [g |-> IF model = "M4" THEN Beta ELSE NoWheel, l |-> 1, m |-> 2, r |-> 3],
   ring  |-> [m |-> 0, r |-> 0],
   mesg  |-> [g |-> 0, l |-> 0, m |-> 0, r |-> 0]]

\* The elements keycmp compares, in the order it compares them.
Digits(k) == << k.ukw, k.slot.g, k.slot.l, k.slot.m, k.slot.r,
                k.ring.m, k.ring.r,
                k.mesg.g, k.mesg.l, k.mesg.m, k.mesg.r >>

keycmp_less(k1, k2) ==
  \E i \in 1 .. 11 :
     /\ Digits(k1)[i] < Digits(k2)[i]
     /\ \A j \in 1 .. i - 1 : Digits(k1)[j] = Digits(k2)[j]

keycmp_greater(k1, k2) == keycmp_less(k2, k1)

Key_equ(k1, k2) ==
  /\ k1.mesg = k2.mesg
  /\ k1.ring = k2.ring
  /\ k1.slot = k2.slot
  /\ k1.ukw = k2.ukw
=============================================================================
