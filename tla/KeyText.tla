------------------------------- MODULE KeyText -------------------------------
(***************************************************************************)
(* Keys as text, "B:123:AA:AAA" or for the M4 "B:G123:AA:AAAA": what       *)
(* print_key_rings (src/resume_out.c) writes to the resume file, and what  *)
(* set_key (src/input.c) makes of a text from there or from the command    *)
(* line.  A text is its parts between the colons, a letter 0..25 whether   *)
(* it is upper or lower case, a wheel its digit.                           *)
(***************************************************************************)
EXTENDS KeySpace

RingType_to_ALPHA(wheel)      == wheel
GreekRingType_to_ALPHA(wheel) == << "B", "G" >>[wheel - 8]
UkwType_to_ALPHA(ukw)         == << "A", "B", "C", "B", "C" >>[ukw + 1]

print_key_rings(key) ==
  [ukw   |-> UkwType_to_ALPHA(key.ukw),
   greek |-> IF key.model = "M4" THEN GreekRingType_to_ALPHA(key.slot.g) ELSE "",
   walze |-> << RingType_to_ALPHA(key.slot.l), RingType_to_ALPHA(key.slot.m),
                RingType_to_ALPHA(key.slot.r) >>,
   ring  |-> << key.ring.m, key.ring.r >>,
   mesg  |-> (IF key.model = "M4" THEN << key.mesg.g >> ELSE << >>)
               \o << key.mesg.l, key.mesg.m, key.mesg.r >>]

-----------------------------------------------------------------------------
\* The length of the text, and the places of its colons
Shaped(text, model) ==
  /\ Len(text.walze) = 3 /\ Len(text.ring) = 2
  /\ IF model = "M4" THEN text.greek # "" /\ Len(text.mesg) = 4
                     ELSE text.greek = "" /\ Len(text.mesg) = 3

\* The reflectors a letter may stand for: one or none
set_ukw(letter, model) ==
  CASE letter = "A" /\ model = "H" -> {0}
    [] letter = "B"                -> {IF model = "M4" THEN 3 ELSE 1}
    [] letter = "C"                -> {IF model = "M4" THEN 4 ELSE 2}
    [] OTHER                       -> {}

WalzeAccepted(text, model) ==
  /\ model = "M4" => text.greek \in {"B", "G"}
  /\ \A i \in 1 .. 3 : 0 <= text.walze[i] /\ text.walze[i] <= (IF model = "H" THEN 5 ELSE 8)
  /\ \A i, j \in 1 .. 3 : i # j => text.walze[i] # text.walze[j]

set_walze(text, model) ==
  [g |-> IF model # "M4" THEN NoWheel ELSE IF text.greek = "B" THEN Beta ELSE Gamma,
   l |-> text.walze[1], m |-> text.walze[2], r |-> text.walze[3]]

\* Mutant: the setting of the Greek wheel is forgotten.
MutantRingsState(letters) ==
  LET n == Len(letters)
  IN [g |-> 0, l |-> letters[n - 2], m |-> letters[n - 1], r |-> letters[n]]

set_RingsState(letters) ==
  LET n == Len(letters)
  IN [g |-> IF n = 4 THEN letters[1] ELSE 0,
      l |-> letters[n - 2], m |-> letters[n - 1], r |-> letters[n]]

MutantRingShortcut(wheel, ring) == wheel > 5 /\ ring > 11    \* mutant: off by one

\* "only rings [A-M] allowed for wheels 6-8": the process ends.
RingShortcut(wheel, ring) == wheel > 5 /\ ring > 12

\* set_key succeeds.  All callers ask it not to adjust.
Accepted(text, model) ==
  /\ Shaped(text, model)
  /\ set_ukw(text.ukw, model) # {}
  /\ WalzeAccepted(text, model)
  /\ ~ RingShortcut(text.walze[2], text.ring[1])
  /\ ~ RingShortcut(text.walze[3], text.ring[2])

set_key(text, model) ==
  [init_key_low(model) EXCEPT
     !.ukw  = CHOOSE u \in set_ukw(text.ukw, model) : TRUE,
     !.slot = set_walze(text, model),
     !.ring = [m |-> text.ring[1], r |-> text.ring[2]],
     !.mesg = set_RingsState(text.mesg)]

\* set_range, for the bounds of the command line and of the resume file
RangeAccepted(kf, kt, model) ==
  /\ Accepted(kf, model) /\ Accepted(kt, model)
  /\ ~ keycmp_greater(set_key(kf, model), set_key(kt, model))
=============================================================================
