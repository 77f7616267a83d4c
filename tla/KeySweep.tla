------------------------------ MODULE KeySweep ------------------------------
(***************************************************************************)
(* The nest of four loops in hillclimb (libEnigma/src/hillclimb.c) that    *)
(* takes one key to the next, with the state the iterators carry from one  *)
(* turn to the next: the masks of the slot iterator, created once per      *)
(* reflector, and the two wheels the ring iterator was created with.  What *)
(* happens at a key is the business of the Hillclimb module.               *)
(***************************************************************************)
EXTENDS KeyIterators, KeyText

CONSTANTS
  StartKeys,   \* the keys a sweep may start from
  MaxTurns     \* bound on the keys visited after the first one

\* Of these wheels set_key accepts nothing else.
ASSUME SweepAssumption ==
  /\ \A k \in StartKeys : k.model \in Models /\ Admissible(k)
  /\ MaxTurns \in Nat \ {0}

VARIABLES
  ckey,        \* state->ckey
  bits,        \* slot_iter.bits
  ringOf,      \* ring_iter.m, ring_iter.r
  running,     \* FALSE once the reflector loop has ended
  turns        \* keys visited after the first one

vars == << ckey, bits, ringOf, running, turns >>

MutantWheelsOf(slot) == [m |-> slot.r, r |-> slot.m]      \* mutant: exchanged
WheelsOf(slot) == [m |-> slot.m, r |-> slot.r]

-----------------------------------------------------------------------------
\* Entering the loops at a key: every iterator is created from it.
Init ==
  \E k \in StartKeys :
     LET entry == init_SlotIterator(k.slot, k.model)
     IN /\ ckey = [k EXCEPT !.slot = entry.slot]
        /\ bits = entry.bits
        /\ ringOf = WheelsOf(entry.slot)
        /\ running = TRUE
        /\ turns = 0

mesgNext == next_mesg(ckey.mesg, ckey.model)
ringNext == next_ringstellung(ckey.ring, ringOf)
slotNext == next_slot(ckey.slot.g, bits, ckey.model)
ukwNext  == next_ukw(ckey.ukw, ckey.model)

Turn ==
  /\ running
  /\ turns < MaxTurns
  /\ turns' = turns + 1

NextMesg ==
  /\ Turn
  /\ ~ mesgNext.overflow
  /\ ckey' = [ckey EXCEPT !.mesg = mesgNext.mesg]
  /\ UNCHANGED << bits, ringOf, running >>

NextRing ==
  /\ Turn
  /\ mesgNext.overflow /\ ~ ringNext.overflow
  /\ ckey' = [ckey EXCEPT !.mesg = mesgNext.mesg, !.ring = ringNext.ring]
  /\ UNCHANGED << bits, ringOf, running >>

\* A new ring iterator is created for the new wheels.
NextSlot ==
  /\ Turn
  /\ mesgNext.overflow /\ ringNext.overflow /\ ~ slotNext.overflow
  /\ ckey' = [ckey EXCEPT !.mesg = mesgNext.mesg, !.ring = ringNext.ring,
                          !.slot = slotNext.slot]
  /\ bits' = slotNext.bits
  /\ ringOf' = WheelsOf(slotNext.slot)
  /\ UNCHANGED running

\* The slot iterator is created anew from what the last one left behind.
NextUkw ==
  /\ Turn
  /\ mesgNext.overflow /\ ringNext.overflow /\ slotNext.overflow
  /\ ~ ukwNext.overflow
  /\ LET entry == init_SlotIterator(slotNext.slot, ckey.model)
     IN /\ ckey' = [ckey EXCEPT !.ukw = ukwNext.ukw, !.slot = entry.slot,
                                !.ring = ringNext.ring, !.mesg = mesgNext.mesg]
        /\ bits' = entry.bits
        /\ ringOf' = WheelsOf(entry.slot)
  /\ UNCHANGED running

\* All four loops are done.  The reflector of ckey is only assigned in the
\* body of its loop.
EndOfKeys ==
  /\ Turn
  /\ mesgNext.overflow /\ ringNext.overflow /\ slotNext.overflow
  /\ ukwNext.overflow
  /\ ckey' = [ckey EXCEPT !.slot = slotNext.slot, !.ring = ringNext.ring,
                          !.mesg = mesgNext.mesg]
  /\ bits' = slotNext.bits
  /\ running' = FALSE
  /\ UNCHANGED ringOf

Next == NextMesg \/ NextRing \/ NextSlot \/ NextUkw \/ EndOfKeys

Spec == Init /\ [][Next]_vars

-----------------------------------------------------------------------------
(* Properties.                                                             *)

TypeOK ==
  /\ ckey \in KeyOf(ckey.model) /\ ckey.model \in Models
  /\ bits \in [og : 0 .. 2, l : SUBSET Bit, m : SUBSET Bit, r : SUBSET Bit]
  /\ ringOf \in [m : 1 .. 8, r : 1 .. 8]
  /\ running \in BOOLEAN
  /\ turns \in 0 .. MaxTurns

\* From an admissible key the loops only ever visit admissible keys: the
\* carry trick of the masks never lets a wheel into two slots, and the ring
\* iterator's copy of the wheels never outlives them.
OnlyAdmissibleKeys == running => Admissible(ckey)

\* The search may be stopped at any key: the text print_state makes of it is
\* one set_state takes, and it takes it for the same key.
EveryKeyCanBeResumed ==
  running => LET text == print_key_rings(ckey)
             IN Accepted(text, ckey.model) /\ set_key(text, ckey.model) = ckey

\* A reference for the order, written without the iterators: the values a
\* digit of an admissible key can take once the digits before it are fixed.
Allowed(k, i) ==
  CASE i = 1 -> Ukw(k.model)
    [] i = 2 -> Greek(k.model)
    [] i = 3 -> Wheel(k.model)
    [] i = 4 -> Wheel(k.model) \ {k.slot.l}
    [] i = 5 -> Wheel(k.model) \ {k.slot.l, k.slot.m}
    [] i = 6 -> 0 .. RingLimit(k.slot.m) - 1
    [] i = 7 -> 0 .. RingLimit(k.slot.r) - 1
    [] i = 8 -> IF k.model = "M4" THEN Letter ELSE {0}
    [] OTHER -> Letter

IsNextInOrder(k1, k2) ==
  LET d1 == Digits(k1)
      d2 == Digits(k2)
  IN \E i \in 1 .. 11 :
        /\ \A j \in 1 .. i - 1 : d1[j] = d2[j]
        /\ d1[i] < d2[i]
        /\ d2[i] \in Allowed(k2, i)
        /\ \A c \in Allowed(k1, i) : ~ (d1[i] < c /\ c < d2[i])
        /\ \A j \in i + 1 .. 11 : /\ d1[j] = Max(Allowed(k1, j))
                                  /\ d2[j] = Min(Allowed(k2, j))

\* No key is skipped and none is visited twice: every turn goes to the key
\* that follows in the order of keycmp among all admissible keys, across
\* every carry from one loop into the next.  This is what makes keycmp, on
\* which set_range and the resume file rely, the order of the search.
NextKeyInOrder == [][running' => IsNextInOrder(ckey, ckey')]_vars

\* The loops end behind the last admissible key and nowhere before.
EndsBehindLastKey ==
  [][~ running' => \A i \in 1 .. 11 : Digits(ckey)[i] = Max(Allowed(ckey, i))]_vars

\* Resuming is invisible in the order of keys: the state the iterators have
\* accumulated since the sweep began never makes them go to another key than
\* iterators created afresh from the key in the resume file.
ResumeKeepsOrder ==
  [][/\ running' = HasSuccessor(ckey)
     /\ running' => ckey' = SuccessorFrom(ckey)]_vars
=============================================================================
