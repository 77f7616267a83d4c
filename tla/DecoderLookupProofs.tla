------------------------- MODULE DecoderLookupProofs -------------------------
(***************************************************************************)
(* The lookups of the decoders, for every message up to the limit, every   *)
(* key and every wiring: they follow the machine key by key, they share    *)
(* out the letters of a bite, and what is deciphered with them is what the *)
(* machine makes of the letters.                                           *)
(***************************************************************************)
EXTENDS DecoderLookup, KeyTextProofs, FiniteSetTheorems, Functions

-----------------------------------------------------------------------------
(* The short cuts of the paths are the machine: for any wiring of wheels   *)
(* and reflectors, any key and any position of the wheels.                 *)

Wired(map) == map \in [Letter -> Letter]

\* What a key of any model and the wheels are, as far as the paths read them
Fits(cfg, shift) ==
  /\ cfg.slot.r \in 0 .. 10 /\ cfg.slot.m \in 0 .. 10
  /\ cfg.slot.l \in 0 .. 10 /\ cfg.slot.g \in 0 .. 10
  /\ cfg.ukw \in 0 .. 4 /\ cfg.mesg.g \in Letter
  /\ shift.r \in Letter /\ shift.m \in Letter /\ shift.l \in Letter

\* The difference of two offsets, without the modulo.
LEMMA DeltaSub ==
  ASSUME NEW a \in Letter, NEW b \in Letter
  PROVE  echar_delta_sub(a, b) = IF a >= b THEN a - b ELSE a - b + 26
<1>1. CASE a >= b
  BY <1>1, SMT DEF echar_delta_sub, Letter
<1>2. CASE a < b
  BY <1>2, SMT DEF echar_delta_sub, Letter
<1> QED
  BY <1>1, <1>2, SMT DEF Letter

\* Sums and differences of letters and offsets are letters.
LEMMA LettersClosed ==
  ASSUME NEW a \in Letter, NEW b \in Letter
  PROVE  /\ AddMod26(a, b) \in Letter
         /\ echar_sub_delta(a, b) \in Letter
         /\ echar_delta_sub(a, b) \in Letter
         /\ echar_delta_invert(b) \in Letter
BY DeltaSub, SMT DEF AddMod26, echar_sub_delta, echar_delta_invert, Letter

\* An offset taken off and put on again, or the other way round, is nothing.
LEMMA OffAndOn ==
  ASSUME NEW a \in Letter, NEW b \in Letter
  PROVE  /\ AddMod26(echar_sub_delta(a, b), b) = a
         /\ echar_sub_delta(AddMod26(a, b), b) = a
BY SMT DEF AddMod26, echar_sub_delta, Letter

\* One offset off and the next one on: the difference is added (double_index).
LEMMA Telescope ==
  ASSUME NEW x \in Letter, NEW off \in Letter, NEW on \in Letter
  PROVE  AddMod26(echar_sub_delta(x, off), on) = AddMod26(x, echar_delta_sub(on, off))
BY DeltaSub, SMT DEF AddMod26, echar_sub_delta, Letter

\* To the reflector, which does not turn, the last offset is taken off.
LEMMA ToReflector ==
  ASSUME NEW x \in Letter, NEW off \in Letter
  PROVE  AddMod26(x, echar_delta_invert(off)) = echar_sub_delta(x, off)
BY SMT DEF AddMod26, echar_sub_delta, echar_delta_invert, Letter

\* The second copy of a table makes the wrap.
LEMMA FlatIsAdd ==
  ASSUME NEW map, NEW c \in Letter, NEW offset \in Letter
  PROVE  flat(map, c, offset) = map[AddMod26(c, offset)]
<1>1. (IF c + offset < 26 THEN c + offset ELSE c + offset - 26) = AddMod26(c, offset)
  BY SMT DEF AddMod26, Letter
<1> QED
  BY <1>1 DEF flat

\* A table entry is a letter, at a sum of letters, too.
LEMMA EntryIsLetter ==
  ASSUME NEW map, Wired(map), NEW c \in Letter, NEW offset \in Letter
  PROVE  /\ map[c] \in Letter /\ map[AddMod26(c, offset)] \in Letter
         /\ flat(map, c, offset) \in Letter
         /\ Turned(map, offset, c) \in Letter
<1>1. AddMod26(c, offset) \in Letter
  BY LettersClosed
<1>2. map[c] \in Letter /\ map[AddMod26(c, offset)] \in Letter
  BY <1>1 DEF Wired
<1>3. Turned(map, offset, c) \in Letter
  BY <1>2, LettersClosed DEF Turned
<1> QED
  BY <1>2, <1>3, FlatIsAdd

\* From one wheel to the next: what the code reads is the way through both,
\* short of the offset of the second one.
LEMMA NextWheel ==
  ASSUME NEW map, NEW x \in Letter, NEW off \in Letter, NEW on \in Letter
  PROVE  echar_sub_delta(flat(map, x, echar_delta_sub(on, off)), on)
           = Turned(map, on, echar_sub_delta(x, off))
<1>1. echar_delta_sub(on, off) \in Letter
  BY LettersClosed
<1>2. flat(map, x, echar_delta_sub(on, off)) = map[AddMod26(x, echar_delta_sub(on, off))]
  BY <1>1, FlatIsAdd
<1> QED
  BY <1>2, Telescope DEF Turned

\* The wheels a key names are tables of letters.
LEMMA WheelsWired ==
  ASSUME NEW w \in 0 .. 10
  PROVE  Wired(wal[w]) /\ Wired(rev_wal[w])
BY TablesAssumption DEF Wired

\* So are the reflectors.
LEMMA ReflectorWired ==
  ASSUME NEW u \in 0 .. 4
  PROVE  Wired(ukw[u])
BY TablesAssumption DEF Wired

\* Through a wheel and back, or back and forth again, with the same offset
LEMMA ThereAndBack ==
  ASSUME NEW w \in 0 .. 10, NEW offset \in Letter, NEW c \in Letter
  PROVE  /\ Turned(rev_wal[w], offset, Turned(wal[w], offset, c)) = c
         /\ Turned(wal[w], offset, Turned(rev_wal[w], offset, c)) = c
<1> DEFINE a == AddMod26(c, offset)
<1>1. a \in Letter
  BY LettersClosed
<1>2. wal[w][a] \in Letter /\ rev_wal[w][a] \in Letter
  BY <1>1, WheelsWired DEF Wired
<1>3. rev_wal[w][wal[w][a]] = a /\ wal[w][rev_wal[w][a]] = a
  BY <1>1, TablesAssumption
<1>4. AddMod26(echar_sub_delta(wal[w][a], offset), offset) = wal[w][a]
  BY <1>2, OffAndOn
<1>5. AddMod26(echar_sub_delta(rev_wal[w][a], offset), offset) = rev_wal[w][a]
  BY <1>2, OffAndOn
<1>6. echar_sub_delta(a, offset) = c
  BY OffAndOn
<1> QED
  BY <1>3, <1>4, <1>5, <1>6 DEF Turned

\* No Greek wheel, in whatever position, lets a letter through.
LEMMA NoWheelPasses ==
  ASSUME NEW offset \in Letter, NEW c \in Letter
  PROVE  /\ Turned(wal[NoWheel], offset, c) = c
         /\ Turned(rev_wal[NoWheel], offset, c) = c
<1>1. NoWheel \in 0 .. 10
  BY SMT DEF NoWheel
<1>2. AddMod26(c, offset) \in Letter
  BY LettersClosed
<1>3. wal[NoWheel][AddMod26(c, offset)] = AddMod26(c, offset)
  BY <1>2, TablesAssumption
<1>4. Turned(wal[NoWheel], offset, c) = c
  BY <1>3, OffAndOn DEF Turned
<1>5. Turned(rev_wal[NoWheel], offset, Turned(wal[NoWheel], offset, c)) = c
  BY <1>1, ThereAndBack
<1> QED
  BY <1>4, <1>5

-----------------------------------------------------------------------------
(* The paths are the machine.                                              *)

\* From the middle wheel to the left one, which stands behind every right
\* wheel: the way the paths have in common, up to the Greek wheel.
LEMMA ThroughMiddleAndLeft ==
  ASSUME NEW cfg, NEW shift, Fits(cfg, shift), NEW x \in Letter
  PROVE  LET m   == Turned(wal[cfg.slot.m], shift.m, x)
             in  == flat(wal[cfg.slot.l], flat(wal[cfg.slot.m], x, shift.m),
                         echar_delta_sub(shift.l, shift.m))
         IN /\ in \in Letter
            /\ echar_sub_delta(in, shift.l) = Turned(wal[cfg.slot.l], shift.l, m)
<1> DEFINE mid == flat(wal[cfg.slot.m], x, shift.m)
<1>1. Wired(wal[cfg.slot.m]) /\ Wired(wal[cfg.slot.l])
  BY WheelsWired DEF Fits
<1>2. shift.m \in Letter /\ shift.l \in Letter /\ echar_delta_sub(shift.l, shift.m) \in Letter
  BY LettersClosed DEF Fits
<1>3. mid \in Letter
  BY <1>1, <1>2, EntryIsLetter
<1>4. echar_sub_delta(mid, shift.m) = Turned(wal[cfg.slot.m], shift.m, x)
  BY <1>2, FlatIsAdd DEF Turned
<1>5. flat(wal[cfg.slot.l], mid, echar_delta_sub(shift.l, shift.m)) \in Letter
  BY <1>1, <1>2, <1>3, EntryIsLetter
<1>6. echar_sub_delta(flat(wal[cfg.slot.l], mid, echar_delta_sub(shift.l, shift.m)), shift.l)
        = Turned(wal[cfg.slot.l], shift.l, echar_sub_delta(mid, shift.m))
  BY <1>2, <1>3, NextWheel
<1> QED
  BY <1>4, <1>5, <1>6

\* And back from the reflector or the Greek wheel: out is what the left wheel
\* reads, its offset not yet taken off.
LEMMA BackThroughMiddle ==
  ASSUME NEW cfg, NEW shift, Fits(cfg, shift), NEW out \in Letter
  PROVE  LET back == flat(rev_wal[cfg.slot.m], out, echar_delta_sub(shift.m, shift.l))
         IN /\ back \in Letter
            /\ echar_sub_delta(back, shift.m)
                 = Turned(rev_wal[cfg.slot.m], shift.m, echar_sub_delta(out, shift.l))
<1>1. Wired(rev_wal[cfg.slot.m])
  BY WheelsWired DEF Fits
<1>2. shift.m \in Letter /\ shift.l \in Letter /\ echar_delta_sub(shift.m, shift.l) \in Letter
  BY LettersClosed DEF Fits
<1> QED
  BY <1>1, <1>2, EntryIsLetter, NextWheel

\* To the reflector and back through the last wheel, whose offset is off.
LEMMA Reflected ==
  ASSUME NEW w \in 0 .. 10, NEW u \in 0 .. 4, NEW offset \in Letter, NEW in \in Letter
  PROVE  LET out == flat(rev_wal[w], flat(ukw[u], in, echar_delta_invert(offset)), offset)
         IN /\ out \in Letter
            /\ echar_sub_delta(out, offset)
                 = Turned(rev_wal[w], offset, ukw[u][echar_sub_delta(in, offset)])
<1> DEFINE reflected == ukw[u][echar_sub_delta(in, offset)]
<1>1. flat(ukw[u], in, echar_delta_invert(offset)) = reflected
  <2>1. echar_delta_invert(offset) \in Letter
    BY LettersClosed
  <2>2. flat(ukw[u], in, echar_delta_invert(offset))
          = ukw[u][AddMod26(in, echar_delta_invert(offset))]
    BY <2>1, FlatIsAdd
  <2> QED
    BY <2>2, ToReflector
<1>2. reflected \in Letter
  BY LettersClosed, ReflectorWired, EntryIsLetter
<1>3. flat(rev_wal[w], reflected, offset) \in Letter
  BY <1>2, WheelsWired, EntryIsLetter
<1>4. echar_sub_delta(flat(rev_wal[w], reflected, offset), offset)
        = Turned(rev_wal[w], offset, reflected)
  BY <1>2, FlatIsAdd DEF Turned
<1> QED
  BY <1>1, <1>3, <1>4

\* The map of the middle and the left wheel, without a Greek wheel, is the
\* machine less its right wheel.
LEMMA ThreeRotors ==
  ASSUME NEW cfg, NEW shift, Fits(cfg, shift), cfg.slot.g = NoWheel, NEW x \in Letter
  PROVE  LET m == Turned(wal[cfg.slot.m], shift.m, x)
             l == Turned(wal[cfg.slot.l], shift.l, m)
         IN CalculatePermutationMap3Rotors(cfg, shift, x)
              = Turned(rev_wal[cfg.slot.m], shift.m,
                  Turned(rev_wal[cfg.slot.l], shift.l, ukw[cfg.ukw][l]))
<1> DEFINE in  == flat(wal[cfg.slot.l], flat(wal[cfg.slot.m], x, shift.m),
                       echar_delta_sub(shift.l, shift.m))
           out == flat(rev_wal[cfg.slot.l],
                       flat(ukw[cfg.ukw], in, echar_delta_invert(shift.l)), shift.l)
<1>1. /\ in \in Letter
      /\ echar_sub_delta(in, shift.l)
           = Turned(wal[cfg.slot.l], shift.l, Turned(wal[cfg.slot.m], shift.m, x))
  BY ThroughMiddleAndLeft
<1>2. cfg.slot.l \in 0 .. 10 /\ cfg.ukw \in 0 .. 4 /\ shift.l \in Letter
  BY DEF Fits
<1>3. /\ out \in Letter
      /\ echar_sub_delta(out, shift.l)
           = Turned(rev_wal[cfg.slot.l], shift.l, ukw[cfg.ukw][echar_sub_delta(in, shift.l)])
  BY <1>1, <1>2, Reflected
<1>4. echar_sub_delta(flat(rev_wal[cfg.slot.m], out, echar_delta_sub(shift.m, shift.l)), shift.m)
        = Turned(rev_wal[cfg.slot.m], shift.m, echar_sub_delta(out, shift.l))
  BY <1>3, BackThroughMiddle
<1>5. CalculatePermutationMap3Rotors(cfg, shift, x)
        = echar_sub_delta(flat(rev_wal[cfg.slot.m], out, echar_delta_sub(shift.m, shift.l)), shift.m)
  BY DEF CalculatePermutationMap3Rotors
<1> QED
  BY <1>1, <1>3, <1>4, <1>5

\* The map with the Greek wheel is the machine less its right wheel.
LEMMA FourRotors ==
  ASSUME NEW cfg, NEW shift, Fits(cfg, shift), NEW x \in Letter
  PROVE  LET m == Turned(wal[cfg.slot.m], shift.m, x)
             l == Turned(wal[cfg.slot.l], shift.l, m)
             g == Turned(wal[cfg.slot.g], cfg.mesg.g, l)
             u == Turned(rev_wal[cfg.slot.g], cfg.mesg.g, ukw[cfg.ukw][g])
         IN CalculatePermutationMap4Rotors(cfg, shift, x)
              = Turned(rev_wal[cfg.slot.m], shift.m, Turned(rev_wal[cfg.slot.l], shift.l, u))
<1> DEFINE left  == flat(wal[cfg.slot.l], flat(wal[cfg.slot.m], x, shift.m),
                         echar_delta_sub(shift.l, shift.m))
           in    == flat(wal[cfg.slot.g], left, echar_delta_sub(cfg.mesg.g, shift.l))
           out   == flat(rev_wal[cfg.slot.g],
                         flat(ukw[cfg.ukw], in, echar_delta_invert(cfg.mesg.g)), cfg.mesg.g)
           right == flat(rev_wal[cfg.slot.l], out, echar_delta_sub(shift.l, cfg.mesg.g))
<1>1. /\ left \in Letter
      /\ echar_sub_delta(left, shift.l)
           = Turned(wal[cfg.slot.l], shift.l, Turned(wal[cfg.slot.m], shift.m, x))
  BY ThroughMiddleAndLeft
<1>2. /\ cfg.slot.l \in 0 .. 10 /\ cfg.slot.g \in 0 .. 10 /\ cfg.ukw \in 0 .. 4
      /\ shift.l \in Letter /\ cfg.mesg.g \in Letter
  BY DEF Fits
<1>3. /\ echar_delta_sub(cfg.mesg.g, shift.l) \in Letter
      /\ echar_delta_sub(shift.l, cfg.mesg.g) \in Letter
  BY <1>2, LettersClosed
<1>4. /\ in \in Letter
      /\ echar_sub_delta(in, cfg.mesg.g)
           = Turned(wal[cfg.slot.g], cfg.mesg.g, echar_sub_delta(left, shift.l))
  <2>1. Wired(wal[cfg.slot.g])
    BY <1>2, WheelsWired
  <2> HIDE DEF left
  <2>2. in \in Letter
    BY <1>1, <1>3, <2>1, EntryIsLetter
  <2>3. echar_sub_delta(in, cfg.mesg.g)
          = Turned(wal[cfg.slot.g], cfg.mesg.g, echar_sub_delta(left, shift.l))
    BY <1>1, <1>2, NextWheel
  <2> QED
    BY <2>2, <2>3
<1>5. /\ out \in Letter
      /\ echar_sub_delta(out, cfg.mesg.g)
           = Turned(rev_wal[cfg.slot.g], cfg.mesg.g, ukw[cfg.ukw][echar_sub_delta(in, cfg.mesg.g)])
  BY <1>2, <1>4, Reflected
<1>6. /\ right \in Letter
      /\ echar_sub_delta(right, shift.l)
           = Turned(rev_wal[cfg.slot.l], shift.l, echar_sub_delta(out, cfg.mesg.g))
  <2>1. Wired(rev_wal[cfg.slot.l])
    BY <1>2, WheelsWired
  <2> HIDE DEF out
  <2> QED
    BY <1>2, <1>3, <1>5, <2>1, EntryIsLetter, NextWheel
<1>7. echar_sub_delta(flat(rev_wal[cfg.slot.m], right, echar_delta_sub(shift.m, shift.l)), shift.m)
        = Turned(rev_wal[cfg.slot.m], shift.m, echar_sub_delta(right, shift.l))
  BY <1>6, BackThroughMiddle
<1>8. CalculatePermutationMap4Rotors(cfg, shift, x)
        = echar_sub_delta(flat(rev_wal[cfg.slot.m], right, echar_delta_sub(shift.m, shift.l)), shift.m)
  BY DEF CalculatePermutationMap4Rotors
<1> QED
  BY <1>1, <1>4, <1>5, <1>6, <1>7, <1>8

\* The first wheel does not change what is behind it: read through the right
\* wheel without its offset taken off, the next wheel is read by the difference.
LEMMA BehindRight ==
  ASSUME NEW cfg, NEW shift, Fits(cfg, shift), NEW k \in Letter
  PROVE  LET x == flat(wal[cfg.slot.r], k, shift.r)
             y == Turned(wal[cfg.slot.r], shift.r, k)
         IN /\ x \in Letter /\ y \in Letter
            /\ flat(wal[cfg.slot.m], x, echar_delta_sub(shift.m, shift.r))
                 = flat(wal[cfg.slot.m], y, shift.m)
<1> DEFINE x == flat(wal[cfg.slot.r], k, shift.r)
           y == Turned(wal[cfg.slot.r], shift.r, k)
<1>1. shift.r \in Letter /\ shift.m \in Letter /\ Wired(wal[cfg.slot.r])
  BY WheelsWired DEF Fits
<1>2. x \in Letter /\ y \in Letter
  BY <1>1, EntryIsLetter
<1>3. y = echar_sub_delta(x, shift.r)
  BY <1>1, FlatIsAdd DEF Turned
<1>4. echar_delta_sub(shift.m, shift.r) \in Letter
  BY <1>1, LettersClosed
<1> HIDE DEF x, y
<1>5. flat(wal[cfg.slot.m], x, echar_delta_sub(shift.m, shift.r))
        = wal[cfg.slot.m][AddMod26(x, echar_delta_sub(shift.m, shift.r))]
  BY <1>2, <1>4, FlatIsAdd
<1>6. flat(wal[cfg.slot.m], y, shift.m) = wal[cfg.slot.m][AddMod26(y, shift.m)]
  BY <1>1, <1>2, FlatIsAdd
<1>7. flat(wal[cfg.slot.m], x, echar_delta_sub(shift.m, shift.r))
        = flat(wal[cfg.slot.m], y, shift.m)
  BY <1>1, <1>2, <1>3, <1>5, <1>6, Telescope
<1> QED
  BY <1>2, <1>7 DEF x, y

\* Out through the right wheel: what the middle wheel reads, its offset not yet
\* taken off, is read by the difference.
LEMMA OutThroughRight ==
  ASSUME NEW cfg, NEW shift, Fits(cfg, shift), NEW back \in Letter
  PROVE  echar_sub_delta(flat(rev_wal[cfg.slot.r], back, echar_delta_sub(shift.r, shift.m)), shift.r)
           = Turned(rev_wal[cfg.slot.r], shift.r, echar_sub_delta(back, shift.m))
<1>1. shift.r \in Letter /\ shift.m \in Letter
  BY DEF Fits
<1> QED
  BY <1>1, NextWheel

\* The left wheel and what is behind it give a letter to the way back.
LEMMA LeftGivesLetter ==
  ASSUME NEW cfg, NEW shift, Fits(cfg, shift), NEW in \in Letter
  PROVE  /\ flat(rev_wal[cfg.slot.l],
                 flat(ukw[cfg.ukw], in, echar_delta_invert(shift.l)), shift.l) \in Letter
         /\ flat(rev_wal[cfg.slot.l],
                 flat(rev_wal[cfg.slot.g],
                      flat(ukw[cfg.ukw], in, echar_delta_invert(cfg.mesg.g)), cfg.mesg.g),
                 echar_delta_sub(shift.l, cfg.mesg.g)) \in Letter
<1>1. /\ shift.l \in Letter /\ cfg.mesg.g \in Letter /\ cfg.ukw \in 0 .. 4
      /\ cfg.slot.l \in 0 .. 10 /\ cfg.slot.g \in 0 .. 10
  BY DEF Fits
<1>2. flat(rev_wal[cfg.slot.l],
           flat(ukw[cfg.ukw], in, echar_delta_invert(shift.l)), shift.l) \in Letter
  BY <1>1, Reflected
<1>3. flat(rev_wal[cfg.slot.g],
           flat(ukw[cfg.ukw], in, echar_delta_invert(cfg.mesg.g)), cfg.mesg.g) \in Letter
  BY <1>1, Reflected
<1>4. Wired(rev_wal[cfg.slot.l]) /\ echar_delta_sub(shift.l, cfg.mesg.g) \in Letter
  BY <1>1, WheelsWired, LettersClosed
<1> QED
  BY <1>2, <1>3, <1>4, EntryIsLetter

\* The path of the models without a Greek wheel is the map of the two slower
\* wheels between the two ways through the right one, ...
LEMMA PathSplits3 ==
  ASSUME NEW cfg, NEW shift, Fits(cfg, shift), NEW k \in Letter
  PROVE  path_lookup_H_M3(cfg, shift, k)
           = Turned(rev_wal[cfg.slot.r], shift.r,
               CalculatePermutationMap3Rotors(cfg, shift, Turned(wal[cfg.slot.r], shift.r, k)))
<1> DEFINE x    == flat(wal[cfg.slot.r], k, shift.r)
           y    == Turned(wal[cfg.slot.r], shift.r, k)
           mid  == flat(wal[cfg.slot.m], y, shift.m)
           in   == flat(wal[cfg.slot.l], mid, echar_delta_sub(shift.l, shift.m))
           out  == flat(rev_wal[cfg.slot.l],
                        flat(ukw[cfg.ukw], in, echar_delta_invert(shift.l)), shift.l)
           back == flat(rev_wal[cfg.slot.m], out, echar_delta_sub(shift.m, shift.l))
<1>1. y \in Letter /\ flat(wal[cfg.slot.m], x, echar_delta_sub(shift.m, shift.r)) = mid
  BY BehindRight
<1>2. path_lookup_H_M3(cfg, shift, k)
        = echar_sub_delta(flat(rev_wal[cfg.slot.r], back, echar_delta_sub(shift.r, shift.m)), shift.r)
  BY <1>1 DEF path_lookup_H_M3
<1>3. in \in Letter
  BY <1>1, ThroughMiddleAndLeft
<1>4. out \in Letter
  BY <1>3, LeftGivesLetter
<1>5. back \in Letter
  BY <1>4, BackThroughMiddle
<1>6. echar_sub_delta(back, shift.m) = CalculatePermutationMap3Rotors(cfg, shift, y)
  BY DEF CalculatePermutationMap3Rotors
<1> HIDE DEF back, y
<1>7. echar_sub_delta(flat(rev_wal[cfg.slot.r], back, echar_delta_sub(shift.r, shift.m)), shift.r)
        = Turned(rev_wal[cfg.slot.r], shift.r, echar_sub_delta(back, shift.m))
  BY <1>5, OutThroughRight
<1>8. path_lookup_H_M3(cfg, shift, k)
        = Turned(rev_wal[cfg.slot.r], shift.r, CalculatePermutationMap3Rotors(cfg, shift, y))
  BY <1>2, <1>6, <1>7
<1> QED
  BY <1>8 DEF y

\* ... and so is the path with one.
LEMMA PathSplits4 ==
  ASSUME NEW cfg, NEW shift, Fits(cfg, shift), NEW k \in Letter
  PROVE  path_lookup_ALL(cfg, shift, k)
           = Turned(rev_wal[cfg.slot.r], shift.r,
               CalculatePermutationMap4Rotors(cfg, shift, Turned(wal[cfg.slot.r], shift.r, k)))
<1> DEFINE x     == flat(wal[cfg.slot.r], k, shift.r)
           y     == Turned(wal[cfg.slot.r], shift.r, k)
           mid   == flat(wal[cfg.slot.m], y, shift.m)
           left  == flat(wal[cfg.slot.l], mid, echar_delta_sub(shift.l, shift.m))
           in    == flat(wal[cfg.slot.g], left, echar_delta_sub(cfg.mesg.g, shift.l))
           out   == flat(rev_wal[cfg.slot.g],
                         flat(ukw[cfg.ukw], in, echar_delta_invert(cfg.mesg.g)), cfg.mesg.g)
           right == flat(rev_wal[cfg.slot.l], out, echar_delta_sub(shift.l, cfg.mesg.g))
           back  == flat(rev_wal[cfg.slot.m], right, echar_delta_sub(shift.m, shift.l))
<1>1. y \in Letter /\ flat(wal[cfg.slot.m], x, echar_delta_sub(shift.m, shift.r)) = mid
  BY BehindRight
<1>2. path_lookup_ALL(cfg, shift, k)
        = echar_sub_delta(flat(rev_wal[cfg.slot.r], back, echar_delta_sub(shift.r, shift.m)), shift.r)
  BY <1>1 DEF path_lookup_ALL
<1>3. left \in Letter
  BY <1>1, ThroughMiddleAndLeft
<1>4. in \in Letter
  <2>1. /\ cfg.slot.g \in 0 .. 10 /\ cfg.mesg.g \in Letter /\ shift.l \in Letter
    BY DEF Fits
  <2>2. Wired(wal[cfg.slot.g]) /\ echar_delta_sub(cfg.mesg.g, shift.l) \in Letter
    BY <2>1, WheelsWired, LettersClosed
  <2> HIDE DEF left
  <2> QED
    BY <1>3, <2>2, EntryIsLetter
<1>5. right \in Letter
  BY <1>4, LeftGivesLetter
<1>6. back \in Letter
  BY <1>5, BackThroughMiddle
<1>7. echar_sub_delta(back, shift.m) = CalculatePermutationMap4Rotors(cfg, shift, y)
  BY DEF CalculatePermutationMap4Rotors
<1> HIDE DEF back, y
<1>8. echar_sub_delta(flat(rev_wal[cfg.slot.r], back, echar_delta_sub(shift.r, shift.m)), shift.r)
        = Turned(rev_wal[cfg.slot.r], shift.r, echar_sub_delta(back, shift.m))
  BY <1>6, OutThroughRight
<1>9. path_lookup_ALL(cfg, shift, k)
        = Turned(rev_wal[cfg.slot.r], shift.r, CalculatePermutationMap4Rotors(cfg, shift, y))
  BY <1>2, <1>7, <1>8
<1> QED
  BY <1>9 DEF y

\* The tables of models H and M3 (init_path_lookup_H_M3, in src/cipher.c) hold
\* what the machine makes of a letter, whatever the wheels are wired like.
THEOREM PathH_M3IsMachine ==
  ASSUME NEW cfg, NEW shift, Fits(cfg, shift), cfg.slot.g = NoWheel, NEW k \in Letter
  PROVE  path_lookup_H_M3(cfg, shift, k) = Machine(cfg, shift, k)
<1> DEFINE x == Turned(wal[cfg.slot.r], shift.r, k)
           m == Turned(wal[cfg.slot.m], shift.m, x)
           l == Turned(wal[cfg.slot.l], shift.l, m)
           u == ukw[cfg.ukw][l]
<1>1. /\ shift.r \in Letter /\ shift.m \in Letter /\ shift.l \in Letter /\ cfg.mesg.g \in Letter
      /\ Wired(wal[cfg.slot.r]) /\ Wired(wal[cfg.slot.m]) /\ Wired(wal[cfg.slot.l])
      /\ Wired(ukw[cfg.ukw])
  BY WheelsWired, ReflectorWired DEF Fits
<1>2. x \in Letter
  BY <1>1, EntryIsLetter
<1>3. m \in Letter
  BY <1>1, <1>2, EntryIsLetter
<1>4. l \in Letter
  BY <1>1, <1>3, EntryIsLetter
<1>5. u \in Letter
  BY <1>1, <1>4, EntryIsLetter
<1>6. CalculatePermutationMap3Rotors(cfg, shift, x)
        = Turned(rev_wal[cfg.slot.m], shift.m, Turned(rev_wal[cfg.slot.l], shift.l, u))
  BY <1>2, ThreeRotors
<1>7. /\ Turned(wal[cfg.slot.g], cfg.mesg.g, l) = l
      /\ Turned(rev_wal[cfg.slot.g], cfg.mesg.g, u) = u
  BY <1>1, <1>4, <1>5, NoWheelPasses
<1>8. Machine(cfg, shift, k)
        = Turned(rev_wal[cfg.slot.r], shift.r,
            Turned(rev_wal[cfg.slot.m], shift.m, Turned(rev_wal[cfg.slot.l], shift.l, u)))
  BY <1>7 DEF Machine
<1>9. path_lookup_H_M3(cfg, shift, k)
        = Turned(rev_wal[cfg.slot.r], shift.r, CalculatePermutationMap3Rotors(cfg, shift, x))
  BY PathSplits3
<1> HIDE DEF x, m, l, u
<1> QED
  BY <1>6, <1>8, <1>9

\* So do the tables of the M4 (init_path_lookup_ALL).
THEOREM PathAllIsMachine ==
  ASSUME NEW cfg, NEW shift, Fits(cfg, shift), NEW k \in Letter
  PROVE  path_lookup_ALL(cfg, shift, k) = Machine(cfg, shift, k)
<1>1. Turned(wal[cfg.slot.r], shift.r, k) \in Letter
  BY WheelsWired, EntryIsLetter DEF Fits
<1> QED
  BY <1>1, PathSplits4, FourRotors DEF Machine

-----------------------------------------------------------------------------
(* The vectors.                                                            *)

\* Two shuffles of sixteen bytes look up one letter of a map of twenty-six:
\* one of them gives the letter and the other one nothing (PermuteV16qs in
\* src/x86/decodeMessageSsse3_inlines.h).
THEOREM ShuffleIsLookup ==
  ASSUME NEW map, Wired(map), NEW letter \in Letter
  PROVE  PermuteVec(map, letter) = map[letter]
<1> DEFINE index == (letter + 112) % 256
           low   == [b \in 0 .. 15 |-> map[b]]
           high  == [b \in 0 .. 15 |-> map[(16 + b) % 26]]
<1>1. PermuteVec(map, letter)
        = shuffle_epi8(low, index) + shuffle_epi8(high, (index + 128) % 256)
  BY DEF PermuteVec
<1>2. map[letter] \in Int
  BY SMT DEF Wired, Letter
<1>3. CASE letter < 16
  <2>1. index = letter + 112 /\ index < 128 /\ index % 16 = letter
    BY <1>3, SMT DEF Letter
  <2>2. (index + 128) % 256 >= 128
    BY <1>3, SMT DEF Letter
  <2>3. shuffle_epi8(low, index) = low[letter]
    <3> HIDE DEF low, index
    <3> QED BY <1>3, <2>1, SMT DEF shuffle_epi8, Letter
  <2>4. shuffle_epi8(high, (index + 128) % 256) = 0
    <3> HIDE DEF high, index
    <3> QED BY <2>2, SMT DEF shuffle_epi8
  <2>5. letter \in 0 .. 15
    BY <1>3, SMT DEF Letter
  <2>6. low[letter] = map[letter]
    BY <2>5
  <2> HIDE DEF low, high, index
  <2> QED
    BY <1>1, <1>2, <2>3, <2>4, <2>6, SMT
<1>4. CASE letter >= 16
  <2>1. index >= 128
    BY <1>4, SMT DEF Letter
  <2>2. (index + 128) % 256 = letter - 16
    BY <1>4, SMT DEF Letter
  <2>3. letter - 16 \in 0 .. 15 /\ (letter - 16) % 16 = letter - 16 /\ (16 + (letter - 16)) % 26 = letter
    BY <1>4, SMT DEF Letter
  <2>4. shuffle_epi8(low, index) = 0
    <3> HIDE DEF low, index
    <3> QED BY <2>1, SMT DEF shuffle_epi8
  <2>5. shuffle_epi8(high, (index + 128) % 256) = high[letter - 16]
    <3> HIDE DEF high, index
    <3> QED BY <2>2, <2>3, SMT DEF shuffle_epi8, Letter
  <2>6. high[letter - 16] = map[letter]
    BY <2>3
  <2> HIDE DEF low, high, index
  <2> QED
    BY <1>1, <1>2, <2>4, <2>5, <2>6, SMT
<1> QED
  BY <1>3, <1>4, SMT DEF Letter

\* Both ways through the right wheel are the machine's.
LEMMA RightIsTurned ==
  ASSUME NEW map, Wired(map), NEW letter \in Letter, NEW offset \in Letter
  PROVE  ThroughRight(map, letter, offset) = Turned(map, offset, letter)
<1>1. AddMod26(letter, offset) \in Letter
  BY LettersClosed
<1> QED
  BY <1>1, ShuffleIsLookup DEF ThroughRight, Turned

\* The part of the way one lookup is for ends at a letter.
LEMMA RotorsGiveLetter ==
  ASSUME NEW cfg, NEW shift, Fits(cfg, shift), NEW y \in Letter
  PROVE  /\ CalculatePermutationMap4Rotors(cfg, shift, y) \in Letter
         /\ CalculatePermutationMap3Rotors(cfg, shift, y) \in Letter
<1> DEFINE in    == flat(wal[cfg.slot.l], flat(wal[cfg.slot.m], y, shift.m),
                         echar_delta_sub(shift.l, shift.m))
           in4   == flat(wal[cfg.slot.g], in, echar_delta_sub(cfg.mesg.g, shift.l))
           out3  == flat(rev_wal[cfg.slot.l],
                         flat(ukw[cfg.ukw], in, echar_delta_invert(shift.l)), shift.l)
           right == flat(rev_wal[cfg.slot.l],
                         flat(rev_wal[cfg.slot.g],
                              flat(ukw[cfg.ukw], in4, echar_delta_invert(cfg.mesg.g)), cfg.mesg.g),
                         echar_delta_sub(shift.l, cfg.mesg.g))
           back(o) == flat(rev_wal[cfg.slot.m], o, echar_delta_sub(shift.m, shift.l))
<1>0. shift.r \in Letter /\ shift.m \in Letter /\ shift.l \in Letter
  BY DEF Fits
<1>1. in \in Letter
  BY ThroughMiddleAndLeft
<1>2. in4 \in Letter
  <2>1. cfg.slot.g \in 0 .. 10 /\ cfg.mesg.g \in Letter
    BY DEF Fits
  <2>2. Wired(wal[cfg.slot.g]) /\ echar_delta_sub(cfg.mesg.g, shift.l) \in Letter
    BY <1>0, <2>1, WheelsWired, LettersClosed
  <2> HIDE DEF in
  <2> QED
    BY <1>1, <2>2, EntryIsLetter
<1>3. out3 \in Letter /\ right \in Letter
  BY <1>1, <1>2, LeftGivesLetter
<1>4. /\ CalculatePermutationMap3Rotors(cfg, shift, y) = echar_sub_delta(back(out3), shift.m)
      /\ CalculatePermutationMap4Rotors(cfg, shift, y) = echar_sub_delta(back(right), shift.m)
  BY DEF CalculatePermutationMap3Rotors, CalculatePermutationMap4Rotors
<1> HIDE DEF out3, right
<1>5. back(out3) \in Letter /\ back(right) \in Letter
  BY <1>3, BackThroughMiddle
<1> HIDE DEF back
<1> QED
  BY <1>0, <1>4, <1>5, LettersClosed

\* A lane of the vectors, between its two ways through the right wheel, holds
\* what the machine makes of its letter, with three wheels and with four.
THEOREM LaneIsMachine ==
  ASSUME NEW cfg, NEW shift, Fits(cfg, shift), NEW c \in Letter
  PROVE  LET x == ThroughRight(wal[cfg.slot.r], c, shift.r)
         IN /\ ThroughRight(rev_wal[cfg.slot.r],
                            CalculatePermutationMap4Rotors(cfg, shift, x), shift.r)
                 = Machine(cfg, shift, c)
            /\ cfg.slot.g = NoWheel =>
                 ThroughRight(rev_wal[cfg.slot.r],
                              CalculatePermutationMap3Rotors(cfg, shift, x), shift.r)
                   = Machine(cfg, shift, c)
<1> DEFINE y == Turned(wal[cfg.slot.r], shift.r, c)
<1>1. /\ shift.r \in Letter /\ shift.m \in Letter /\ shift.l \in Letter
      /\ Wired(wal[cfg.slot.r]) /\ Wired(rev_wal[cfg.slot.r])
  BY WheelsWired DEF Fits
<1>2. y \in Letter /\ ThroughRight(wal[cfg.slot.r], c, shift.r) = y
  BY <1>1, EntryIsLetter, RightIsTurned
<1> HIDE DEF y
<1>3. /\ CalculatePermutationMap4Rotors(cfg, shift, y) \in Letter
      /\ CalculatePermutationMap3Rotors(cfg, shift, y) \in Letter
  BY <1>2, RotorsGiveLetter
<1>4. /\ ThroughRight(rev_wal[cfg.slot.r],
                      CalculatePermutationMap4Rotors(cfg, shift, y), shift.r)
           = Turned(rev_wal[cfg.slot.r], shift.r, CalculatePermutationMap4Rotors(cfg, shift, y))
      /\ ThroughRight(rev_wal[cfg.slot.r],
                      CalculatePermutationMap3Rotors(cfg, shift, y), shift.r)
           = Turned(rev_wal[cfg.slot.r], shift.r, CalculatePermutationMap3Rotors(cfg, shift, y))
  BY <1>1, <1>3, RightIsTurned
<1>5. /\ path_lookup_ALL(cfg, shift, c)
           = Turned(rev_wal[cfg.slot.r], shift.r, CalculatePermutationMap4Rotors(cfg, shift, y))
      /\ path_lookup_H_M3(cfg, shift, c)
           = Turned(rev_wal[cfg.slot.r], shift.r, CalculatePermutationMap3Rotors(cfg, shift, y))
  BY PathSplits3, PathSplits4 DEF y
<1>6. path_lookup_ALL(cfg, shift, c) = Machine(cfg, shift, c)
  BY PathAllIsMachine
<1>7. cfg.slot.g = NoWheel => path_lookup_H_M3(cfg, shift, c) = Machine(cfg, shift, c)
  BY PathH_M3IsMachine
<1> QED
  BY <1>2, <1>4, <1>5, <1>6, <1>7

-----------------------------------------------------------------------------
(* The machine is reciprocal.                                              *)

\* To the reflector, and from it
In(cfg, shift, c) ==
  Turned(wal[cfg.slot.g], cfg.mesg.g,
    Turned(wal[cfg.slot.l], shift.l,
      Turned(wal[cfg.slot.m], shift.m, Turned(wal[cfg.slot.r], shift.r, c))))

Out(cfg, shift, u) ==
  Turned(rev_wal[cfg.slot.r], shift.r,
    Turned(rev_wal[cfg.slot.m], shift.m,
      Turned(rev_wal[cfg.slot.l], shift.l, Turned(rev_wal[cfg.slot.g], cfg.mesg.g, u))))

\* A machine is the way to the reflector, the reflector, and the way from it.
LEMMA MachineIsInOut ==
  ASSUME NEW cfg, NEW shift, NEW c
  PROVE  Machine(cfg, shift, c) = Out(cfg, shift, ukw[cfg.ukw][In(cfg, shift, c)])
BY DEF Machine, In, Out

\* A wheel in the machine has a letter for every letter.
LEMMA TurnedWheel ==
  ASSUME NEW w \in 0 .. 10, NEW offset \in Letter, NEW c \in Letter
  PROVE  Turned(wal[w], offset, c) \in Letter /\ Turned(rev_wal[w], offset, c) \in Letter
BY WheelsWired, EntryIsLetter

\* The ways to and from the reflector are each other's inverse.
LEMMA InOutInverse ==
  ASSUME NEW cfg, NEW shift, Fits(cfg, shift), NEW c \in Letter
  PROVE  /\ In(cfg, shift, c) \in Letter /\ Out(cfg, shift, c) \in Letter
         /\ Out(cfg, shift, In(cfg, shift, c)) = c
         /\ In(cfg, shift, Out(cfg, shift, c)) = c
<1> USE DEF Fits
<1> DEFINE r == Turned(wal[cfg.slot.r], shift.r, c)
           m == Turned(wal[cfg.slot.m], shift.m, r)
           l == Turned(wal[cfg.slot.l], shift.l, m)
           g == Turned(wal[cfg.slot.g], cfg.mesg.g, l)
           bg == Turned(rev_wal[cfg.slot.g], cfg.mesg.g, c)
           bl == Turned(rev_wal[cfg.slot.l], shift.l, bg)
           bm == Turned(rev_wal[cfg.slot.m], shift.m, bl)
           br == Turned(rev_wal[cfg.slot.r], shift.r, bm)
<1>1. In(cfg, shift, c) = g /\ Out(cfg, shift, c) = br
  BY DEF In, Out
<1>2. r \in Letter /\ bg \in Letter
  BY TurnedWheel
<1>3. m \in Letter /\ bl \in Letter
  <2> HIDE DEF r, bg
  <2> QED BY <1>2, TurnedWheel
<1>4. l \in Letter /\ bm \in Letter
  <2> HIDE DEF m, bl
  <2> QED BY <1>3, TurnedWheel
<1>5. g \in Letter /\ br \in Letter
  <2> HIDE DEF l, bm
  <2> QED BY <1>4, TurnedWheel
<1>6. Out(cfg, shift, g) = c
  <2>1. Turned(rev_wal[cfg.slot.r], shift.r, r) = c
    BY ThereAndBack
  <2>2. Turned(rev_wal[cfg.slot.m], shift.m, m) = r
    <3> HIDE DEF r
    <3> QED BY <1>2, ThereAndBack, ZenonT(40)
  <2>3. Turned(rev_wal[cfg.slot.l], shift.l, l) = m
    <3> HIDE DEF m
    <3> QED BY <1>3, ThereAndBack, ZenonT(40)
  <2>4. Turned(rev_wal[cfg.slot.g], cfg.mesg.g, g) = l
    <3> HIDE DEF l
    <3> QED BY <1>4, ThereAndBack, ZenonT(40)
  <2> HIDE DEF r, m, l, g
  <2> QED BY <2>1, <2>2, <2>3, <2>4 DEF Out
<1>7. In(cfg, shift, br) = c
  <2>1. Turned(wal[cfg.slot.g], cfg.mesg.g, bg) = c
    BY ThereAndBack
  <2>2. Turned(wal[cfg.slot.l], shift.l, bl) = bg
    <3> HIDE DEF bg
    <3> QED BY <1>2, ThereAndBack, ZenonT(40)
  <2>3. Turned(wal[cfg.slot.m], shift.m, bm) = bl
    <3> HIDE DEF bl
    <3> QED BY <1>3, ThereAndBack, ZenonT(40)
  <2>4. Turned(wal[cfg.slot.r], shift.r, br) = bm
    <3> HIDE DEF bm
    <3> QED BY <1>4, ThereAndBack, ZenonT(40)
  <2> HIDE DEF bg, bl, bm, br
  <2> QED BY <2>1, <2>2, <2>3, <2>4 DEF In
<1> HIDE DEF g, br
<1> QED BY <1>1, <1>5, <1>6, <1>7

\* Without the plugboard: the machine undoes itself, and no letter is its own.
LEMMA MachineReciprocal ==
  ASSUME NEW cfg, NEW shift, Fits(cfg, shift), NEW c \in Letter
  PROVE  /\ Machine(cfg, shift, c) \in Letter
         /\ Machine(cfg, shift, Machine(cfg, shift, c)) = c
         /\ Machine(cfg, shift, c) # c
<1> DEFINE g == In(cfg, shift, c)  u == ukw[cfg.ukw][g]  x == Out(cfg, shift, u)
<1>1. g \in Letter /\ Out(cfg, shift, g) = c
  BY InOutInverse
<1>2. u \in Letter /\ u # g /\ ukw[cfg.ukw][u] = g
  <2> HIDE DEF g
  <2> QED BY <1>1, TablesAssumption DEF Fits
<1>3. x \in Letter /\ In(cfg, shift, x) = u
  <2> HIDE DEF u
  <2> QED BY <1>2, InOutInverse
<1>4. Machine(cfg, shift, c) = x
  BY MachineIsInOut
<1>5. Machine(cfg, shift, x) = Out(cfg, shift, ukw[cfg.ukw][In(cfg, shift, x)])
  BY MachineIsInOut
<1>6. x # c
  BY <1>2, <1>3
<1> HIDE DEF g, u, x
<1> QED BY <1>1, <1>2, <1>3, <1>4, <1>5, <1>6

\* With any plugboard that is an involution, which the optimizers keep it (see
\* StbrettProofs): deciphering is enciphering, and no letter becomes itself.
THEOREM EnigmaReciprocal ==
  ASSUME NEW cfg, NEW shift, Fits(cfg, shift), NEW plugged \in [Letter -> Letter],
         \A c \in Letter : plugged[plugged[c]] = c,
         NEW c \in Letter
  PROVE  /\ Enigma(cfg, plugged, shift, Enigma(cfg, plugged, shift, c)) = c
         /\ Enigma(cfg, plugged, shift, c) # c
<1> DEFINE x == plugged[c]  y == Machine(cfg, shift, x)
<1>1. x \in Letter /\ plugged[x] = c
  OBVIOUS
<1>2. y \in Letter /\ Machine(cfg, shift, y) = x /\ y # x
  <2> HIDE DEF x
  <2> QED BY <1>1, MachineReciprocal
<1>3. plugged[y] \in Letter /\ plugged[plugged[y]] = y
  <2> HIDE DEF y
  <2> QED BY <1>2
<1>4. Enigma(cfg, plugged, shift, c) = plugged[y]
  BY DEF Enigma
<1>5. Enigma(cfg, plugged, shift, plugged[y]) = plugged[Machine(cfg, shift, plugged[plugged[y]])]
  BY DEF Enigma
<1>6. plugged[y] # c
  BY <1>1, <1>2, <1>3
<1> HIDE DEF x, y
<1> QED BY <1>1, <1>2, <1>3, <1>4, <1>5, <1>6


-----------------------------------------------------------------------------
(* The way of the wheels.                                                  *)

\* The wheels while n keys are pressed, and after the last of them
Way(w, t, n) ==
  LET after[j \in 0 .. n] == IF j = 0 THEN w ELSE StepAllRings(after[j - 1], t)
  IN after
Walk(w, t, n) == Way(w, t, n)[n]

\* What a way is: it starts at w, and every key is one step.
IsWay(g, w, t, n) ==
  g = [j \in 0 .. n |-> IF j = 0 THEN w ELSE StepAllRings(g[j - 1], t)]

\* There is a way of every length.
LEMMA WayExists ==
  ASSUME NEW w, NEW t, NEW n \in Nat
  PROVE  IsWay(Way(w, t, n), w, t, n)
<1> DEFINE S == {k \in Nat : \E g : IsWay(g, w, t, k)}
<1>1. 0 \in S
  <2> DEFINE g == [j \in 0 .. 0 |-> w]
  <2>1. IsWay(g, w, t, 0)
    BY DEF IsWay
  <2> QED
    BY <2>1
<1>2. ASSUME NEW k \in Nat, k \in S PROVE k + 1 \in S
  <2>1. PICK g : IsWay(g, w, t, k)
    BY <1>2
  <2> DEFINE h == [j \in 0 .. k + 1 |-> IF j = k + 1 THEN StepAllRings(g[k], t) ELSE g[j]]
  <2>2. ASSUME NEW j \in 0 .. k + 1
        PROVE  h[j] = IF j = 0 THEN w ELSE StepAllRings(h[j - 1], t)
    <3>1. CASE j = k + 1
      <4>1. j # 0 /\ j - 1 = k /\ h[k] = g[k]
        BY <3>1
      <4> QED
        BY <3>1, <4>1
    <3>2. CASE j # k + 1
      <4>1. j \in 0 .. k /\ h[j] = g[j]
        BY <3>2
      <4>2. g[j] = IF j = 0 THEN w ELSE StepAllRings(g[j - 1], t)
        BY <2>1, <4>1 DEF IsWay
      <4>3. j # 0 => j - 1 \in 0 .. k /\ h[j - 1] = g[j - 1]
        BY <4>1
      <4> QED
        BY <4>1, <4>2, <4>3
    <3> QED
      BY <3>1, <3>2
  <2>3. IsWay(h, w, t, k + 1)
    BY <2>2 DEF IsWay
  <2> HIDE DEF h
  <2> QED
    BY <2>3
<1> HIDE DEF S
<1>3. n \in S
  BY <1>1, <1>2, InductionOnNat
<1> USE DEF S
<1>4. \E g : IsWay(g, w, t, n)
  BY <1>3
<1>5. Way(w, t, n)
        = CHOOSE g : g = [j \in 0 .. n |-> IF j = 0 THEN w ELSE StepAllRings(g[j - 1], t)]
  BY DEF Way
<1> QED
  BY <1>4, <1>5 DEF IsWay

\* Ways from the same wheels agree as far as they go.
LEMMA WayIsWalk ==
  ASSUME NEW w, NEW t, NEW n \in Nat, NEW i \in 0 .. n
  PROVE  Way(w, t, n)[i] = Walk(w, t, i)
<1> DEFINE a == Way(w, t, n)
           b == Way(w, t, i)
           S == {j \in Nat : j <= i => a[j] = b[j]}
<1>1. IsWay(a, w, t, n) /\ IsWay(b, w, t, i)
  BY WayExists
<1> HIDE DEF a, b
<1>2. /\ \A j \in 0 .. n : a[j] = IF j = 0 THEN w ELSE StepAllRings(a[j - 1], t)
      /\ \A j \in 0 .. i : b[j] = IF j = 0 THEN w ELSE StepAllRings(b[j - 1], t)
  BY <1>1 DEF IsWay
<1>3. 0 \in S
  BY <1>2
<1>4. ASSUME NEW j \in Nat, j \in S PROVE j + 1 \in S
  <2> SUFFICES ASSUME j + 1 <= i PROVE a[j + 1] = b[j + 1]
    OBVIOUS
  <2>1. j + 1 \in 0 .. n /\ j + 1 \in 0 .. i /\ j + 1 # 0 /\ (j + 1) - 1 = j /\ a[j] = b[j]
    BY <1>4
  <2> QED
    BY <1>2, <2>1
<1> HIDE DEF S
<1>5. i \in S
  BY <1>3, <1>4, InductionOnNat
<1> USE DEF S
<1>6. a[i] = b[i]
  BY <1>5
<1> QED
  BY <1>6 DEF a, b, Walk

\* No key, no step; one key more, one step more.
LEMMA WalkStep ==
  ASSUME NEW w, NEW t, NEW n \in Nat
  PROVE  /\ Walk(w, t, 0) = w
         /\ Walk(w, t, n + 1) = StepAllRings(Walk(w, t, n), t)
<1>1. IsWay(Way(w, t, 0), w, t, 0) /\ IsWay(Way(w, t, n + 1), w, t, n + 1)
  BY WayExists
<1>2. Walk(w, t, 0) = w
  BY <1>1 DEF IsWay, Walk
<1>3. Walk(w, t, n + 1) = StepAllRings(Way(w, t, n + 1)[n], t)
  <2>1. n + 1 \in 0 .. n + 1 /\ n + 1 # 0 /\ (n + 1) - 1 = n
    OBVIOUS
  <2> QED
    BY <1>1, <2>1 DEF IsWay, Walk
<1>4. Way(w, t, n + 1)[n] = Walk(w, t, n)
  BY WayIsWalk
<1> QED
  BY <1>2, <1>3, <1>4

\* A walk goes on where another one ended.
LEMMA WalkOn ==
  ASSUME NEW w, NEW t, NEW n \in Nat, NEW k \in Nat
  PROVE  Walk(Walk(w, t, n), t, k) = Walk(w, t, n + k)
<1> DEFINE v == Walk(w, t, n)
           S == {j \in Nat : Walk(v, t, j) = Walk(w, t, n + j)}
<1>1. 0 \in S
  BY WalkStep
<1> HIDE DEF v
<1>2. ASSUME NEW j \in Nat, j \in S PROVE j + 1 \in S
  <2>1. Walk(v, t, j + 1) = StepAllRings(Walk(v, t, j), t)
    BY WalkStep
  <2>2. Walk(w, t, (n + j) + 1) = StepAllRings(Walk(w, t, n + j), t)
    <3>1. n + j \in Nat
      OBVIOUS
    <3> QED
      BY <3>1, WalkStep
  <2>3. (n + j) + 1 = n + (j + 1)
    OBVIOUS
  <2> QED
    BY <1>2, <2>1, <2>2, <2>3
<1> HIDE DEF S
<1>3. k \in S
  BY <1>1, <1>2, InductionOnNat
<1> QED
  BY <1>3 DEF S, v

\* The model's count of keys is a walk of the machine.
LEMMA PressedIsWalk ==
  ASSUME NEW n
  PROVE  Pressed(n) = Walk(machine, turns, n)
BY DEF Pressed, Walk, Way

-----------------------------------------------------------------------------
(* Notches.                                                                *)

\* The notches of a wheel as offsets: one, or two thirteen letters apart
Notched(t1, t2) ==
  t1 \in Letter /\ (t2 = turnover_absent \/ (t1 < 13 /\ t2 = t1 + 13))

Gap(t2) == IF t2 = turnover_absent THEN 26 ELSE 13

\* How many steps a wheel is away from its next notch
Dist(x, t1, t2) == echar_delta_sub(turnover_select_next(x, t1, t2), x)

\* The notch the code selects is one of the wheel.
LEMMA SelectNext ==
  ASSUME NEW t1, NEW t2, Notched(t1, t2), NEW x \in Letter
  PROVE  turnover_select_next(x, t1, t2) =
           IF t2 = turnover_absent THEN t1
           ELSE IF x <= t1 THEN t1 ELSE IF x <= t2 THEN t2 ELSE t1
<1>1. t1 \in 0 .. 25 /\ x \in 0 .. 25 /\ Int8(x) = x /\ Int8(255) = 0 - 1
  BY SMT DEF Notched, Letter, Int8
<1>2. CASE t2 = turnover_absent
  BY <1>1, <1>2, SMT DEF turnover_select_next, turnover_absent
<1>3. CASE t2 # turnover_absent
  <2>1. t2 \in 0 .. 25 /\ Int8(t2) = t2
    BY <1>1, <1>3, SMT DEF Notched, Int8
  <2> QED
    BY <1>1, <1>3, <2>1, SMT DEF turnover_select_next
<1> QED
  BY <1>2, <1>3

\* A wheel at distance 0 is at a notch; otherwise the distance goes down by
\* one with each step, and behind a notch it is the gap less one.
LEMMA DistSteps ==
  ASSUME NEW t1, NEW t2, Notched(t1, t2), NEW x \in Letter
  PROVE  /\ turnover_select_next(x, t1, t2) \in Letter
         /\ Dist(x, t1, t2) \in 0 .. Gap(t2) - 1
         /\ Dist(x, t1, t2) = 0 <=> x \in {t1, t2}
         /\ Dist((x + 1) % 26, t1, t2) =
              IF Dist(x, t1, t2) = 0 THEN Gap(t2) - 1 ELSE Dist(x, t1, t2) - 1
<1> DEFINE s(y) == IF t2 = turnover_absent THEN t1
                   ELSE IF y <= t1 THEN t1 ELSE IF y <= t2 THEN t2 ELSE t1
           d(y) == IF s(y) >= y THEN s(y) - y ELSE s(y) - y + 26
           z == IF x = 25 THEN 0 ELSE x + 1
<1>1. /\ t1 \in 0 .. 25 /\ x \in 0 .. 25
      /\ t2 = 255 \/ (t1 < 13 /\ t2 = t1 + 13)
      /\ turnover_absent = 255
  BY SMT DEF Notched, Letter, turnover_absent
<1>2. (x + 1) % 26 = z /\ z \in 0 .. 25
  BY <1>1, SMT
<1>3. ASSUME NEW y \in Letter
      PROVE  /\ s(y) \in Letter /\ turnover_select_next(y, t1, t2) = s(y)
             /\ Dist(y, t1, t2) = d(y)
  <2>1. turnover_select_next(y, t1, t2) = s(y)
    BY SelectNext
  <2>2. s(y) \in Letter
    BY <1>1, SMT DEF Letter
  <2> HIDE DEF s
  <2> QED
    BY <2>1, <2>2, DeltaSub DEF Dist
<1>4. /\ Dist(x, t1, t2) = d(x) /\ Dist(z, t1, t2) = d(z)
  BY <1>2, <1>3 DEF Letter
<1>5. CASE t2 = 255
  <2>1. Gap(t2) = 26 /\ d(x) = (IF t1 >= x THEN t1 - x ELSE t1 - x + 26)
                     /\ d(z) = (IF t1 >= z THEN t1 - z ELSE t1 - z + 26)
    BY <1>1, <1>5 DEF Gap
  <2> HIDE DEF d
  <2> QED
    BY <1>1, <1>2, <1>3, <1>4, <1>5, <2>1, SMT
<1>6. CASE t2 # 255
  <2>1. t2 = t1 + 13 /\ t1 < 13 /\ Gap(t2) = 13
    BY <1>1, <1>6 DEF Gap
  <2>2. /\ d(x) = (IF x <= t1 THEN t1 - x ELSE IF x <= t1 + 13 THEN t1 + 13 - x ELSE t1 + 26 - x)
        /\ d(z) = (IF z <= t1 THEN t1 - z ELSE IF z <= t1 + 13 THEN t1 + 13 - z ELSE t1 + 26 - z)
    BY <1>1, <1>2, <1>6, <2>1, SMT
  <2> HIDE DEF d
  <2> QED
    BY <1>1, <1>2, <1>3, <1>4, <2>1, <2>2, SMT
<1> QED
  BY <1>5, <1>6

\* Turnovers as the right and the middle wheel have them
NotchedTurns(t) == Notched(t.r, t.r2) /\ Notched(t.m, t.m2)

\* Every key of the searches has them: the ring settings of a wheel with two
\* notches end where they would begin to repeat themselves.
LEMMA KeyIsNotched ==
  ASSUME NEW wheel \in 1 .. 8, NEW ring \in Letter, ring < RingLimit(wheel)
  PROVE  Notched(turnover_sub_echar_delta(wal_turn[wheel], ring), second_notch(wheel, ring))
<1>1. wal_turn[wheel] \in 0 .. 25 /\ (wheel > 5 => wal_turn[wheel] = 12)
  BY SMT DEF wal_turn
<1>2. PICK n \in 0 .. 25 : n = wal_turn[wheel]
  BY <1>1
<1>3. turnover_sub_echar_delta(n, ring) = (n - ring) % 26
  BY <1>2, SMT DEF turnover_sub_echar_delta, turnover_absent
<1>4. (n - ring) % 26 \in Letter
  BY <1>2, SMT DEF Letter
<1>5. CASE wheel > 5
  <2>1. ring \in 0 .. 12 /\ n = 12
    BY <1>1, <1>2, <1>5, SMT DEF RingLimit, Letter
  <2>2. (12 - ring) % 26 = 12 - ring /\ (25 - ring) % 26 = 25 - ring
    BY <2>1, SMT
  <2>3. second_notch(wheel, ring) = 25 - ring
    BY <1>5, <2>2, SMT DEF second_notch, turnover_sub_echar_delta, turnover_second_notch, turnover_absent
  <2> QED
    BY <1>2, <1>3, <1>4, <2>1, <2>2, <2>3, SMT DEF Notched
<1>6. CASE ~ (wheel > 5)
  <2>1. second_notch(wheel, ring) = turnover_absent
    BY <1>6 DEF second_notch
  <2> QED
    BY <1>2, <1>3, <1>4, <2>1 DEF Notched
<1> QED
  BY <1>5, <1>6

\* What is assumed of the calls, for each of their parts
LEMMA CallsFacts ==
  /\ \A k \in Keys : /\ k.model \in Models /\ k \in KeyOf(k.model)
                     /\ k.ring.m < RingLimit(k.slot.m) /\ k.ring.r < RingLimit(k.slot.r)
  /\ \A n \in Lengths : n \in 3 .. 250
  /\ \A flags \in Cpus : flags \subseteq {"ssse3", "avx", "avx2"}
  /\ stbrett \in [Letter -> Letter] /\ ciphertext \in [0 .. 255 -> Letter]
<1>1. ASSUME NEW k \in Keys
      PROVE  /\ k.model \in Models /\ k \in KeyOf(k.model)
             /\ k.ring.m < RingLimit(k.slot.m) /\ k.ring.r < RingLimit(k.slot.r)
  <2>1. PICK call \in Calls : k = call.key
    BY DEF Keys
  <2> QED
    BY <2>1, LookupAssumption
<1>2. ASSUME NEW n \in Lengths PROVE n \in 3 .. 250
  <2>1. PICK call \in Calls : n = call.len
    BY DEF Lengths
  <2> QED
    BY <2>1, LookupAssumption
<1>3. ASSUME NEW flags \in Cpus PROVE flags \subseteq {"ssse3", "avx", "avx2"}
  <2>1. PICK call \in Calls : flags = call.cpu
    BY DEF Cpus
  <2> QED
    BY <2>1, LookupAssumption
<1> QED
  BY <1>1, <1>2, <1>3, LookupAssumption

\* A key of the model: its turnovers, its wheels, and the part of it the
\* paths read.
LEMMA KeyFacts ==
  ASSUME NEW k \in Keys
  PROVE  /\ NotchedTurns(Turnovers(k))
         /\ Offsets(k) \in Wheels
         /\ \A w \in Wheels : Fits(k, w)
         /\ k.model # "M4" => k.slot.g = NoWheel
         /\ k.mesg.l \in Letter
<1>1. k.model \in Models /\ k \in KeyOf(k.model) /\ k.ring.m < RingLimit(k.slot.m)
                         /\ k.ring.r < RingLimit(k.slot.r)
  BY CallsFacts
<1>2. /\ k.slot.r \in 1 .. 8 /\ k.slot.m \in 1 .. 8 /\ k.slot.l \in 1 .. 8
      /\ k.slot.g \in 0 .. 10 /\ k.ukw \in 0 .. 4
      /\ k.ring.r \in Letter /\ k.ring.m \in Letter
      /\ k.mesg.g \in Letter /\ k.mesg.r \in Letter /\ k.mesg.m \in Letter /\ k.mesg.l \in Letter
      /\ k.model # "M4" => k.slot.g = NoWheel
  BY <1>1, SMT DEF KeyOf, Wheel, Greek, Ukw, Models, Beta, Gamma, NoWheel
<1>3. NotchedTurns(Turnovers(k))
  BY <1>1, <1>2, KeyIsNotched DEF NotchedTurns, Turnovers
<1>4. Offsets(k) \in Wheels
  <2>1. echar_delta_sub(k.mesg.r, k.ring.r) \in Letter /\ echar_delta_sub(k.mesg.m, k.ring.m) \in Letter
    BY <1>2, LettersClosed
  <2> QED
    BY <1>2, <2>1 DEF Offsets, Wheels
<1>5. ASSUME NEW w \in Wheels PROVE Fits(k, w)
  <2>1. w.r \in Letter /\ w.m \in Letter /\ w.l \in Letter
    BY DEF Wheels
  <2>2. k.slot.r \in 0 .. 10 /\ k.slot.m \in 0 .. 10 /\ k.slot.l \in 0 .. 10
    BY <1>2
  <2> QED
    BY <1>2, <2>1, <2>2 DEF Fits
<1> QED
  BY <1>2, <1>3, <1>4, <1>5

\* How far the right and the middle wheel are from their notches
RightDist(w, t)  == Dist(w.r, t.r, t.r2)
MiddleDist(w, t) == Dist(w.m, t.m, t.m2)

\* What one key does to the wheels and to their distances.
LEMMA StepMoves ==
  ASSUME NEW t, NotchedTurns(t), NEW w \in Wheels
  PROVE  LET v == StepAllRings(w, t)
             turns_m == RightDist(w, t) = 0 \/ MiddleDist(w, t) = 0
         IN /\ v = [r |-> v.r, m |-> v.m, l |-> v.l]
            /\ v.r \in Letter /\ v.m \in Letter /\ v.l \in Letter
            /\ v.r = (w.r + 1) % 26
            /\ RightDist(v, t) = IF RightDist(w, t) = 0 THEN Gap(t.r2) - 1 ELSE RightDist(w, t) - 1
            /\ turns_m => MiddleDist(v, t) = IF MiddleDist(w, t) = 0 THEN Gap(t.m2) - 1
                                             ELSE MiddleDist(w, t) - 1
            /\ ~ turns_m => v.m = w.m /\ MiddleDist(v, t) = MiddleDist(w, t)
            /\ v.l = IF MiddleDist(w, t) = 0 THEN (w.l + 1) % 26 ELSE w.l
<1> DEFINE v == StepAllRings(w, t)
<1>1. w.r \in Letter /\ w.m \in Letter /\ w.l \in Letter
  BY DEF Wheels
<1>2. /\ RightDist(w, t) = 0 <=> RightAtNotch(w, t)
      /\ MiddleDist(w, t) = 0 <=> MiddleAtNotch(w, t)
      /\ Dist((w.r + 1) % 26, t.r, t.r2)
           = IF RightDist(w, t) = 0 THEN Gap(t.r2) - 1 ELSE RightDist(w, t) - 1
      /\ Dist((w.m + 1) % 26, t.m, t.m2)
           = IF MiddleDist(w, t) = 0 THEN Gap(t.m2) - 1 ELSE MiddleDist(w, t) - 1
  BY <1>1, DistSteps DEF NotchedTurns, RightDist, MiddleDist, RightAtNotch, MiddleAtNotch
<1>3. /\ v.r = (w.r + 1) % 26
      /\ v.m = IF RightDist(w, t) = 0 \/ MiddleDist(w, t) = 0 THEN (w.m + 1) % 26 ELSE w.m
      /\ v.l = IF MiddleDist(w, t) = 0 THEN (w.l + 1) % 26 ELSE w.l
      /\ v = [r |-> v.r, m |-> v.m, l |-> v.l]
  BY <1>2 DEF StepAllRings
<1>4. \A x \in Letter : (x + 1) % 26 \in Letter
  BY SMT DEF Letter
<1>5. v.r \in Letter /\ v.m \in Letter /\ v.l \in Letter
  BY <1>1, <1>3, <1>4
<1>6. /\ RightDist(v, t) = Dist((w.r + 1) % 26, t.r, t.r2)
      /\ MiddleDist(v, t) = IF RightDist(w, t) = 0 \/ MiddleDist(w, t) = 0
                            THEN Dist((w.m + 1) % 26, t.m, t.m2) ELSE MiddleDist(w, t)
  BY <1>3 DEF RightDist, MiddleDist
<1> HIDE DEF v
<1>7. /\ v = [r |-> v.r, m |-> v.m, l |-> v.l]
      /\ v.r \in Letter /\ v.m \in Letter /\ v.l \in Letter
      /\ v.r = (w.r + 1) % 26
      /\ RightDist(v, t) = IF RightDist(w, t) = 0 THEN Gap(t.r2) - 1 ELSE RightDist(w, t) - 1
      /\ (RightDist(w, t) = 0 \/ MiddleDist(w, t) = 0) =>
           MiddleDist(v, t) = IF MiddleDist(w, t) = 0 THEN Gap(t.m2) - 1
                              ELSE MiddleDist(w, t) - 1
      /\ ~ (RightDist(w, t) = 0 \/ MiddleDist(w, t) = 0) =>
           v.m = w.m /\ MiddleDist(v, t) = MiddleDist(w, t)
      /\ v.l = IF MiddleDist(w, t) = 0 THEN (w.l + 1) % 26 ELSE w.l
  BY <1>2, <1>3, <1>5, <1>6
<1> QED
  BY <1>7 DEF v

\* The wheels stay wheels, and their distances within the gaps.
LEMMA WalkType ==
  ASSUME NEW t, NotchedTurns(t), NEW w \in Wheels, NEW n \in Nat
  PROVE  /\ Walk(w, t, n) \in Wheels
         /\ RightDist(Walk(w, t, n), t) \in 0 .. Gap(t.r2) - 1
         /\ MiddleDist(Walk(w, t, n), t) \in 0 .. Gap(t.m2) - 1
<1> DEFINE S == {k \in Nat : Walk(w, t, k) \in Wheels}
<1>1. 0 \in S
  BY WalkStep
<1>2. ASSUME NEW k \in Nat, k \in S PROVE k + 1 \in S
  <2> DEFINE v == StepAllRings(Walk(w, t, k), t)
  <2>1. v = [r |-> v.r, m |-> v.m, l |-> v.l] /\ v.r \in Letter /\ v.m \in Letter /\ v.l \in Letter
    BY <1>2, StepMoves
  <2> HIDE DEF v
  <2>2. v \in Wheels
    BY <2>1 DEF Wheels
  <2> QED
    BY <2>2, WalkStep DEF v
<1> HIDE DEF S
<1>3. n \in S
  BY <1>1, <1>2, InductionOnNat
<1>4. Walk(w, t, n) \in Wheels
  BY <1>3 DEF S
<1>5. Walk(w, t, n).r \in Letter /\ Walk(w, t, n).m \in Letter
  BY <1>4 DEF Wheels
<1> QED
  BY <1>4, <1>5, DistSteps DEF NotchedTurns, RightDist, MiddleDist

\* Distances are below the gap.
LEMMA DistType ==
  ASSUME NEW t, NotchedTurns(t), NEW w \in Wheels
  PROVE  /\ RightDist(w, t) \in 0 .. Gap(t.r2) - 1
         /\ MiddleDist(w, t) \in 0 .. Gap(t.m2) - 1
         /\ Gap(t.r2) \in {13, 26} /\ Gap(t.m2) \in {13, 26}
<1>1. Walk(w, t, 0) = w
  BY WalkStep
<1>2. Gap(t.r2) \in {13, 26} /\ Gap(t.m2) \in {13, 26}
  BY DEF Gap
<1>3. 0 \in Nat
  OBVIOUS
<1> QED
  BY <1>1, <1>2, <1>3, WalkType

\* Keys until the middle wheel turns next
ToTurnover(w, t) == IF MiddleDist(w, t) = 0 THEN 1 ELSE RightDist(w, t) + 1

\* charsToNextTurnover of the code is that number, and the offset the code
\* puts the right wheel to is where it is just before.
LEMMA NextTurnover ==
  ASSUME NEW t, NotchedTurns(t), NEW w \in Wheels
  PROVE  /\ echar_delta_sub(GetNextTurnover(w, t), w.r) + 1 = ToTurnover(w, t)
         /\ ToTurnover(w, t) \in 1 .. 26
         /\ GetNextTurnover(w, t) = (w.r + ToTurnover(w, t) - 1) % 26
<1> DEFINE g == GetNextTurnover(w, t)
<1>1. w.r \in Letter /\ w.m \in Letter
  BY DEF Wheels
<1>2. MiddleDist(w, t) = 0 <=> MiddleAtNotch(w, t)
  BY <1>1, DistSteps DEF NotchedTurns, MiddleDist, MiddleAtNotch
<1>3. turnover_select_next(w.r, t.r, t.r2) \in Letter
      /\ (t.r2 = turnover_absent => turnover_select_next(w.r, t.r, t.r2) = t.r)
  BY <1>1, DistSteps, SelectNext DEF NotchedTurns
<1>4. g = IF MiddleDist(w, t) = 0 THEN w.r ELSE turnover_select_next(w.r, t.r, t.r2)
  BY <1>2, <1>3 DEF GetNextTurnover
<1>5. g \in Letter
  BY <1>1, <1>3, <1>4
<1>6. echar_delta_sub(g, w.r) = ToTurnover(w, t) - 1
  <2>1. echar_delta_sub(w.r, w.r) = 0
    BY <1>1, DeltaSub DEF Letter
  <2>2. echar_delta_sub(g, w.r) = IF MiddleDist(w, t) = 0 THEN 0 ELSE RightDist(w, t)
    BY <1>4, <2>1 DEF RightDist, Dist
  <2>3. RightDist(w, t) \in 0 .. 25
    BY <1>1, DistSteps DEF NotchedTurns, RightDist, Gap
  <2> HIDE DEF g
  <2> QED
    BY <2>2, <2>3 DEF ToTurnover
<1> HIDE DEF g
<1>7. echar_delta_sub(g, w.r) = IF g >= w.r THEN g - w.r ELSE g - w.r + 26
  BY <1>1, <1>5, DeltaSub
<1>8. PICK r \in 0 .. 25 : r = w.r
  BY <1>1 DEF Letter
<1>9. PICK d \in Int : d = ToTurnover(w, t)
  <2>1. RightDist(w, t) \in 0 .. 25
    BY <1>1, DistSteps DEF NotchedTurns, RightDist, Gap
  <2> QED
    BY <2>1 DEF ToTurnover
<1>10. d = (IF g >= r THEN g - r ELSE g - r + 26) + 1
  BY <1>5, <1>6, <1>7, <1>8, <1>9 DEF Letter
<1>11. d \in 1 .. 26 /\ (r + d - 1) % 26 = g
  BY <1>5, <1>8, <1>10, SMT DEF Letter
<1> QED
  BY <1>5, <1>6, <1>8, <1>9, <1>11 DEF g, Letter

\* Until the turnover the right wheel turns alone.
LEMMA RestsTillTurnover ==
  ASSUME NEW t, NotchedTurns(t), NEW w \in Wheels, NEW k \in Nat, k < ToTurnover(w, t)
  PROVE  /\ Walk(w, t, k) = [w EXCEPT !.r = (w.r + k) % 26]
         /\ RightDist(Walk(w, t, k), t) = RightDist(w, t) - k
<1> DEFINE S == {j \in Nat : /\ Walk(w, t, j) = [w EXCEPT !.r = (w.r + j) % 26]
                             /\ RightDist(Walk(w, t, j), t) = RightDist(w, t) - j}
<1>1. PICK r \in 0 .. 25 : r = w.r
  BY DEF Wheels, Letter
<1>2. Walk(w, t, 0) = w /\ RightDist(w, t) \in 0 .. 25 /\ MiddleDist(w, t) \in 0 .. 25
  BY WalkStep, DistType
<1>3. 0 \in S
  <2>1. (r + 0) % 26 = r
    BY SMT
  <2>2. w = [w EXCEPT !.r = w.r]
    BY DEF Wheels
  <2> QED
    BY <1>1, <1>2, <2>1, <2>2
<1>4. ASSUME NEW j \in 0 .. k - 1, j \in S PROVE j + 1 \in S
  <2> DEFINE u == Walk(w, t, j)
             v == StepAllRings(u, t)
  <2>1. MiddleDist(w, t) # 0 /\ j < RightDist(w, t)
    BY <1>2, <1>4 DEF ToTurnover
  <2>2. u = [w EXCEPT !.r = (w.r + j) % 26] /\ RightDist(u, t) = RightDist(w, t) - j
    BY <1>4
  <2>3. u \in Wheels
    BY <1>4, WalkType
  <2>4. Walk(w, t, j + 1) = v
    BY <1>4, WalkStep
  <2> HIDE DEF u
  <2>5. u.r = (w.r + j) % 26 /\ u.m = w.m /\ u.l = w.l
    BY <2>2 DEF Wheels
  <2>6. RightDist(u, t) # 0 /\ MiddleDist(u, t) # 0
    BY <1>2, <2>1, <2>2, <2>5 DEF MiddleDist
  <2>7. /\ v = [r |-> v.r, m |-> v.m, l |-> v.l]
        /\ v.r = (u.r + 1) % 26 /\ v.m = u.m /\ v.l = u.l
        /\ RightDist(v, t) = RightDist(u, t) - 1
    BY <2>3, <2>6, StepMoves
  <2> HIDE DEF v
  <2>8. v.r = (r + (j + 1)) % 26
    <3>1. u.r = (r + j) % 26
      BY <1>1, <2>5
    <3> QED
      BY <2>7, <3>1, SMT
  <2>9. v = [w EXCEPT !.r = (w.r + (j + 1)) % 26]
    BY <1>1, <2>5, <2>7, <2>8 DEF Wheels
  <2>10. RightDist(v, t) = RightDist(w, t) - (j + 1)
    BY <1>2, <2>2, <2>7
  <2> QED
    BY <2>4, <2>9, <2>10
<1> HIDE DEF S
<1>5. k \in S
  BY <1>3, <1>4, InductionUpTo
<1> QED
  BY <1>5 DEF S

\* Turning the right wheel by hand to just before a letter no later than the
\* turnover, and pressing one key, leads where the machine is then.
LEMMA JumpIsWalk ==
  ASSUME NEW t, NotchedTurns(t), NEW w \in Wheels,
         NEW k \in Nat \ {0}, k <= ToTurnover(w, t)
  PROVE  StepAllRings([w EXCEPT !.r = (w.r + k - 1) % 26], t) = Walk(w, t, k)
<1>1. k - 1 \in Nat /\ k - 1 < ToTurnover(w, t) /\ (k - 1) + 1 = k /\ ToTurnover(w, t) \in 1 .. 26
  BY NextTurnover
<1>2. PICK r \in 0 .. 25 : r = w.r
  BY DEF Wheels, Letter
<1>3. r + (k - 1) = r + k - 1
  BY <1>2
<1>4. Walk(w, t, k - 1) = [w EXCEPT !.r = (w.r + k - 1) % 26]
  BY <1>1, <1>2, <1>3, RestsTillTurnover
<1>5. Walk(w, t, (k - 1) + 1) = StepAllRings(Walk(w, t, k - 1), t)
  BY <1>1, WalkStep
<1> QED
  BY <1>1, <1>4, <1>5

\* At the turnover: which notch it is due to, and how far the next ones are.
LEMMA AtTurnover ==
  ASSUME NEW t, NotchedTurns(t), NEW w \in Wheels
  PROVE  LET k == ToTurnover(w, t)
             v == Walk(w, t, k)
         IN /\ MiddleDist(w, t) = 0 => /\ k = 1 /\ RightDist(v, t) >= RightDist(w, t) - 1
                                       /\ MiddleDist(v, t) = Gap(t.m2) - 1
            /\ MiddleDist(w, t) # 0 => /\ k = RightDist(w, t) + 1
                                       /\ RightDist(v, t) = Gap(t.r2) - 1
                                       /\ MiddleDist(v, t) = MiddleDist(w, t) - 1
<1> DEFINE k == ToTurnover(w, t)
           u == Walk(w, t, k - 1)
           v == Walk(w, t, k)
<1>1. k \in 1 .. 26 /\ RightDist(w, t) \in 0 .. Gap(t.r2) - 1 /\ MiddleDist(w, t) \in 0 .. 25
      /\ Gap(t.r2) \in {13, 26}
  BY DistType, NextTurnover
<1>2. k - 1 \in Nat /\ k - 1 < k /\ (k - 1) + 1 = k
  BY <1>1
<1>3. u = [w EXCEPT !.r = (w.r + (k - 1)) % 26] /\ RightDist(u, t) = RightDist(w, t) - (k - 1)
  BY <1>2, RestsTillTurnover
<1>4. u \in Wheels /\ MiddleDist(u, t) = MiddleDist(w, t)
  <2>1. u \in Wheels
    BY <1>2, WalkType
  <2>2. u.m = w.m
    BY <1>3 DEF Wheels
  <2> QED
    BY <2>1, <2>2 DEF MiddleDist
<1>5. v = StepAllRings(u, t)
  BY <1>2, WalkStep
<1>6. k = IF MiddleDist(w, t) = 0 THEN 1 ELSE RightDist(w, t) + 1
  BY DEF ToTurnover
<1> HIDE DEF u, v, k
<1>7. /\ RightDist(v, t) = IF RightDist(u, t) = 0 THEN Gap(t.r2) - 1 ELSE RightDist(u, t) - 1
      /\ (RightDist(u, t) = 0 \/ MiddleDist(u, t) = 0) =>
           MiddleDist(v, t) = IF MiddleDist(u, t) = 0 THEN Gap(t.m2) - 1
                              ELSE MiddleDist(u, t) - 1
  BY <1>4, <1>5, StepMoves
<1>8. MiddleDist(w, t) = 0 => /\ k = 1 /\ RightDist(v, t) >= RightDist(w, t) - 1
                              /\ MiddleDist(v, t) = Gap(t.m2) - 1
  BY <1>1, <1>3, <1>4, <1>6, <1>7
<1>9. MiddleDist(w, t) # 0 => /\ k = RightDist(w, t) + 1
                              /\ RightDist(v, t) = Gap(t.r2) - 1
                              /\ MiddleDist(v, t) = MiddleDist(w, t) - 1
  BY <1>1, <1>3, <1>4, <1>6, <1>7
<1> QED
  BY <1>8, <1>9 DEF v, k

-----------------------------------------------------------------------------
(* The slow wheel.                                                         *)

\* Keys that are pressed while the left wheel rests, if the middle wheel does
\* not start at a notch
RestOfLeft(w, t) == RightDist(w, t) + 1 + Gap(t.r2) * (MiddleDist(w, t) - 1)

\* After j keys: q is how often the left wheel has turned.  Between two turns
\* the middle wheel turns at least a dozen times.
LeftTurned(w, t, j, q) ==
  LET v == Walk(w, t, j)
      rest == RestOfLeft(w, t)
  IN /\ v.l = (w.l + q) % 26
     /\ 13 * q <= j + MiddleDist(v, t)
     /\ j <= rest =>
          /\ q = 0
          /\ rest - j = IF MiddleDist(v, t) = 0 THEN 0 ELSE RestOfLeft(v, t)
     /\ j > rest => q > 0

\* One more key
LEMMA LeftTurns ==
  ASSUME NEW t, NotchedTurns(t), NEW w \in Wheels, MiddleDist(w, t) # 0,
         NEW j \in Nat, NEW q \in Nat, LeftTurned(w, t, j, q)
  PROVE  \E p \in Nat : LeftTurned(w, t, j + 1, p)
<1> DEFINE u == Walk(w, t, j)
           v == Walk(w, t, j + 1)
           rest == RestOfLeft(w, t)
           g == Gap(t.r2)
           left(x) == RightDist(x, t) + 1 + g * (MiddleDist(x, t) - 1)
<1>1. u \in Wheels /\ v \in Wheels /\ v = StepAllRings(u, t)
  BY WalkType, WalkStep
<1>2. /\ g \in {13, 26} /\ Gap(t.m2) \in {13, 26}
      /\ RightDist(w, t) \in 0 .. g - 1 /\ MiddleDist(w, t) \in 1 .. 25
      /\ RightDist(u, t) \in 0 .. g - 1 /\ MiddleDist(u, t) \in 0 .. 25
      /\ RightDist(v, t) \in 0 .. g - 1 /\ MiddleDist(v, t) \in 0 .. 25
  BY <1>1, DistType
<1>3. /\ rest = left(w) /\ RestOfLeft(u, t) = left(u) /\ RestOfLeft(v, t) = left(v)
  BY DEF RestOfLeft
<1>4. rest \in Nat
  <2>1. CASE g = 13
    BY <1>2, <1>3, <2>1
  <2>2. CASE g = 26
    BY <1>2, <1>3, <2>2
  <2> QED
    BY <1>2, <2>1, <2>2
<1>5. /\ u.l = (w.l + q) % 26
      /\ 13 * q <= j + MiddleDist(u, t)
      /\ j <= rest => q = 0 /\ rest - j = IF MiddleDist(u, t) = 0 THEN 0 ELSE left(u)
      /\ j > rest => q > 0
  BY <1>3 DEF LeftTurned
<1>6. /\ RightDist(v, t) = IF RightDist(u, t) = 0 THEN g - 1 ELSE RightDist(u, t) - 1
      /\ (RightDist(u, t) = 0 \/ MiddleDist(u, t) = 0) =>
           MiddleDist(v, t) = IF MiddleDist(u, t) = 0 THEN Gap(t.m2) - 1
                              ELSE MiddleDist(u, t) - 1
      /\ ~ (RightDist(u, t) = 0 \/ MiddleDist(u, t) = 0) => MiddleDist(v, t) = MiddleDist(u, t)
      /\ v.l = IF MiddleDist(u, t) = 0 THEN (u.l + 1) % 26 ELSE u.l
  BY <1>1, StepMoves
<1> DEFINE p == IF MiddleDist(u, t) = 0 THEN q + 1 ELSE q
<1>7. p \in Nat
  OBVIOUS
<1>8. v.l = (w.l + p) % 26
  <2>1. PICK a \in 0 .. 25 : a = w.l
    BY DEF Wheels, Letter
  <2>2. (((a + q) % 26) + 1) % 26 = (a + (q + 1)) % 26
    BY SMT
  <2> QED
    BY <1>5, <1>6, <2>1, <2>2
<1>9. 13 * p <= (j + 1) + MiddleDist(v, t)
  BY <1>2, <1>5, <1>6
<1> HIDE DEF u, v, rest
<1>10. ASSUME j + 1 <= rest
       PROVE  p = 0 /\ rest - (j + 1) = IF MiddleDist(v, t) = 0 THEN 0 ELSE left(v)
  <2>1. q = 0 /\ rest - j = left(u) /\ MiddleDist(u, t) # 0
    BY <1>4, <1>5, <1>10
  <2>2. p = 0
    BY <2>1
  <2>3. CASE g = 13
    <3>1. /\ left(u) = RightDist(u, t) + 1 + 13 * (MiddleDist(u, t) - 1)
          /\ left(v) = RightDist(v, t) + 1 + 13 * (MiddleDist(v, t) - 1)
      BY <2>3
    <3> HIDE DEF left, g
    <3> QED
      BY <1>2, <1>4, <1>6, <2>1, <2>2, <2>3, <3>1
  <2>4. CASE g = 26
    <3>1. /\ left(u) = RightDist(u, t) + 1 + 26 * (MiddleDist(u, t) - 1)
          /\ left(v) = RightDist(v, t) + 1 + 26 * (MiddleDist(v, t) - 1)
      BY <2>4
    <3> HIDE DEF left, g
    <3> QED
      BY <1>2, <1>4, <1>6, <2>1, <2>2, <2>4, <3>1
  <2> QED
    BY <1>2, <2>3, <2>4
<1>11. ASSUME j + 1 > rest PROVE p > 0
  <2>1. CASE j = rest
    <3>1. (IF MiddleDist(u, t) = 0 THEN 0 ELSE left(u)) = 0
      BY <1>4, <1>5, <2>1
    <3>2. left(u) # 0 \/ MiddleDist(u, t) = 0
      <4>1. CASE g = 13
        BY <1>2, <4>1
      <4>2. CASE g = 26
        BY <1>2, <4>2
      <4> QED
        BY <1>2, <4>1, <4>2
    <3> HIDE DEF left
    <3> QED
      BY <3>1, <3>2
  <2>2. CASE j # rest
    BY <1>4, <1>5, <1>11, <2>2
  <2> QED
    BY <2>1, <2>2
<1> HIDE DEF p
<1>12. LeftTurned(w, t, j + 1, p)
  BY <1>3, <1>8, <1>9, <1>10, <1>11 DEF LeftTurned, u, v, rest
<1> QED
  BY <1>7, <1>12

\* As many keys as a message has letters: the left wheel has turned if and
\* only if it was due, since it has not gone round.
LEMMA LeftWheelTurns ==
  ASSUME NEW t, NotchedTurns(t), NEW w \in Wheels, MiddleDist(w, t) # 0, NEW n \in 0 .. 256
  PROVE  Walk(w, t, n).l # w.l <=> n > RestOfLeft(w, t)
<1> DEFINE S == {j \in Nat : \E q \in Nat : LeftTurned(w, t, j, q)}
<1>0. PICK a \in 0 .. 25 : a = w.l
  BY DEF Wheels, Letter
<1>1. 0 \in S
  <2>1. Walk(w, t, 0) = w /\ MiddleDist(w, t) \in 0 .. 25 /\ (a + 0) % 26 = a
    BY WalkStep, DistType, SMT
  <2>2. RestOfLeft(w, t) \in Nat
    <3>1. RightDist(w, t) \in Nat /\ MiddleDist(w, t) - 1 \in Nat /\ Gap(t.r2) \in {13, 26}
      BY DistType
    <3>2. Gap(t.r2) * (MiddleDist(w, t) - 1) \in Nat
      BY <3>1, SMT
    <3> QED
      BY <3>1, <3>2 DEF RestOfLeft
  <2>3. PICK rest \in Nat : rest = RestOfLeft(w, t)
    BY <2>2
  <2>4. rest - 0 = rest /\ ~ (0 > rest) /\ 13 * 0 <= 0 + MiddleDist(w, t)
    BY <2>1
  <2>5. LeftTurned(w, t, 0, 0)
    BY <1>0, <2>1, <2>3, <2>4 DEF LeftTurned
  <2> QED
    BY <2>5
<1>2. ASSUME NEW j \in Nat, j \in S PROVE j + 1 \in S
  BY <1>2, LeftTurns
<1> HIDE DEF S
<1>3. n \in S
  BY <1>1, <1>2, InductionOnNat
<1>4. PICK q \in Nat : LeftTurned(w, t, n, q)
  BY <1>3 DEF S
<1> DEFINE v == Walk(w, t, n)
           rest == RestOfLeft(w, t)
<1>5. /\ v.l = (w.l + q) % 26
      /\ 13 * q <= n + MiddleDist(v, t)
      /\ n <= rest => q = 0
      /\ n > rest => q > 0
  BY <1>4 DEF LeftTurned
<1>6. MiddleDist(v, t) \in 0 .. 25
  <2>1. n \in Nat /\ Gap(t.m2) \in {13, 26}
    BY DistType
  <2>2. MiddleDist(v, t) \in 0 .. Gap(t.m2) - 1
    BY <2>1, WalkType
  <2> QED
    BY <2>1, <2>2
<1>7. rest \in Int
  <2>1. RightDist(w, t) \in Nat /\ MiddleDist(w, t) \in Nat /\ Gap(t.r2) \in {13, 26}
    BY DistType
  <2>2. Gap(t.r2) * (MiddleDist(w, t) - 1) \in Int
    BY <2>1, SMT
  <2> QED
    BY <2>1, <2>2 DEF RestOfLeft
<1> HIDE DEF v, rest
<1>8. q \in 0 .. 21
  BY <1>5, <1>6
<1>9. (a + q) % 26 = a <=> q = 0
  BY <1>8, SMT
<1>10. v.l # w.l <=> n > rest
  BY <1>0, <1>5, <1>7, <1>8, <1>9
<1> QED
  BY <1>10 DEF v, rest

\* scrambler_state works out what the wheels do: for every key and every
\* number of letters it says whether the slow wheel moves with the first key,
\* with a later one, or not at all.
THEOREM ScramblerStateIsForecast ==
  ASSUME NEW k \in Keys, NEW n \in 1 .. 256
  PROVE  LET after(i) == Walk(Offsets(k), Turnovers(k), i)
         IN scrambler_state(k, n) =
              IF after(1).l # k.mesg.l THEN "SW_ONSTART"
              ELSE IF after(n).l # k.mesg.l THEN "SW_OTHER" ELSE "SW_NONE"
<1> DEFINE o == Offsets(k)
           t == Turnovers(k)
<1>1. o \in Wheels /\ NotchedTurns(t) /\ o.l = k.mesg.l /\ k.mesg.l \in Letter
  BY KeyFacts DEF Offsets
<1>2. scrambler_state(k, n) =
        IF MiddleDist(o, t) = 0 THEN "SW_ONSTART"
        ELSE IF RestOfLeft(o, t) >= n THEN "SW_NONE" ELSE "SW_OTHER"
  BY DEF scrambler_state, MiddleDist, RightDist, Dist, RestOfLeft, Gap, TooLate
<1> HIDE DEF o, t
<1>3. Walk(o, t, 1) = StepAllRings(o, t)
  <2>1. 0 \in Nat /\ 0 + 1 = 1
    OBVIOUS
  <2> QED
    BY <2>1, WalkStep
<1>4. MiddleDist(o, t) = 0 <=> Walk(o, t, 1).l # o.l
  <2>1. Walk(o, t, 1).l = IF MiddleDist(o, t) = 0 THEN (o.l + 1) % 26 ELSE o.l
    BY <1>1, <1>3, StepMoves
  <2>2. \A a \in Letter : (a + 1) % 26 # a
    BY SMT DEF Letter
  <2> QED
    BY <1>1, <2>1, <2>2
<1>5. RestOfLeft(o, t) \in Int
  <2>1. RightDist(o, t) \in Nat /\ MiddleDist(o, t) \in Nat /\ Gap(t.r2) \in {13, 26}
    BY <1>1, DistType
  <2>2. Gap(t.r2) * (MiddleDist(o, t) - 1) \in Int
    BY <2>1, SMT
  <2> QED
    BY <2>1, <2>2 DEF RestOfLeft
<1>6. MiddleDist(o, t) # 0 => (Walk(o, t, n).l # o.l <=> n > RestOfLeft(o, t))
  <2>1. n \in 0 .. 256
    OBVIOUS
  <2> QED
    BY <1>1, <2>1, LeftWheelTurns
<1> QED
  BY <1>1, <1>2, <1>4, <1>5, <1>6 DEF o, t

-----------------------------------------------------------------------------
(* Lookups and their masks.                                                *)

LookupRecord == [m : Letter, l : Letter, begin : Nat, end : Nat]

Covers(lookup, c) == lookup.begin <= c /\ c < lookup.end

\* The lookups from .. to share out the first letters of a bite, of which
\* base letters are before it: each letter is under the mask of one of them,
\* the one with the middle and the left wheel where the machine has them.
Shares(ls, w, t, base, from, to, letters) ==
  \A c \in 0 .. letters - 1 : \E n \in from .. to :
    /\ \A i \in from .. to : Covers(ls[i], c) <=> i = n
    /\ ls[n].m = Walk(w, t, base + c).m /\ ls[n].l = Walk(w, t, base + c).l

\* The masks of these lookups end at a letter, or before it.
EndBy(ls, from, to, letter) == \A n \in from .. to : ls[n].end <= letter

\* One more lookup, behind the others
LEMMA SharesMore ==
  ASSUME NEW ls \in Seq(LookupRecord), NEW rec \in LookupRecord, NEW w, NEW t,
         NEW base \in Nat, NEW from \in 1 .. Len(ls) + 1,
         NEW p \in Nat, NEW q \in Nat, rec.begin = p, rec.end = q, p < q,
         Shares(ls, w, t, base, from, Len(ls), p), EndBy(ls, from, Len(ls), p),
         \A c \in p .. q - 1 :
           rec.m = Walk(w, t, base + c).m /\ rec.l = Walk(w, t, base + c).l
  PROVE  /\ Shares(Append(ls, rec), w, t, base, from, Len(ls) + 1, q)
         /\ EndBy(Append(ls, rec), from, Len(ls) + 1, q)
<1> DEFINE to == Len(ls)
           ls2 == Append(ls, rec)
<1>1. to \in Nat /\ ls2[to + 1] = rec /\ \A n \in 1 .. to : ls2[n] = ls[n] /\ ls[n] \in LookupRecord
  OBVIOUS
<1> HIDE DEF to, ls2
<1>2. from \in 1 .. to + 1
  BY DEF to
<1>3. \A n \in from .. to : ls2[n] = ls[n] /\ ls[n].begin \in Nat /\ ls[n].end \in Nat
  <2>1. from .. to \subseteq 1 .. to
    BY <1>1, <1>2
  <2>2. \A x \in LookupRecord : x.begin \in Nat /\ x.end \in Nat
    BY DEF LookupRecord
  <2> QED
    BY <1>1, <2>1, <2>2
<1>4. \A n \in from .. to : ls[n].end <= p
  BY DEF EndBy, to
<1>5. EndBy(ls2, from, to + 1, q)
  <2>1. ASSUME NEW n \in from .. to + 1 PROVE ls2[n].end <= q
    <3>1. CASE n = to + 1
      BY <1>1, <3>1
    <3>2. CASE n # to + 1
      <4>1. n \in from .. to
        BY <1>1, <1>2, <3>2
      <4> QED
        BY <1>3, <1>4, <4>1
    <3> QED
      BY <3>1, <3>2
  <2> QED
    BY <2>1 DEF EndBy
<1>6. ASSUME NEW c \in 0 .. q - 1
      PROVE  \E n \in from .. to + 1 :
               /\ \A i \in from .. to + 1 : Covers(ls2[i], c) <=> i = n
               /\ ls2[n].m = Walk(w, t, base + c).m /\ ls2[n].l = Walk(w, t, base + c).l
  <2>1. Covers(ls2[to + 1], c) <=> c >= p
    BY <1>1 DEF Covers
  <2>2. \A i \in from .. to : Covers(ls2[i], c) <=> Covers(ls[i], c)
    BY <1>3
  <2>3. from .. to + 1 = (from .. to) \cup {to + 1} /\ to + 1 \notin from .. to
    BY <1>1, <1>2
  <2>4. CASE c < p
    <3>1. c \in 0 .. p - 1
      BY <2>4
    <3>2. PICK n \in from .. to :
            /\ \A i \in from .. to : Covers(ls[i], c) <=> i = n
            /\ ls[n].m = Walk(w, t, base + c).m /\ ls[n].l = Walk(w, t, base + c).l
      BY <3>1 DEF Shares, to
    <3>3. \A i \in from .. to + 1 : Covers(ls2[i], c) <=> i = n
      BY <2>1, <2>2, <2>3, <2>4, <3>2
    <3> QED
      BY <1>3, <2>3, <3>2, <3>3
  <2>5. CASE c >= p
    <3>1. c \in p .. q - 1
      BY <2>5
    <3>2. \A i \in from .. to : ~ Covers(ls[i], c)
      BY <1>3, <1>4, <2>5 DEF Covers
    <3>3. \A i \in from .. to + 1 : Covers(ls2[i], c) <=> i = to + 1
      BY <2>1, <2>2, <2>3, <2>5, <3>2
    <3> QED
      BY <1>1, <2>3, <3>1, <3>3
  <2> QED
    BY <2>4, <2>5
<1>7. Shares(ls2, w, t, base, from, to + 1, q)
  BY <1>6 DEF Shares
<1> QED
  BY <1>5, <1>7 DEF ls2, to

\* The lookups made before stay what they are.
LEMMA SharesKept ==
  ASSUME NEW ls \in Seq(LookupRecord), NEW rec, NEW w, NEW t, NEW base,
         NEW from \in Nat \ {0}, NEW to \in Nat, to <= Len(ls), NEW letters,
         Shares(ls, w, t, base, from, to, letters)
  PROVE  Shares(Append(ls, rec), w, t, base, from, to, letters)
<1>1. \A n \in from .. to : Append(ls, rec)[n] = ls[n]
  OBVIOUS
<1> QED
  BY <1>1 DEF Shares

-----------------------------------------------------------------------------
(* The inductive invariant.                                                *)

\* The wheels at a letter of the message
At(i) == Walk(start, turns, i)

Vector    == simd # "basic"
MaxOfBite == IF simd = "avx2" THEN 5 ELSE 4

\* What is said of every processor
Ranges ==
  /\ key \in Keys /\ len \in Lengths /\ cpu \in Cpus /\ running \in BOOLEAN
  /\ rings \in Wheels /\ machine \in Wheels /\ rAtFirstPos \in Letter
  /\ messagePosition \in 0 .. 256
  /\ nextBite \in Seq(Nat)
  /\ messageBite \in 0 .. bitesLimit /\ lookupNumber \in 0 .. MaxLookups
  /\ currentRRingOffset = [lane \in 0 .. size - 1 |->
                             (start.r + size * messageBite + lane) % 26]

\* Without vectors: the lookups are the wheels of every letter.
BasicInv ==
  /\ machine = start /\ messagePosition = 0 /\ nextBite = << >> /\ messageBite = 0
  /\ running => lookups = << >> /\ plain = << >>
  /\ ~ running => lookups = [i \in 1 .. len |-> At(i - 1)]
  /\ \A c \in DOMAIN plain :
       c \in 0 .. len - 1 /\ plain[c] = Enigma(key, stbrett, At(c), ciphertext[c])

FirstOf(bite) == IF bite = 1 THEN 1 ELSE nextBite[bite - 1] + 1

\* The bites that are prepared
BitesInv ==
  /\ lookups \in Seq(LookupRecord)
  /\ Len(nextBite) <= Len(lookups) /\ Len(lookups) <= MaxLookups
  /\ Len(nextBite) <= bitesLimit
  /\ \A b \in 1 .. Len(nextBite) :
       /\ FirstOf(b) \in Nat \ {0} /\ nextBite[b] \in 1 .. Len(lookups)
       /\ nextBite[b] - FirstOf(b) + 1 \in 1 .. MaxOfBite
       /\ Shares(lookups, start, turns, size * (b - 1), FirstOf(b), nextBite[b], size)

\* How many lookups there can be up to a letter of a bite: one for each
\* turnover due to a notch of the right wheel, one for the only one that can be
\* due to the middle wheel itself.
Counted(w, t, lookupsOfBite, letter) ==
  \E right, middle \in Nat :
    /\ lookupsOfBite = right + middle
    /\ Gap(t.r2) * right <= letter + RightDist(w, t)
    /\ middle <= 1
    /\ middle = 1 => MiddleDist(w, t) + right >= 12

\* The bite that is being prepared
CurrentInv ==
  LET bites == Len(nextBite)
      first == FirstOf(bites + 1)
      letter == messagePosition - size * bites
  IN /\ bites < bitesLimit /\ Len(lookups) < MaxLookups
     /\ letter \in 0 .. size - 1
     /\ first \in 1 .. Len(lookups) + 1
     /\ rings = At(messagePosition) /\ machine = rings
     /\ rAtFirstPos = (start.r + size * bites) % 26
     /\ Shares(lookups, start, turns, size * bites, first, Len(lookups), letter)
     /\ EndBy(lookups, first, Len(lookups), letter)
     /\ Counted(rings, turns, Len(lookups) - first + 1, letter)
     /\ messageBite = 0

\* The bite that was deciphered last, if it has been prepared
DecodedInv ==
  LET first == size * (messageBite - 1)
  IN /\ messageBite = 0 => plain = << >> /\ lookupNumber = 0
     /\ messageBite > 0 =>
          /\ machine = At(first)
          /\ DOMAIN plain = 0 .. size - 1
          /\ messageBite <= Len(nextBite) =>
               /\ lookupNumber = nextBite[messageBite]
               /\ \A c \in 0 .. size - 1 :
                    plain[c] = Enigma(key, stbrett, At(first + c), ciphertext[first + c])

Inv ==
  /\ Ranges
  /\ ~ Vector => BasicInv
  /\ Vector => BitesInv /\ (running => CurrentInv) /\ DecodedInv

\* Whole bites
LEMMA Bites ==
  ASSUME NEW s \in {16, 32}, NEW b \in Nat
  PROVE  /\ s * b \in Nat /\ s * (b + 1) = s * b + s
         /\ \A c \in Nat : b < c => s * b + s <= s * c
         /\ \A p \in 0 .. s - 1 : (s * b + p) % s = p
<1>1. CASE s = 16
  <2>1. \A p \in 0 .. 15 : (16 * b + p) % 16 = p
    BY SMT
  <2> QED
    BY <1>1, <2>1, SMT
<1>2. CASE s = 32
  <2>1. \A p \in 0 .. 31 : (32 * b + p) % 32 = p
    BY SMT
  <2> QED
    BY <1>2, <2>1, SMT
<1> QED
  BY <1>1, <1>2

\* What the invariant gives of the key and of the sizes.
LEMMA RangesFacts ==
  ASSUME Ranges
  PROVE  /\ NotchedTurns(turns) /\ start \in Wheels /\ start.r \in Letter
         /\ size \in {16, 32} /\ (MaxOfBite = IF size = 32 THEN 5 ELSE 4)
         /\ bitesLimit \in Nat \ {0} /\ size * bitesLimit <= 256
         /\ len \in 3 .. 250 /\ At(0) = start
         /\ start = Walk(Offsets(key), turns, 1)
         /\ \A i \in Nat : At(i) \in Wheels
<1>1. key \in Keys /\ len \in 3 .. 250
  BY CallsFacts DEF Ranges
<1>2. NotchedTurns(turns) /\ Offsets(key) \in Wheels
  BY <1>1, KeyFacts DEF turns
<1>3. start = Walk(Offsets(key), turns, 1)
  <2>1. 0 \in Nat /\ 0 + 1 = 1
    OBVIOUS
  <2> QED
    BY <2>1, WalkStep DEF start
<1>4. start \in Wheels
  BY <1>2, <1>3, WalkType
<1>5. size \in {16, 32} /\ (MaxOfBite = IF size = 32 THEN 5 ELSE 4)
  BY DEF size, Bite, MaxOfBite
<1>6. bitesLimit \in Nat \ {0} /\ size * bitesLimit <= 256
  <2>1. \A n \in 3 .. 250 : (n + 16 - 1) \div 16 \in 1 .. 16 /\ (n + 32 - 1) \div 32 \in 1 .. 8
    BY SMT
  <2>2. bitesLimit = (len + size - 1) \div size
    BY DEF bitesLimit
  <2>3. CASE size = 16
    BY <1>1, <2>1, <2>2, <2>3
  <2>4. CASE size = 32
    BY <1>1, <2>1, <2>2, <2>4
  <2> QED
    BY <1>5, <2>3, <2>4
<1>7. At(0) = start /\ \A i \in Nat : At(i) \in Wheels
  BY <1>2, <1>4, WalkStep, WalkType DEF At
<1>8. start.r \in Letter
  BY <1>4 DEF Wheels
<1> QED
  BY <1>1, <1>2, <1>3, <1>4, <1>5, <1>6, <1>7, <1>8

\* Nothing the invariant reads of the key changes with a step.
LEMMA SameKey ==
  ASSUME key' = key, len' = len, cpu' = cpu
  PROVE  /\ simd' = simd /\ size' = size /\ turns' = turns /\ start' = start
         /\ bitesLimit' = bitesLimit /\ Vector' = Vector /\ MaxOfBite' = MaxOfBite
         /\ \A i : At(i)' = At(i)
<1>1. simd' = simd /\ turns' = turns
  BY DEF simd, turns
<1>2. size' = size /\ start' = start
  BY <1>1 DEF size, start
<1> QED
  BY <1>1, <1>2 DEF bitesLimit, Vector, MaxOfBite, At

\* The offsets of the right wheel in the lanes of the first bite
LEMMA FirstOffsets ==
  ASSUME size \in {16, 32}, NEW r \in Letter
  PROVE  CalculateRRingOffets(r) = [lane \in 0 .. size - 1 |-> (r + lane) % 26]
<1> DEFINE second == IF r + 16 >= 26 THEN r + 16 - 26 ELSE r + 16
           sum(k) == IF k < 16 THEN r + k ELSE second + k - 16
<1>1. ASSUME NEW k \in 0 .. size - 1
      PROVE  (IF sum(k) >= 26 THEN sum(k) - 26 ELSE sum(k)) = (r + k) % 26
  <2>1. k \in 0 .. 31 /\ r \in 0 .. 25
    BY DEF Letter
  <2>2. CASE k < 16
    <3>1. sum(k) = r + k /\ r + k \in 0 .. 40
      BY <2>1, <2>2
    <3> HIDE DEF sum
    <3> QED
      BY <3>1, SMT
  <2>3. CASE k >= 16
    <3>1. sum(k) = (IF r >= 10 THEN r + k - 26 ELSE r + k)
      BY <2>1, <2>3
    <3>2. r >= 10 => r + k - 26 \in 0 .. 30
      BY <2>1, <2>3
    <3>3. r < 10 => r + k \in 16 .. 40
      BY <2>1, <2>3
    <3> HIDE DEF sum
    <3> QED
      BY <2>1, <3>1, <3>2, <3>3, SMT
  <2> QED
    BY <2>1, <2>2, <2>3
<1>2. CalculateRRingOffets(r)
        = [k \in 0 .. size - 1 |-> IF sum(k) >= 26 THEN sum(k) - 26 ELSE sum(k)]
  BY DEF CalculateRRingOffets
<1> HIDE DEF sum
<1> QED
  BY <1>1, <1>2

LEMMA InitInv == Init => Inv
<1> SUFFICES ASSUME Init PROVE Inv
  OBVIOUS
<1>0. key \in Keys /\ size \in {16, 32} /\ len \in 3 .. 250
  <2>1. PICK call \in Calls : key = call.key /\ len = call.len
    BY DEF Init
  <2>2. key \in Keys /\ len \in Lengths
    BY <2>1 DEF Keys, Lengths
  <2>3. size \in {16, 32}
    BY DEF size, Bite
  <2> QED
    BY <2>2, <2>3, CallsFacts
<1>1. NotchedTurns(turns) /\ Offsets(key) \in Wheels
  BY <1>0, KeyFacts DEF turns
<1>2. start \in Wheels /\ start.r \in Letter
  <2>1. 0 \in Nat /\ 0 + 1 = 1 /\ 1 \in Nat
    OBVIOUS
  <2>2. start = Walk(Offsets(key), turns, 1)
    BY <2>1, WalkStep DEF start
  <2>3. start \in Wheels
    BY <1>1, <2>1, <2>2, WalkType
  <2> QED
    BY <2>3 DEF Wheels
<1>3. machine = start /\ rings = start /\ rAtFirstPos = start.r /\ messagePosition = 0
      /\ lookups = << >> /\ nextBite = << >> /\ running = TRUE /\ messageBite = 0
      /\ lookupNumber = 0 /\ plain = << >>
      /\ currentRRingOffset = CalculateRRingOffets(start.r)
  BY DEF Init
<1>4. currentRRingOffset = [lane \in 0 .. size - 1 |-> (start.r + size * messageBite + lane) % 26]
  <2>1. \A lane \in 0 .. size - 1 : start.r + size * messageBite + lane = start.r + lane
    <3>1. PICK r \in Int : r = start.r
      BY <1>2 DEF Letter
    <3>2. size * 0 = 0
      BY <1>0
    <3> QED
      BY <1>0, <1>3, <3>1, <3>2
  <2>2. currentRRingOffset = [lane \in 0 .. size - 1 |-> (start.r + lane) % 26]
    BY <1>0, <1>2, <1>3, FirstOffsets
  <2> QED
    BY <2>1, <2>2
<1>5. Ranges
  <2>1. key \in Keys /\ len \in Lengths /\ cpu \in Cpus
    BY DEF Init, Keys, Lengths, Cpus
  <2>2. nextBite \in Seq(Nat) /\ Len(nextBite) = 0
    BY <1>3
  <2>3. /\ messageBite \in 0 .. bitesLimit /\ messagePosition \in 0 .. 256
        /\ lookupNumber \in 0 .. MaxLookups
    <3>1. bitesLimit \in Nat
      BY <1>0 DEF bitesLimit
    <3> QED
      BY <1>3, <3>1 DEF MaxLookups
  <2>4. rings \in Wheels /\ machine \in Wheels /\ rAtFirstPos \in Letter /\ running \in BOOLEAN
    BY <1>2, <1>3
  <2> QED
    BY <1>4, <2>1, <2>2, <2>3, <2>4 DEF Ranges
<1>6. At(0) = start
  BY <1>5, RangesFacts
<1>7. ~ Vector => BasicInv
  BY <1>3 DEF BasicInv
<1>8. BitesInv /\ DecodedInv
  <2>1. bitesLimit \in Nat \ {0}
    BY <1>5, RangesFacts
  <2> QED
    BY <1>3, <2>1 DEF BitesInv, DecodedInv, MaxLookups
<1>9. CurrentInv
  <2>1. bitesLimit \in Nat \ {0} /\ size * 0 = 0
    BY <1>0, <1>5, RangesFacts
  <2>2. Len(nextBite) = 0 /\ Len(lookups) = 0 /\ FirstOf(0 + 1) = 1
    BY <1>3 DEF FirstOf
  <2>3. /\ Shares(lookups, start, turns, 0, 1, 0, 0)
        /\ EndBy(lookups, 1, 0, 0)
    BY DEF Shares, EndBy
  <2>4. Counted(rings, turns, 0, 0)
    <3>1. RightDist(rings, turns) \in Nat /\ Gap(turns.r2) * 0 = 0
      BY <1>1, <1>2, <1>3, DistType
    <3>2. 0 \in Nat /\ 0 = 0 + 0 /\ 0 <= 0 + RightDist(rings, turns) /\ 0 <= 1 /\ 0 # 1
      BY <3>1
    <3> QED
      BY <3>1, <3>2 DEF Counted
  <2>5. start.r = (start.r + 0) % 26
    BY <1>2, SMT DEF Letter
  <2> QED
    BY <1>0, <1>3, <1>6, <2>1, <2>2, <2>3, <2>4, <2>5 DEF CurrentInv, MaxLookups
<1> QED
  BY <1>5, <1>7, <1>8, <1>9 DEF Inv

\* The letter of the bite that comes next, and the letters before the bite
letterOfBite == messagePosition - size * Len(nextBite)
lettersBefore == size * Len(nextBite)

\* While lookups are made: the code's numbers, and the way ahead.
LEMMA Preparing ==
  ASSUME Inv, Vector, running
  PROVE  /\ letterOfBite \in 0 .. size - 1 /\ lettersBefore \in Nat
         /\ messagePosition = lettersBefore + letterOfBite
         /\ inBite = letterOfBite
         /\ charsToNextTurnover = ToTurnover(rings, turns)
         /\ charsToNextTurnover \in 1 .. 26
         /\ \A k \in Nat : /\ Pressed(k) = Walk(rings, turns, k)
                           /\ At(messagePosition + k) = Walk(rings, turns, k)
         /\ \A k \in 1 .. charsToNextTurnover :
              \A c \in letterOfBite .. letterOfBite + k - 1 :
                /\ rings.m = Walk(start, turns, lettersBefore + c).m
                /\ rings.l = Walk(start, turns, lettersBefore + c).l
<1>1. Ranges /\ CurrentInv
  BY DEF Inv
<1>2. NotchedTurns(turns) /\ start \in Wheels /\ size \in {16, 32}
  BY <1>1, RangesFacts
<1>3. Len(nextBite) \in Nat /\ rings \in Wheels /\ messagePosition \in Nat
  BY <1>1 DEF Ranges
<1>4. letterOfBite \in 0 .. size - 1 /\ rings = At(messagePosition) /\ machine = rings
  BY <1>1 DEF CurrentInv, letterOfBite
<1>5. lettersBefore \in Nat /\ \A p \in 0 .. size - 1 : (lettersBefore + p) % size = p
  BY <1>2, <1>3, Bites DEF lettersBefore
<1>6. letterOfBite = messagePosition - lettersBefore
  BY DEF letterOfBite, lettersBefore
<1>7. messagePosition = lettersBefore + letterOfBite
  BY <1>3, <1>5, <1>6
<1>8. inBite = letterOfBite
  BY <1>4, <1>5, <1>7 DEF inBite
<1>9. charsToNextTurnover = ToTurnover(rings, turns) /\ ToTurnover(rings, turns) \in 1 .. 26
  BY <1>2, <1>3, NextTurnover DEF charsToNextTurnover
<1>10. ASSUME NEW k \in Nat
       PROVE  /\ Pressed(k) = Walk(rings, turns, k)
              /\ At(messagePosition + k) = Walk(rings, turns, k)
  <2>1. Pressed(k) = Walk(machine, turns, k)
    BY PressedIsWalk
  <2>2. Walk(Walk(start, turns, messagePosition), turns, k)
          = Walk(start, turns, messagePosition + k)
    BY <1>3, WalkOn
  <2> QED
    BY <1>4, <2>1, <2>2 DEF At
<1>11. ASSUME NEW k \in 1 .. charsToNextTurnover,
              NEW c \in letterOfBite .. letterOfBite + k - 1
       PROVE  /\ rings.m = Walk(start, turns, lettersBefore + c).m
              /\ rings.l = Walk(start, turns, lettersBefore + c).l
  <2> DEFINE i == c - letterOfBite
  <2>1. i \in Nat /\ i < ToTurnover(rings, turns) /\ messagePosition + i = lettersBefore + c
    BY <1>4, <1>5, <1>7, <1>9, <1>11
  <2> HIDE DEF i
  <2>2. Walk(rings, turns, i) = [rings EXCEPT !.r = (rings.r + i) % 26]
    BY <1>2, <1>3, <2>1, RestsTillTurnover
  <2>3. Walk(rings, turns, i).m = rings.m /\ Walk(rings, turns, i).l = rings.l
    BY <1>3, <2>2 DEF Wheels
  <2>4. Walk(start, turns, lettersBefore + c) = Walk(rings, turns, i)
    BY <1>10, <2>1 DEF At
  <2> QED
    BY <2>3, <2>4
<1> QED
  BY <1>4, <1>5, <1>7, <1>8, <1>9, <1>10, <1>11

\* A turnover in the bite costs one lookup, and there are not many of them.
LEMMA CountTurnover ==
  ASSUME NEW t, NotchedTurns(t), NEW w \in Wheels, NEW s \in {16, 32},
         NEW n \in Nat, NEW p \in Nat, NEW k, k = ToTurnover(w, t),
         Counted(w, t, n, p), p + k < s
  PROVE  Counted(Walk(w, t, k), t, n + 1, p + k)
<1>2. k \in 1 .. 26 /\ Walk(w, t, k) \in Wheels
  <2>1. k \in 1 .. 26
    BY NextTurnover
  <2>2. k \in Nat
    BY <2>1
  <2> QED
    BY <2>1, <2>2, WalkType
<1> DEFINE d == RightDist(w, t)
           e == MiddleDist(w, t)
           d2 == RightDist(Walk(w, t, k), t)
           e2 == MiddleDist(Walk(w, t, k), t)
           g == Gap(t.r2)
<1>3. /\ g \in {13, 26} /\ d \in 0 .. g - 1 /\ d2 \in 0 .. g - 1
      /\ e \in 0 .. 25 /\ e2 \in 0 .. 25 /\ Gap(t.m2) \in {13, 26}
  BY <1>2, DistType
<1>4. /\ e = 0 => k = 1 /\ d2 >= d - 1 /\ e2 = Gap(t.m2) - 1
      /\ e # 0 => k = d + 1 /\ d2 = g - 1 /\ e2 = e - 1
  BY AtTurnover
<1>5. PICK right, middle \in Nat : /\ n = right + middle /\ g * right <= p + d
                                   /\ middle <= 1 /\ (middle = 1 => e + right >= 12)
  BY DEF Counted
<1> HIDE DEF d, e, d2, e2, g
<1>6. (g = 13 => 13 * right <= p + d) /\ (g = 26 => 26 * right <= p + d)
  BY <1>5
<1>7. CASE e = 0
  <2>1. middle = 0
    BY <1>3, <1>4, <1>5, <1>6, <1>7
  <2>2. g * right <= (p + k) + d2
    BY <1>2, <1>3, <1>4, <1>5, <1>7, <1>6
  <2>3. n + 1 = right + 1 /\ 1 <= 1 /\ e2 + right >= 12
    BY <1>3, <1>4, <1>5, <1>7, <2>1
  <2> QED
    BY <2>2, <2>3 DEF Counted, d2, e2, g
<1>8. CASE e # 0
  <2>1. g * (right + 1) <= (p + k) + d2
    BY <1>2, <1>3, <1>4, <1>6, <1>8
  <2>2. n + 1 = (right + 1) + middle /\ (middle = 1 => e2 + (right + 1) >= 12)
    BY <1>3, <1>4, <1>5, <1>8
  <2> QED
    BY <1>5, <2>1, <2>2 DEF Counted, d2, e2, g
<1> QED
  BY <1>7, <1>8

\* So that the decoder has cases for them, with the one to the end of the bite.
LEMMA CountBite ==
  ASSUME Ranges, NEW n \in Nat, NEW p \in 0 .. size - 1, Counted(rings, turns, n, p)
  PROVE  n + 1 \in 1 .. MaxOfBite
<1>1. NotchedTurns(turns) /\ rings \in Wheels /\ size \in {16, 32}
      /\ (MaxOfBite = IF size = 32 THEN 5 ELSE 4)
  BY RangesFacts DEF Ranges
<1> DEFINE d == RightDist(rings, turns)
           g == Gap(turns.r2)
<1>2. g \in {13, 26} /\ d \in 0 .. g - 1
  BY <1>1, DistType
<1>3. PICK right, middle \in Nat : n = right + middle /\ g * right <= p + d /\ middle <= 1
  BY DEF Counted
<1> HIDE DEF d, g
<1>4. (g = 13 => 13 * right <= p + d) /\ (g = 26 => 26 * right <= p + d)
  BY <1>3
<1>5. right <= IF size = 32 THEN 3 ELSE 2
  BY <1>1, <1>2, <1>4
<1> QED
  BY <1>1, <1>3, <1>5

\* The bites before stay prepared when a lookup is added.
LEMMA BitesKept ==
  ASSUME BitesInv, key' = key, len' = len, cpu' = cpu, NEW rec,
         lookups' = Append(lookups, rec),
         NEW b \in 1 .. Len(nextBite),
         nextBite'[b] = nextBite[b], b > 1 => nextBite'[b - 1] = nextBite[b - 1]
  PROVE  /\ FirstOf(b)' \in Nat \ {0} /\ nextBite'[b] \in 1 .. Len(lookups')
         /\ nextBite'[b] - FirstOf(b)' + 1 \in 1 .. MaxOfBite'
         /\ Shares(lookups', start', turns', size' * (b - 1), FirstOf(b)', nextBite'[b], size')
<1>1. /\ FirstOf(b) \in Nat \ {0} /\ nextBite[b] \in 1 .. Len(lookups)
      /\ nextBite[b] - FirstOf(b) + 1 \in 1 .. MaxOfBite
      /\ Shares(lookups, start, turns, size * (b - 1), FirstOf(b), nextBite[b], size)
      /\ lookups \in Seq(LookupRecord)
  BY DEF BitesInv
<1>2. size' = size /\ turns' = turns /\ start' = start /\ MaxOfBite' = MaxOfBite
  BY SameKey
<1>3. FirstOf(b)' = FirstOf(b)
  BY DEF FirstOf
<1>4. nextBite[b] \in Nat /\ nextBite[b] <= Len(lookups)
  BY <1>1
<1>5. Shares(lookups', start, turns, size * (b - 1), FirstOf(b), nextBite[b], size)
  BY <1>1, <1>4, SharesKept
<1>6. Len(lookups') = Len(lookups) + 1
  BY <1>1
<1>7. nextBite[b] \in 1 .. Len(lookups')
  BY <1>1, <1>6
<1> QED
  BY <1>1, <1>2, <1>3, <1>5, <1>7

\* The right wheel makes one step with each letter.
LEMMA RightOffset ==
  ASSUME NEW t, NotchedTurns(t), NEW w \in Wheels, NEW n \in Nat
  PROVE  Walk(w, t, n).r = (w.r + n) % 26
<1> DEFINE S == {k \in Nat : Walk(w, t, k).r = (w.r + k) % 26}
<1>0. PICK r \in 0 .. 25 : r = w.r
  BY DEF Wheels, Letter
<1>1. 0 \in S
  <2>1. (r + 0) % 26 = r
    BY SMT
  <2> QED
    BY <1>0, <2>1, WalkStep
<1>2. ASSUME NEW k \in Nat, k \in S PROVE k + 1 \in S
  <2>1. Walk(w, t, k + 1).r = (Walk(w, t, k).r + 1) % 26
    BY WalkStep, WalkType, StepMoves
  <2>2. Walk(w, t, k).r = (r + k) % 26
    BY <1>0, <1>2
  <2>3. (((r + k) % 26) + 1) % 26 = (r + (k + 1)) % 26
    BY SMT
  <2> QED
    BY <1>0, <2>1, <2>2, <2>3
<1> HIDE DEF S
<1>3. n \in S
  BY <1>1, <1>2, InductionOnNat
<1> QED
  BY <1>3 DEF S

LEMMA TurnoverKeepsInv == Inv /\ TurnoverInBite => Inv'
<1> SUFFICES ASSUME Inv, TurnoverInBite PROVE Inv'
  OBVIOUS
<1> DEFINE k == charsToNextTurnover
           p == letterOfBite
           rec == [m |-> rings.m, l |-> rings.l, begin |-> inBite,
                   end |-> (messagePosition + charsToNextTurnover) % size]
           first == FirstOf(Len(nextBite) + 1)
           n == Len(lookups) - first + 1
<1>1. Vector /\ running /\ Ranges /\ BitesInv /\ CurrentInv /\ DecodedInv
  BY DEF Inv, TurnoverInBite, Vector, Lookup
<1>2. /\ key' = key /\ len' = len /\ cpu' = cpu /\ rAtFirstPos' = rAtFirstPos
      /\ nextBite' = nextBite /\ messageBite' = messageBite /\ plain' = plain
      /\ currentRRingOffset' = currentRRingOffset /\ lookupNumber' = lookupNumber
      /\ inBite + k < size /\ lookups' = Append(lookups, rec)
      /\ messagePosition' = messagePosition + k
      /\ rings' = StepAllRings([rings EXCEPT !.r = GetNextTurnover(rings, turns)], turns)
      /\ running' = (Len(lookups') < MaxLookups)
      /\ machine' = Pressed(k)
  BY DEF TurnoverInBite, Lookup, decoded
<1>3. /\ simd' = simd /\ size' = size /\ turns' = turns /\ start' = start
      /\ bitesLimit' = bitesLimit /\ Vector' = Vector /\ MaxOfBite' = MaxOfBite
      /\ \A i : At(i)' = At(i)
  BY <1>2, SameKey
<1>4. /\ p \in 0 .. size - 1 /\ lettersBefore \in Nat
      /\ messagePosition = lettersBefore + p /\ inBite = p
      /\ k = ToTurnover(rings, turns) /\ k \in 1 .. 26
      /\ Pressed(k) = Walk(rings, turns, k) /\ At(messagePosition + k) = Walk(rings, turns, k)
      /\ \A c \in p .. p + k - 1 : /\ rings.m = Walk(start, turns, lettersBefore + c).m
                                   /\ rings.l = Walk(start, turns, lettersBefore + c).l
  <2>1. charsToNextTurnover \in Nat /\ charsToNextTurnover \in 1 .. charsToNextTurnover
    BY <1>1, Preparing
  <2> QED
    BY <1>1, <2>1, Preparing
<1>5. /\ NotchedTurns(turns) /\ start \in Wheels /\ size \in {16, 32}
      /\ bitesLimit \in Nat \ {0} /\ size * bitesLimit <= 256
      /\ \A i \in Nat : At(i) \in Wheels
  BY <1>1, RangesFacts
<1>6. rings \in Wheels /\ Len(nextBite) \in Nat /\ lookups \in Seq(LookupRecord)
      /\ Len(lookups) \in Nat
  BY <1>1 DEF Ranges, BitesInv
<1> HIDE DEF p, k, rec
<1>7. rings' = Walk(rings, turns, k) /\ machine' = rings'
  <2>1. GetNextTurnover(rings, turns) = (rings.r + k - 1) % 26
    BY <1>4, <1>5, <1>6, NextTurnover
  <2>2. k \in Nat \ {0} /\ k <= ToTurnover(rings, turns)
    BY <1>4
  <2>3. StepAllRings([rings EXCEPT !.r = (rings.r + k - 1) % 26], turns) = Walk(rings, turns, k)
    BY <1>5, <1>6, <2>2, JumpIsWalk
  <2> QED
    BY <1>2, <1>4, <2>1, <2>3
<1>8. /\ p + k \in 0 .. size - 1 /\ messagePosition' = lettersBefore + (p + k)
      /\ messagePosition' \in Nat
  <2>1. inBite + k < size /\ messagePosition' = messagePosition + k
    BY <1>2
  <2>2. /\ p \in 0 .. size - 1 /\ lettersBefore \in Nat /\ k \in 1 .. 26
        /\ messagePosition = lettersBefore + p /\ inBite = p
    BY <1>4
  <2> QED
    BY <1>5, <2>1, <2>2
<1>9. (messagePosition + k) % size = p + k
  <2>1. (lettersBefore + (p + k)) % size = p + k
    BY <1>5, <1>6, <1>8, Bites DEF lettersBefore
  <2> QED
    BY <1>2, <1>8, <2>1
<1>10. rec \in LookupRecord /\ rec.begin = p /\ rec.end = p + k
       /\ rec.m = rings.m /\ rec.l = rings.l
  <2>1. rec = [m |-> rings.m, l |-> rings.l, begin |-> p, end |-> p + k]
    BY <1>4, <1>9 DEF rec, k
  <2>2. p \in Nat /\ p + k \in Nat
    BY <1>4, <1>8
  <2>3. rings.m \in Letter /\ rings.l \in Letter
    BY <1>6 DEF Wheels
  <2> QED
    BY <2>1, <2>2, <2>3 DEF LookupRecord
<1>11. lookups' \in Seq(LookupRecord) /\ Len(lookups') = Len(lookups) + 1
  BY <1>2, <1>6, <1>10
<1>12. messagePosition' \in 0 .. 256
  <2>1. Len(nextBite) < bitesLimit
    BY <1>1 DEF CurrentInv
  <2>2. lettersBefore + size <= size * bitesLimit
    BY <1>5, <1>6, <2>1, Bites DEF lettersBefore
  <2>3. PICK z \in Int : z = size * bitesLimit
    BY <1>5
  <2>4. lettersBefore \in Nat /\ p + k \in 0 .. size - 1
        /\ messagePosition' = lettersBefore + (p + k)
    BY <1>4, <1>8
  <2>5. z <= 256 /\ lettersBefore + size <= z
    BY <1>5, <2>2, <2>3
  <2>6. PICK before \in Nat : before = lettersBefore
    BY <2>4
  <2>7. PICK place \in Nat : place = p + k /\ place <= size - 1 /\ size \in Nat
    BY <1>5, <2>4
  <2>8. before + place \in 0 .. 256
    <3>1. PICK letters \in Nat : letters = size /\ place <= letters - 1
      BY <2>7
    <3>2. before + letters <= z
      BY <2>5, <2>6, <3>1
    <3>3. before + place \in Nat /\ before + place <= 256
      BY <2>3, <2>5, <3>1, <3>2
    <3> QED
      BY <3>3
  <2> QED
    BY <2>4, <2>6, <2>7, <2>8
<1>13. Ranges'
  <2>1. rings' \in Wheels /\ machine' \in Wheels
    <3>1. k \in Nat
      BY <1>4
    <3> QED
      BY <1>5, <1>6, <1>7, <3>1, WalkType
  <2>2. running' \in BOOLEAN
    BY <1>2
  <2>3. /\ key \in Keys /\ len \in Lengths /\ cpu \in Cpus /\ rAtFirstPos \in Letter
        /\ nextBite \in Seq(Nat)
        /\ messageBite \in 0 .. bitesLimit /\ lookupNumber \in 0 .. MaxLookups
        /\ currentRRingOffset = [lane \in 0 .. size - 1 |->
                             (start.r + size * messageBite + lane) % 26]
    BY <1>1 DEF Ranges
  <2> QED
    BY <1>2, <1>3, <1>12, <2>1, <2>2, <2>3 DEF Ranges
<1>14. first \in 1 .. Len(lookups) + 1 /\ n \in Nat /\ Counted(rings, turns, n, p)
       /\ Shares(lookups, start, turns, lettersBefore, first, Len(lookups), p)
       /\ EndBy(lookups, first, Len(lookups), p)
       /\ rAtFirstPos = (start.r + size * Len(nextBite)) % 26
       /\ Len(nextBite) < bitesLimit /\ messageBite = 0 /\ Len(lookups) < MaxLookups
  <2>1. first \in 1 .. Len(lookups) + 1
    BY <1>1 DEF CurrentInv
  <2>2. n \in Nat
    BY <1>6, <2>1
  <2> QED
    BY <1>1, <2>1, <2>2 DEF CurrentInv, p, letterOfBite, lettersBefore
<1>15. first' = first
  BY <1>2 DEF FirstOf
<1> HIDE DEF first
<1>16. /\ Shares(lookups', start, turns, lettersBefore, first, Len(lookups'), p + k)
       /\ EndBy(lookups', first, Len(lookups'), p + k)
  <2>1. p \in Nat /\ p + k \in Nat /\ p < p + k
    BY <1>4, <1>8
  <2> DEFINE q == p + k
  <2>2. \A c \in p .. q - 1 : /\ rec.m = Walk(start, turns, lettersBefore + c).m
                             /\ rec.l = Walk(start, turns, lettersBefore + c).l
    BY <1>4, <1>10
  <2>3. q \in Nat /\ p < q /\ rec.end = q /\ rec.begin = p /\ rec \in LookupRecord
    BY <1>10, <2>1
  <2> HIDE DEF q
  <2>4. /\ Shares(Append(lookups, rec), start, turns, lettersBefore, first, Len(lookups) + 1, q)
        /\ EndBy(Append(lookups, rec), first, Len(lookups) + 1, q)
    BY <1>4, <1>6, <1>14, <2>1, <2>2, <2>3, SharesMore
  <2> QED
    BY <1>2, <1>11, <2>4 DEF q
<1>18. Counted(rings', turns, n + 1, p + k)
  <2>1. p \in Nat /\ p + k < size
    BY <1>4, <1>5, <1>8, <1>2
  <2> HIDE DEF n
  <2>2. Counted(Walk(rings, turns, k), turns, n + 1, p + k)
    BY <1>4, <1>5, <1>6, <1>14, <2>1, CountTurnover
  <2> QED
    BY <1>7, <2>2
<1>19. running' => CurrentInv'
  <2>1. messagePosition' - lettersBefore = p + k
    BY <1>4, <1>8
  <2>2. first \in 1 .. Len(lookups') + 1
    BY <1>6, <1>11, <1>14
  <2>3. rings' = At(messagePosition') /\ messageBite' = 0
    BY <1>2, <1>4, <1>7, <1>14
  <2>4. Len(lookups') - first + 1 = n + 1
    BY <1>6, <1>11, <1>14 DEF n
  <2>5. running' => Len(lookups') < MaxLookups
    BY <1>2
  <2>6. rAtFirstPos' = (start.r + size * Len(nextBite)) % 26 /\ Len(nextBite) < bitesLimit
    BY <1>2, <1>14
  <2> HIDE DEF n
  <2>7. Counted(rings', turns, Len(lookups') - first + 1, p + k)
    BY <1>18, <2>4
  <2>8. lettersBefore = size * Len(nextBite)
    BY DEF lettersBefore
  <2>9. /\ size' = size /\ turns' = turns /\ start' = start /\ bitesLimit' = bitesLimit
        /\ nextBite' = nextBite /\ At(messagePosition)' = At(messagePosition')
    BY <1>2, <1>3 DEF At
  <2>10. messagePosition' - lettersBefore \in 0 .. size - 1
    BY <1>8, <2>1
  <2> HIDE DEF k, p
  <2> QED
    BY <1>7, <1>15, <1>16, <2>1, <2>2, <2>3, <2>5, <2>6, <2>7, <2>8, <2>9, <2>10
    DEF CurrentInv, first
<1>20. BitesInv'
  <2>1. Len(nextBite) <= Len(lookups') /\ Len(lookups') <= MaxLookups /\ Len(nextBite) <= bitesLimit
    BY <1>1, <1>5, <1>6, <1>11, <1>14 DEF BitesInv, MaxLookups
  <2>2. ASSUME NEW b \in 1 .. Len(nextBite)
        PROVE  /\ FirstOf(b)' \in Nat \ {0} /\ nextBite'[b] \in 1 .. Len(lookups')
               /\ nextBite'[b] - FirstOf(b)' + 1 \in 1 .. MaxOfBite'
               /\ Shares(lookups', start', turns', size' * (b - 1), FirstOf(b)', nextBite'[b], size')
    BY <1>1, <1>2, BitesKept
  <2> QED
    BY <1>2, <1>3, <1>11, <2>1, <2>2 DEF BitesInv
<1>21. DecodedInv'
  <2>1. plain = << >> /\ lookupNumber = 0
    BY <1>1, <1>14 DEF DecodedInv
  <2> QED
    BY <1>2, <1>14, <2>1 DEF DecodedInv
<1> QED
  BY <1>1, <1>3, <1>13, <1>19, <1>20, <1>21 DEF Inv

\* To the end of a bite the right wheel alone moves, and from there the code
\* takes the machine's step.
LEMMA EndOfBiteWalks ==
  ASSUME Inv, EndOfBite
  PROVE  /\ rings' = Walk(rings, turns, size - letterOfBite) /\ machine' = rings'
         /\ rAtFirstPos' = (start.r + size * (Len(nextBite) + 1)) % 26
<1> DEFINE p == letterOfBite
           k == size - p
           bites == Len(nextBite)
<1>1. Vector /\ running /\ Ranges /\ BitesInv /\ CurrentInv
  BY DEF Inv, EndOfBite, Vector, Lookup
<1>2. /\ inBite + charsToNextTurnover >= size
      /\ messagePosition' = messagePosition + size - inBite
      /\ rAtFirstPos' = (rAtFirstPos + size) % 26
      /\ rings' = StepAllRings([rings EXCEPT !.r = (rAtFirstPos + size - 1) % 26], turns)
      /\ machine' = Pressed(size - inBite)
  BY DEF EndOfBite
<1>4. /\ NotchedTurns(turns) /\ start \in Wheels /\ size \in {16, 32} /\ start.r \in Letter
      /\ bitesLimit \in Nat \ {0} /\ size * bitesLimit <= 256
  BY <1>1, RangesFacts
<1>5. /\ p \in 0 .. size - 1 /\ lettersBefore \in Nat
      /\ messagePosition = lettersBefore + p /\ inBite = p
      /\ charsToNextTurnover = ToTurnover(rings, turns) /\ charsToNextTurnover \in 1 .. 26
  BY <1>1, Preparing
<1>6. k \in 1 .. charsToNextTurnover /\ k \in Nat /\ p + k = size
  <2>1. inBite + charsToNextTurnover >= size
    BY <1>2
  <2>2. p \in 0 .. size - 1 /\ inBite = p /\ charsToNextTurnover \in 1 .. 26
    BY <1>5
  <2> HIDE DEF p
  <2> QED
    BY <1>4, <2>1, <2>2
<1>7. Pressed(k) = Walk(rings, turns, k)
  BY <1>1, <1>6, Preparing
<1>8. rings \in Wheels /\ bites \in Nat /\ machine = rings /\ rings = At(messagePosition)
  BY <1>1 DEF Ranges, CurrentInv
<1>9. rAtFirstPos = (start.r + size * bites) % 26 /\ bites < bitesLimit
  BY <1>1 DEF CurrentInv
<1>10. lettersBefore = size * bites /\ size * (bites + 1) = lettersBefore + size
  BY <1>4, <1>8, Bites DEF lettersBefore
<1> HIDE DEF p, k
<1>11. messagePosition' = messagePosition + k /\ messagePosition' = lettersBefore + size
       /\ size - inBite = k
  <2>1. messagePosition' = messagePosition + size - inBite /\ inBite = p
    BY <1>2, <1>5
  <2>2. /\ p \in 0 .. size - 1 /\ lettersBefore \in Nat /\ messagePosition = lettersBefore + p
    BY <1>5
  <2> QED
    BY <1>4, <1>6, <2>1, <2>2 DEF k
<1>12. (rAtFirstPos + size - 1) % 26 = (rings.r + k - 1) % 26
       /\ rAtFirstPos' = (start.r + size * (bites + 1)) % 26
  <2>1. PICK a \in Nat : a = start.r + lettersBefore
    BY <1>4, <1>5 DEF Letter
  <2>2. PICK b \in 0 .. 31 : b = p
    BY <1>4, <1>5
  <2>3. rAtFirstPos = a % 26
    BY <1>9, <1>10, <2>1
  <2>4. rings.r = (a + b) % 26
    <3>1. rings.r = (start.r + messagePosition) % 26
      <4>1. messagePosition \in Nat
        BY <1>5, <2>2
      <4> QED
        BY <1>4, <1>8, <4>1, RightOffset DEF At
    <3>2. start.r + messagePosition = a + b
      <4>1. start.r \in Nat
        BY <1>4 DEF Letter
      <4> QED
        BY <1>5, <2>1, <2>2, <4>1
    <3> QED
      BY <3>1, <3>2
  <2>5. ((a % 26) + size - 1) % 26 = (((a + b) % 26) + (size - b) - 1) % 26
    <3>1. ((a % 26) + 16 - 1) % 26 = (((a + b) % 26) + (16 - b) - 1) % 26
      BY SMT
    <3>2. ((a % 26) + 32 - 1) % 26 = (((a + b) % 26) + (32 - b) - 1) % 26
      BY SMT
    <3> QED
      BY <1>4, <3>1, <3>2
  <2>6. ((a % 26) + size) % 26 = (a + size) % 26
    BY <1>4, SMT
  <2>7. k = size - b
    BY <2>2 DEF k
  <2>8. start.r + size * (bites + 1) = a + size
    <3>1. start.r \in Nat
      BY <1>4 DEF Letter
    <3> QED
      BY <1>4, <1>5, <1>10, <2>1, <3>1
  <2> QED
    BY <1>2, <2>3, <2>4, <2>5, <2>6, <2>7, <2>8
<1>13. rings' = Walk(rings, turns, k) /\ machine' = rings'
  <2>1. k \in Nat \ {0} /\ k <= ToTurnover(rings, turns)
    BY <1>5, <1>6
  <2>2. StepAllRings([rings EXCEPT !.r = (rings.r + k - 1) % 26], turns) = Walk(rings, turns, k)
    BY <1>4, <1>8, <2>1, JumpIsWalk
  <2> QED
    BY <1>2, <1>7, <1>11, <1>12, <2>2
<1> QED
  BY <1>12, <1>13 DEF p, k

LEMMA EndOfBiteKeepsInv == Inv /\ EndOfBite => Inv'
<1> SUFFICES ASSUME Inv, EndOfBite PROVE Inv'
  OBVIOUS
<1> DEFINE p == letterOfBite
           k == size - p
           rec == [m |-> rings.m, l |-> rings.l, begin |-> inBite, end |-> size]
           bites == Len(nextBite)
           first == FirstOf(bites + 1)
           n == Len(lookups) - first + 1
<1>1. Vector /\ running /\ Ranges /\ BitesInv /\ CurrentInv /\ DecodedInv
  BY DEF Inv, EndOfBite, Vector, Lookup
<1>2. /\ key' = key /\ len' = len /\ cpu' = cpu
      /\ messageBite' = messageBite /\ plain' = plain /\ lookupNumber' = lookupNumber
      /\ currentRRingOffset' = currentRRingOffset
      /\ inBite + charsToNextTurnover >= size /\ lookups' = Append(lookups, rec)
      /\ messagePosition' = messagePosition + size - inBite
      /\ rAtFirstPos' = (rAtFirstPos + size) % 26
      /\ rings' = StepAllRings([rings EXCEPT !.r = (rAtFirstPos + size - 1) % 26], turns)
      /\ nextBite' = Append(nextBite, Len(lookups'))
      /\ running' = (Len(nextBite') < bitesLimit /\ Len(lookups') < MaxLookups)
      /\ machine' = Pressed(size - inBite)
  BY DEF EndOfBite, Lookup, decoded
<1>3. /\ simd' = simd /\ size' = size /\ turns' = turns /\ start' = start
      /\ bitesLimit' = bitesLimit /\ Vector' = Vector /\ MaxOfBite' = MaxOfBite
      /\ \A i : At(i)' = At(i)
  BY <1>2, SameKey
<1>4. /\ NotchedTurns(turns) /\ start \in Wheels /\ size \in {16, 32} /\ start.r \in Letter
      /\ bitesLimit \in Nat \ {0} /\ size * bitesLimit <= 256
      /\ \A i \in Nat : At(i) \in Wheels
  BY <1>1, RangesFacts
<1>5. /\ p \in 0 .. size - 1 /\ lettersBefore \in Nat
      /\ messagePosition = lettersBefore + p /\ inBite = p
      /\ charsToNextTurnover = ToTurnover(rings, turns) /\ charsToNextTurnover \in 1 .. 26
  BY <1>1, Preparing
<1>6. k \in 1 .. charsToNextTurnover /\ k \in Nat /\ p + k = size
  <2>1. inBite + charsToNextTurnover >= size
    BY <1>2
  <2>2. p \in 0 .. size - 1 /\ inBite = p /\ charsToNextTurnover \in 1 .. 26
    BY <1>5
  <2> HIDE DEF p
  <2> QED
    BY <1>4, <2>1, <2>2
<1>7. /\ Pressed(k) = Walk(rings, turns, k) /\ At(messagePosition + k) = Walk(rings, turns, k)
      /\ \A c \in p .. p + k - 1 : /\ rings.m = Walk(start, turns, lettersBefore + c).m
                                   /\ rings.l = Walk(start, turns, lettersBefore + c).l
  BY <1>1, <1>6, Preparing
<1>8. rings \in Wheels /\ bites \in Nat /\ lookups \in Seq(LookupRecord)
      /\ Len(lookups) \in Nat /\ nextBite \in Seq(Nat) /\ machine = rings
      /\ rings = At(messagePosition)
  BY <1>1 DEF Ranges, BitesInv, CurrentInv
<1>9. first \in 1 .. Len(lookups) + 1 /\ n \in Nat /\ Counted(rings, turns, n, p)
       /\ Shares(lookups, start, turns, lettersBefore, first, Len(lookups), p)
       /\ EndBy(lookups, first, Len(lookups), p)
       /\ rAtFirstPos = (start.r + size * bites) % 26
       /\ bites < bitesLimit /\ messageBite = 0 /\ Len(lookups) < MaxLookups
  <2>1. first \in 1 .. Len(lookups) + 1
    BY <1>1 DEF CurrentInv
  <2>2. n \in Nat
    BY <1>8, <2>1
  <2> QED
    BY <1>1, <2>1, <2>2 DEF CurrentInv, p, letterOfBite, lettersBefore
<1>10. lettersBefore = size * bites /\ size * (bites + 1) = lettersBefore + size
       /\ lettersBefore + size <= size * bitesLimit
  BY <1>4, <1>8, <1>9, Bites DEF lettersBefore
<1> HIDE DEF p, k, rec
<1>11. messagePosition' = messagePosition + k /\ messagePosition' = lettersBefore + size
       /\ size - inBite = k
  <2>1. messagePosition' = messagePosition + size - inBite /\ inBite = p
    BY <1>2, <1>5
  <2>2. /\ p \in 0 .. size - 1 /\ lettersBefore \in Nat /\ messagePosition = lettersBefore + p
    BY <1>5
  <2> QED
    BY <1>4, <1>6, <2>1, <2>2 DEF k
<1>12. rAtFirstPos' = (start.r + size * (bites + 1)) % 26
  BY EndOfBiteWalks
<1>13. rings' = Walk(rings, turns, k) /\ machine' = rings'
  BY EndOfBiteWalks DEF p, k
<1>14. rec \in LookupRecord /\ rec.begin = p /\ rec.end = size
       /\ rec.m = rings.m /\ rec.l = rings.l
  <2>1. rec = [m |-> rings.m, l |-> rings.l, begin |-> p, end |-> size]
    BY <1>5 DEF rec
  <2>2. p \in Nat /\ size \in Nat
    BY <1>4, <1>5
  <2>3. rings.m \in Letter /\ rings.l \in Letter
    BY <1>8 DEF Wheels
  <2> QED
    BY <2>1, <2>2, <2>3 DEF LookupRecord
<1>15. lookups' \in Seq(LookupRecord) /\ Len(lookups') = Len(lookups) + 1
  BY <1>2, <1>8, <1>14
<1>16. /\ nextBite' \in Seq(Nat) /\ Len(nextBite') = bites + 1
       /\ nextBite'[bites + 1] = Len(lookups) + 1
       /\ \A b \in 1 .. bites : nextBite'[b] = nextBite[b]
  <2>1. Len(lookups') \in Nat
    BY <1>8, <1>15
  <2> QED
    BY <1>2, <1>8, <1>15, <2>1
<1>17. messagePosition' \in 0 .. 256
  <2>1. PICK z \in Int : z = size * bitesLimit
    BY <1>4
  <2>2. z <= 256 /\ lettersBefore + size <= z
    BY <1>4, <1>10, <2>1
  <2> HIDE DEF bitesLimit
  <2>3. messagePosition' = lettersBefore + size /\ lettersBefore \in Nat /\ size \in Nat
    BY <1>4, <1>5, <1>11
  <2> QED
    BY <2>1, <2>2, <2>3
<1>18. Ranges'
  <2>1. rings' \in Wheels /\ machine' \in Wheels
    BY <1>4, <1>6, <1>8, <1>13, WalkType
  <2>2. running' \in BOOLEAN
    BY <1>2
  <2>3. rAtFirstPos' \in Letter
    <3>1. PICK a \in Nat : a = start.r + size * (bites + 1)
      <4>1. start.r \in Nat /\ lettersBefore + size \in Nat
        BY <1>4, <1>5 DEF Letter
      <4>2. start.r + (lettersBefore + size) \in Nat
        BY <4>1
      <4> QED
        BY <1>10, <4>2
    <3>2. a % 26 \in 0 .. 25
      BY SMT
    <3> QED
      BY <1>12, <3>1, <3>2 DEF Letter
  <2>4. /\ key \in Keys /\ len \in Lengths /\ cpu \in Cpus
        /\ messageBite \in 0 .. bitesLimit /\ lookupNumber \in 0 .. MaxLookups
        /\ currentRRingOffset = [lane \in 0 .. size - 1 |->
                             (start.r + size * messageBite + lane) % 26]
    BY <1>1 DEF Ranges
  <2> QED
    BY <1>2, <1>3, <1>16, <1>17, <2>1, <2>2, <2>3, <2>4 DEF Ranges
<1>19. BitesInv'
  <2>1. /\ Len(nextBite') <= Len(lookups') /\ Len(lookups') <= MaxLookups
        /\ Len(nextBite') <= bitesLimit
    <3>1. bites <= Len(lookups)
      BY <1>1 DEF BitesInv
    <3> QED
      BY <1>4, <1>8, <1>9, <1>15, <1>16, <3>1, SMTT(30) DEF MaxLookups
  <2>2. ASSUME NEW b \in 1 .. Len(nextBite')
        PROVE  /\ FirstOf(b)' \in Nat \ {0} /\ nextBite'[b] \in 1 .. Len(lookups')
               /\ nextBite'[b] - FirstOf(b)' + 1 \in 1 .. MaxOfBite'
               /\ Shares(lookups', start', turns', size' * (b - 1), FirstOf(b)', nextBite'[b], size')
    <3>0. /\ b \in 1 .. bites + 1 /\ bites \in Nat
          /\ \A i \in 1 .. bites : nextBite'[i] = nextBite[i]
      BY <1>8, <1>16
    <3>1. CASE b # bites + 1
      <4>1. b \in 1 .. Len(nextBite) /\ nextBite'[b] = nextBite[b]
            /\ (b > 1 => nextBite'[b - 1] = nextBite[b - 1])
        <5>1. b \in 1 .. bites /\ (b > 1 => b - 1 \in 1 .. bites)
          BY <3>0, <3>1
        <5> QED
          BY <3>0, <5>1
      <4> QED
        BY <1>1, <1>2, <4>1, BitesKept
    <3>2. CASE b = bites + 1
      <4>1. FirstOf(b)' = first
        <5>1. b # 1 => nextBite'[b - 1] = nextBite[b - 1]
          <6>1. b # 1 => b - 1 \in 1 .. bites
            BY <3>0, <3>2
          <6> QED
            BY <3>0, <6>1
        <5> QED
          BY <3>2, <5>1 DEF FirstOf
      <4>2. nextBite'[b] = Len(lookups) + 1
        BY <1>16, <3>2
      <4> HIDE DEF first
      <4>3. n + 1 \in 1 .. MaxOfBite
        BY <1>1, <1>5, <1>9, CountBite
      <4>4. (Len(lookups) + 1) - first + 1 = n + 1
        BY <1>8, <1>9
      <4>5. Shares(Append(lookups, rec), start, turns, lettersBefore, first, Len(lookups) + 1, size)
        <5>1. p \in Nat /\ p < size /\ size \in Nat
          BY <1>4, <1>5
        <5>2. \A c \in p .. size - 1 : /\ rec.m = Walk(start, turns, lettersBefore + c).m
                                      /\ rec.l = Walk(start, turns, lettersBefore + c).l
          <6>1. p + k - 1 = size - 1
            <7>1. p \in Int /\ k \in Int /\ p + k = size
              BY <1>5, <1>6
            <7> QED
              BY <7>1
          <6> QED
            BY <1>7, <1>14, <6>1
        <5> QED
          BY <1>5, <1>8, <1>9, <1>14, <5>1, <5>2, SharesMore
      <4>6. size * (b - 1) = lettersBefore
        <5>1. b - 1 = bites
          BY <1>8, <3>2
        <5> QED
          BY <1>10, <5>1
      <4>7. first \in Nat \ {0} /\ Len(lookups) + 1 \in 1 .. Len(lookups')
        BY <1>8, <1>9, <1>15
      <4> QED
        BY <1>2, <1>3, <4>1, <4>2, <4>3, <4>4, <4>5, <4>6, <4>7
    <3> QED
      BY <3>1, <3>2
  <2> QED
    BY <1>3, <1>15, <2>1, <2>2 DEF BitesInv
<1>20. running' => CurrentInv'
  <2> DEFINE next == Len(lookups) + 2
  <2>1. /\ next \in 1 .. Len(lookups') + 1 /\ Len(lookups') - next + 1 = 0
        /\ next = Len(lookups') + 1
    BY <1>8, <1>15
  <2>2. FirstOf(Len(nextBite) + 1)' = next
    <3>1. Len(nextBite') + 1 # 1 /\ (Len(nextBite') + 1) - 1 = bites + 1
      BY <1>8, <1>16
    <3>2. (Len(lookups) + 1) + 1 = next
      BY <1>8
    <3> QED
      BY <1>16, <3>1, <3>2 DEF FirstOf
  <2>3. messagePosition' - size * (bites + 1) = 0 /\ 0 \in 0 .. size - 1
    BY <1>4, <1>5, <1>10, <1>11
  <2>4. /\ Shares(lookups', start, turns, size * (bites + 1), next, Len(lookups'), 0)
        /\ EndBy(lookups', next, Len(lookups'), 0)
    BY <1>8, <1>15, <2>1 DEF Shares, EndBy
  <2>5. Counted(rings', turns, 0, 0)
    <3>1. rings' \in Wheels
      BY <1>18 DEF Ranges
    <3>2. RightDist(rings', turns) \in Nat /\ Gap(turns.r2) * 0 = 0
      BY <1>4, <3>1, DistType
    <3>3. 0 \in Nat /\ 0 = 0 + 0 /\ 0 <= 0 + RightDist(rings', turns) /\ 0 <= 1 /\ 0 # 1
      BY <3>2
    <3> QED
      BY <3>2, <3>3 DEF Counted
  <2>6. running' => bites + 1 < bitesLimit /\ Len(lookups') < MaxLookups
    BY <1>2, <1>16
  <2>7. rings' = At(messagePosition') /\ messageBite' = 0
    BY <1>2, <1>7, <1>9, <1>11, <1>13
  <2>8. At(messagePosition)' = At(messagePosition')
    BY <1>3 DEF At
  <2> HIDE DEF next
  <2> QED
    BY <1>3, <1>12, <1>13, <1>16, <2>1, <2>2, <2>3, <2>4, <2>5, <2>6, <2>7, <2>8 DEF CurrentInv
<1>21. DecodedInv'
  <2>1. plain = << >> /\ lookupNumber = 0
    BY <1>1, <1>9 DEF DecodedInv
  <2> QED
    BY <1>2, <1>9, <2>1 DEF DecodedInv
<1> QED
  BY <1>1, <1>3, <1>18, <1>19, <1>20, <1>21 DEF Inv

\* Without vectors, one step of the code looks up the wheels of every letter.
LEMMA PathLookupKeepsInv == Inv /\ init_path_lookup => Inv'
<1> SUFFICES ASSUME Inv, init_path_lookup PROVE Inv'
  OBVIOUS
<1> DEFINE o == Offsets(key)
<1>1. ~ Vector /\ running /\ Ranges /\ BasicInv
  BY DEF Inv, init_path_lookup, Vector
<1>2. /\ key' = key /\ len' = len /\ cpu' = cpu /\ rAtFirstPos' = rAtFirstPos
      /\ messagePosition' = messagePosition /\ nextBite' = nextBite /\ machine' = machine
      /\ messageBite' = messageBite /\ plain' = plain /\ running' = FALSE
      /\ lookupNumber' = lookupNumber
      /\ currentRRingOffset' = currentRRingOffset
      /\ lookups' = [i \in 1 .. len |-> Way(o, turns, len)[i]]
      /\ rings' = Way(o, turns, len)[len]
  BY DEF init_path_lookup, decoded, Way
<1>3. /\ simd' = simd /\ size' = size /\ turns' = turns /\ start' = start
      /\ bitesLimit' = bitesLimit /\ Vector' = Vector
      /\ \A i : At(i)' = At(i)
  BY <1>2, SameKey
<1>4. NotchedTurns(turns) /\ o \in Wheels /\ len \in 3 .. 250 /\ start = Walk(o, turns, 1)
  <2>1. key \in Keys
    BY <1>1 DEF Ranges
  <2> QED
    BY <1>1, <2>1, KeyFacts, RangesFacts DEF turns
<1> HIDE DEF o
<1>5. ASSUME NEW i \in 1 .. len PROVE Way(o, turns, len)[i] = At(i - 1)
  <2>1. i \in 0 .. len /\ len \in Nat /\ i - 1 \in Nat /\ 1 + (i - 1) = i
    BY <1>4
  <2>2. Way(o, turns, len)[i] = Walk(o, turns, i)
    BY <2>1, WayIsWalk
  <2>3. 1 \in Nat
    OBVIOUS
  <2>4. Walk(Walk(o, turns, 1), turns, i - 1) = Walk(o, turns, 1 + (i - 1))
    BY <2>1, <2>3, WalkOn
  <2> QED
    BY <1>4, <2>1, <2>2, <2>4 DEF At
<1>6. lookups' = [i \in 1 .. len |-> At(i - 1)]
  BY <1>2, <1>5
<1>7. rings' \in Wheels
  <2>1. len \in 0 .. len /\ len \in Nat
    BY <1>4
  <2>2. Way(o, turns, len)[len] = Walk(o, turns, len)
    BY <2>1, WayIsWalk
  <2> QED
    BY <1>2, <1>4, <2>1, <2>2, WalkType
<1>8. Ranges'
  BY <1>1, <1>2, <1>3, <1>7 DEF Ranges
<1>9. BasicInv'
  <2>1. plain = << >>
    BY <1>1 DEF BasicInv
  <2>2. plain' = << >> /\ DOMAIN plain' = {}
    BY <1>2, <2>1
  <2>3. lookups' = [i \in 1 .. len' |-> At(i - 1)']
    BY <1>2, <1>3, <1>6
  <2>4. machine = start /\ messagePosition = 0 /\ nextBite = << >> /\ messageBite = 0
    BY <1>1 DEF BasicInv
  <2> QED
    BY <1>2, <1>3, <2>2, <2>3, <2>4 DEF BasicInv
<1> QED
  BY <1>1, <1>3, <1>8, <1>9 DEF Inv

\* The scores read the tables that were prepared, whatever the processor has.
LEMMA TablesFit ==
  ASSUME cpu \in Cpus
  PROVE  DecodesBy(enigma_score_init(cpu)) = simd
<1>1. cpu \subseteq {"ssse3", "avx", "avx2"}
  BY CallsFacts
<1> QED
  BY <1>1 DEF DecodesBy, enigma_score_init, simd, CipherInit

\* A letter of the plugboard and the ciphertext
LEMMA Texts ==
  /\ Wired(stbrett)
  /\ \A i \in 0 .. 255 : ciphertext[i] \in Letter /\ stbrett[ciphertext[i]] \in Letter
BY CallsFacts DEF Wired

\* Every letter is read from the row of its own wheels.
LEMMA DecodeKeepsInv == Inv /\ DecodeMessage => Inv'
<1> SUFFICES ASSUME Inv, DecodeMessage PROVE Inv'
  OBVIOUS
<1>1. ~ Vector /\ ~ running /\ Ranges /\ BasicInv
  BY DEF Inv, DecodeMessage, Vector
<1>2. /\ key' = key /\ len' = len /\ cpu' = cpu /\ rAtFirstPos' = rAtFirstPos /\ rings' = rings
      /\ messagePosition' = messagePosition /\ nextBite' = nextBite /\ machine' = machine
      /\ messageBite' = messageBite /\ running' = running /\ lookups' = lookups
      /\ currentRRingOffset' = currentRRingOffset /\ lookupNumber' = lookupNumber
      /\ plain' = [i \in 0 .. len - 1 |->
                    IF DecodesBy(enigma_score_init(cpu)) = simd THEN decode(i) ELSE Unprepared]
  BY DEF DecodeMessage, prepared
<1>3. /\ simd' = simd /\ size' = size /\ turns' = turns /\ start' = start
      /\ bitesLimit' = bitesLimit /\ Vector' = Vector
      /\ \A i : At(i)' = At(i)
  BY <1>2, SameKey
<1>4. len \in 3 .. 250 /\ cpu \in Cpus /\ key \in Keys /\ \A i \in Nat : At(i) \in Wheels
  BY <1>1, RangesFacts DEF Ranges
<1>5. plain' = [i \in 0 .. len - 1 |-> decode(i)]
  BY <1>2, <1>4, TablesFit
<1>6. ASSUME NEW i \in 0 .. len - 1
      PROVE  decode(i) = Enigma(key, stbrett, At(i), ciphertext[i])
  <2> DEFINE c == stbrett[ciphertext[i]]
  <2>1. i \in Nat /\ i \in 0 .. 255 /\ i + 1 \in 1 .. len /\ (i + 1) - 1 = i
    BY <1>4
  <2>2. c \in Letter
    BY <2>1, Texts
  <2>3. lookups[i + 1] = At(i)
    BY <1>1, <2>1 DEF BasicInv
  <2>4. Fits(key, At(i)) /\ (key.model # "M4" => key.slot.g = NoWheel)
    BY <1>4, <2>1, KeyFacts
  <2> HIDE DEF c
  <2>5. path_lookup_ALL(key, At(i), c) = Machine(key, At(i), c)
    BY <2>2, <2>4, PathAllIsMachine
  <2>6. key.model # "M4" => path_lookup_H_M3(key, At(i), c) = Machine(key, At(i), c)
    BY <2>2, <2>4, PathH_M3IsMachine
  <2>7. decode(i) = stbrett[IF key.model = "M4" THEN path_lookup_ALL(key, At(i), c)
                            ELSE path_lookup_H_M3(key, At(i), c)]
    BY <2>3 DEF decode, c
  <2> QED
    BY <2>5, <2>6, <2>7 DEF Enigma, c
<1>7. Ranges'
  BY <1>1, <1>2, <1>3 DEF Ranges
<1>8. BasicInv'
  <2>1. /\ machine = start /\ messagePosition = 0 /\ nextBite = << >> /\ messageBite = 0
        /\ lookups = [i \in 1 .. len |-> At(i - 1)]
    BY <1>1 DEF BasicInv
  <2>2. lookups' = [i \in 1 .. len' |-> At(i - 1)']
    BY <1>2, <1>3, <2>1
  <2>3. \A c \in DOMAIN plain' : c \in 0 .. len - 1
                                 /\ plain'[c] = Enigma(key, stbrett, At(c), ciphertext[c])
    BY <1>5, <1>6
  <2>4. \A c \in DOMAIN plain' : c \in 0 .. len' - 1
                                 /\ plain'[c] = Enigma(key', stbrett, At(c)', ciphertext[c])
    BY <1>2, <1>3, <2>3
  <2> QED
    BY <1>1, <1>2, <1>3, <2>1, <2>2, <2>4 DEF BasicInv
<1> QED
  BY <1>1, <1>3, <1>7, <1>8 DEF Inv

\* The maps of the middle and the left wheel do not read the right one.
LEMMA RotorsReadTwo ==
  ASSUME NEW k, NEW a, NEW b, a.m = b.m, a.l = b.l, NEW c
  PROVE  /\ CalculatePermutationMap3Rotors(k, a, c) = CalculatePermutationMap3Rotors(k, b, c)
         /\ CalculatePermutationMap4Rotors(k, a, c) = CalculatePermutationMap4Rotors(k, b, c)
BY DEF CalculatePermutationMap3Rotors, CalculatePermutationMap4Rotors

\* The part of the lookup that covers the lane is the way through the wheels,
\* the other parts are zero.
LEMMA PartIsWay ==
  ASSUME NEW w, Fits(key, w), NEW x \in Letter, NEW lookup, NEW lane,
         lookup.m = w.m, lookup.l = w.l
  PROVE  DecodeBiteMaskedPart(x, lookup, lane)
           = IF Covers(lookup, lane)
             THEN IF key.model = "M4" THEN CalculatePermutationMap4Rotors(key, w, x)
                  ELSE CalculatePermutationMap3Rotors(key, w, x)
             ELSE 0
<1> DEFINE mapping == [c \in Letter |->
               IF key.model = "M4" THEN CalculatePermutationMap4Rotors(key, lookup, c)
                                   ELSE CalculatePermutationMap3Rotors(key, lookup, c)]
           way(c) == IF key.model = "M4" THEN CalculatePermutationMap4Rotors(key, w, c)
                     ELSE CalculatePermutationMap3Rotors(key, w, c)
<1>1. mapping = [c \in Letter |-> way(c)]
  BY RotorsReadTwo
<1>2. \A c \in Letter : way(c) \in Letter
  BY RotorsGiveLetter
<1>3. DecodeBiteMaskedPart(x, lookup, lane)
        = IF lookup.begin <= lane /\ lane < lookup.end THEN PermuteVec(mapping, x) ELSE 0
  BY DEF DecodeBiteMaskedPart
<1> HIDE DEF mapping, way
<1>4. Wired(mapping)
  BY <1>1, <1>2 DEF Wired
<1>5. PermuteVec(mapping, x) = way(x)
  BY <1>1, <1>4, ShuffleIsLookup
<1> QED
  BY <1>3, <1>5 DEF Covers, way

\* The sum of a function that is zero but at one place is its value there.
LEMMA SumOfOne ==
  ASSUME NEW f, IsFiniteSet(DOMAIN f), NEW x \in DOMAIN f, f[x] \in Int,
         \A y \in DOMAIN f : y # x => f[y] = 0
  PROVE  SumFunction(f) = f[x]
<1> DEFINE S == DOMAIN f
           first(s) == CHOOSE y \in s : TRUE
           value(s) == IF x \in s THEN f[x] ELSE 0
           Sums(g) == g = [s \in SUBSET S |-> IF s = {} THEN 0
                             ELSE f[first(s)] + g[s \ {first(s)}]]
           sum == CHOOSE g : Sums(g)
<1>1. SumFunction(f) = sum[S]
  BY DEF SumFunction, SumFunctionOnSet, FoldFunctionOnSet, MapThenFoldSet
<1>2. ASSUME NEW s \in SUBSET S, s # {}
      PROVE  first(s) \in s /\ f[first(s)] + value(s \ {first(s)}) = value(s)
  <2>1. first(s) \in s
    BY <1>2
  <2> HIDE DEF first
  <2>2. CASE first(s) = x
    BY <2>1, <2>2
  <2>3. CASE first(s) # x
    BY <2>1, <2>3
  <2> QED
    BY <2>1, <2>2, <2>3
<1>3. Sums([s \in SUBSET S |-> value(s)])
  <2> DEFINE h == [s \in SUBSET S |-> value(s)]
  <2>1. ASSUME NEW s \in SUBSET S
        PROVE  h[s] = IF s = {} THEN 0 ELSE f[first(s)] + h[s \ {first(s)}]
    <3>1. CASE s = {}
      BY <3>1
    <3>2. CASE s # {}
      BY <3>2, <1>2
    <3> QED
      BY <3>1, <3>2
  <2> QED
    BY <2>1
<1>4. Sums(sum)
  BY <1>3
<1> HIDE DEF sum
<1> DEFINE P == {n \in Nat : \A s \in SUBSET S : Cardinality(s) = n => sum[s] = value(s)}
<1>5. 0 \in P
  <2>1. ASSUME NEW s \in SUBSET S, Cardinality(s) = 0 PROVE sum[s] = value(s)
    <3>1. s = {}
      BY <2>1, FS_Subset, FS_EmptySet
    <3> QED
      BY <1>4, <3>1
  <2> QED
    BY <2>1
<1>6. ASSUME NEW n \in Nat, n \in P PROVE n + 1 \in P
  <2>1. ASSUME NEW s \in SUBSET S, Cardinality(s) = n + 1 PROVE sum[s] = value(s)
    <3>1. IsFiniteSet(s) /\ s # {}
      BY <2>1, FS_Subset, FS_EmptySet
    <3>2. first(s) \in s
      BY <1>2, <3>1
    <3> HIDE DEF first
    <3>3. Cardinality(s \ {first(s)}) = Cardinality(s) - 1
      BY <3>1, <3>2, FS_RemoveElement
    <3>4. sum[s \ {first(s)}] = value(s \ {first(s)})
      BY <1>6, <2>1, <3>3
    <3>5. sum[s] = f[first(s)] + sum[s \ {first(s)}]
      BY <1>4, <3>1
    <3> QED
      BY <1>2, <3>1, <3>4, <3>5
  <2> QED
    BY <2>1
<1> HIDE DEF P
<1>7. Nat \subseteq P
  BY <1>5, <1>6, InductionOnNat
<1>8. Cardinality(S) \in Nat
  BY FS_CardinalityType
<1> USE DEF P
<1>9. sum[S] = value(S)
  BY <1>7, <1>8
<1> QED
  BY <1>1, <1>9

\* A lane is deciphered as the machine would with the wheels at its letter.
LEMMA LaneDecoded ==
  ASSUME Inv, Vector, messageBite < Len(nextBite),
         NEW lane \in 0 .. size - 1, NEW letter \in Letter
  PROVE  LET w == At(size * messageBite + lane)
         IN DecodeLane(lane, nextBite[messageBite + 1], letter, currentRRingOffset[lane])
              = Enigma(key, stbrett, w, letter)
<1> DEFINE b == messageBite + 1
           w == At(size * messageBite + lane)
           offset == currentRRingOffset[lane]
           lookupsOf == lookupNumber + 1 .. nextBite[b]
           predecoded == ThroughRight(wal[key.slot.r], PermuteVec(stbrett, letter), offset)
           part == [n \in lookupsOf |-> DecodeBiteMaskedPart(predecoded, lookups[n], lane)]
<1>1. Ranges /\ BitesInv
  BY DEF Inv
<1>2. /\ NotchedTurns(turns) /\ start \in Wheels /\ size \in {16, 32} /\ key \in Keys
      /\ \A i \in Nat : At(i) \in Wheels
  BY <1>1, RangesFacts DEF Ranges
<1>3. messageBite \in Nat /\ b \in 1 .. Len(nextBite) /\ Len(nextBite) \in Nat /\ b - 1 = messageBite
  BY <1>1 DEF Ranges
<1>4. size * messageBite \in Nat /\ size * messageBite + lane \in Nat
  BY <1>2, <1>3, Bites
<1>5. w \in Wheels /\ w.r = (start.r + (size * messageBite + lane)) % 26 /\ w.r \in Letter
  <2>1. w \in Wheels
    BY <1>2, <1>4
  <2>2. w.r = (start.r + (size * messageBite + lane)) % 26
    BY <1>2, <1>4, RightOffset DEF At
  <2> QED
    BY <2>1, <2>2 DEF Wheels
<1>6. offset = w.r
  <2>1. offset = (start.r + size * messageBite + lane) % 26
    BY <1>1 DEF Ranges
  <2>2. start.r \in Int
    BY <1>2, SMTT(30) DEF Wheels, Letter
  <2>3. start.r + size * messageBite + lane = start.r + (size * messageBite + lane)
    BY <1>4, <2>2
  <2> QED
    BY <1>5, <2>1, <2>3
<1>7. Fits(key, w) /\ (key.model # "M4" => key.slot.g = NoWheel)
  BY <1>2, <1>5, KeyFacts
<1>8. PermuteVec(stbrett, letter) = stbrett[letter] /\ stbrett[letter] \in Letter
  BY Texts, ShuffleIsLookup DEF Wired
<1>9. predecoded \in Letter
  <2>1. Wired(wal[key.slot.r])
    BY <1>7, WheelsWired DEF Fits
  <2> DEFINE y == stbrett[letter]
  <2> HIDE DEF w, offset, y
  <2>2. y \in Letter /\ offset \in Letter /\ predecoded = ThroughRight(wal[key.slot.r], y, offset)
    BY <1>5, <1>6, <1>8 DEF y
  <2> HIDE DEF predecoded
  <2>3. ThroughRight(wal[key.slot.r], y, offset) = Turned(wal[key.slot.r], offset, y)
    BY <2>1, <2>2, RightIsTurned
  <2> QED
    BY <2>1, <2>2, <2>3, EntryIsLetter
<1>10. lookupsOf = FirstOf(b) .. nextBite[b] /\ FirstOf(b) \in Nat /\ nextBite[b] \in Nat
       /\ Shares(lookups, start, turns, size * messageBite, FirstOf(b), nextBite[b], size)
  <2>1. lookupNumber + 1 = FirstOf(b)
    <3>1. CASE messageBite = 0
      <4>1. lookupNumber = 0
        BY <3>1 DEF Inv, DecodedInv
      <4> QED
        BY <3>1, <4>1 DEF FirstOf
    <3>2. CASE messageBite # 0
      <4>1. lookupNumber = nextBite[messageBite]
        BY <1>3, <3>2 DEF Inv, DecodedInv
      <4> QED
        BY <1>3, <3>2, <4>1 DEF FirstOf
    <3> QED
      BY <3>1, <3>2
  <2>2. FirstOf(b) \in Nat \ {0} /\ nextBite[b] \in 1 .. Len(lookups)
        /\ Shares(lookups, start, turns, size * (b - 1), FirstOf(b), nextBite[b], size)
    BY <1>1, <1>3 DEF BitesInv
  <2> QED
    BY <1>3, <2>1, <2>2
<1>11. PICK n0 \in lookupsOf : /\ \A i \in lookupsOf : Covers(lookups[i], lane) <=> i = n0
                               /\ lookups[n0].m = w.m /\ lookups[n0].l = w.l
  <2> HIDE DEF b, lookupsOf
  <2> QED
    BY <1>10 DEF Shares, At
<1> DEFINE way == IF key.model = "M4" THEN CalculatePermutationMap4Rotors(key, w, predecoded)
                  ELSE CalculatePermutationMap3Rotors(key, w, predecoded)
<1>12. DecodeLane(lane, nextBite[b], letter, offset)
         = PermuteVec(stbrett, ThroughRight(rev_wal[key.slot.r], SumFunction(part), offset))
  BY DEF DecodeLane
<1>13. Enigma(key, stbrett, w, letter) = stbrett[Machine(key, w, stbrett[letter])]
  BY DEF Enigma
<1>14. way \in Letter
  <2> HIDE DEF predecoded, w
  <2> QED
    BY <1>7, <1>9, RotorsGiveLetter
<1> HIDE DEF b, w, offset, lookupsOf, predecoded, way
<1>15. part[n0] = way
  <2>1. Covers(lookups[n0], lane)
    BY <1>11
  <2>2. DecodeBiteMaskedPart(predecoded, lookups[n0], lane) = way
    BY <1>7, <1>9, <1>11, <2>1, PartIsWay DEF way
  <2> QED
    BY <2>2
<1>16. \A n \in lookupsOf : n # n0 => part[n] = 0
  <2>1. ASSUME NEW n \in lookupsOf, n # n0
        PROVE  DecodeBiteMaskedPart(predecoded, lookups[n], lane) = 0
    BY <1>11, <2>1 DEF DecodeBiteMaskedPart, Covers
  <2> QED
    BY <2>1
<1>17. SumFunction(part) = way
  <2>1. DOMAIN part = lookupsOf /\ IsFiniteSet(lookupsOf)
    <3>1. PICK from, to \in Int : lookupsOf = from .. to
      BY <1>10
    <3>2. IsFiniteSet(from .. to)
      BY FS_Interval
    <3> QED
      BY <3>1, <3>2
  <2>2. way \in Int
    BY <1>14 DEF Letter
  <2> HIDE DEF part
  <2>3. SumFunction(part) = part[n0]
    BY <1>15, <1>16, <2>1, <2>2, SumOfOne
  <2> QED
    BY <1>15, <2>3
<1> DEFINE back == ThroughRight(rev_wal[key.slot.r], way, offset)
<1>18. back = Machine(key, w, stbrett[letter])
  <2>1. predecoded = ThroughRight(wal[key.slot.r], stbrett[letter], w.r)
    BY <1>6, <1>8 DEF predecoded
  <2> QED
    BY <1>6, <1>7, <1>8, <2>1, LaneIsMachine DEF way
<1>19. back \in Letter
  BY <1>7, <1>8, <1>18, MachineReciprocal
<1> HIDE DEF part, back
<1>20. PermuteVec(stbrett, back) = stbrett[back]
  BY <1>19, Texts, ShuffleIsLookup
<1> QED
  BY <1>12, <1>13, <1>17, <1>18, <1>20 DEF b, back, w, offset

\* The right wheel of every lane is a bite further.
LEMMA NextOffset ==
  ASSUME NEW x \in Nat, NEW s \in {16, 32}
  PROVE  AddMod26(x % 26, s % 26) = (x + s) % 26
<1>1. 16 % 26 = 16 /\ 32 % 26 = 6
  BY SMT
<1>2. CASE s = 16
  BY <1>1, <1>2, SMT DEF AddMod26
<1>3. CASE s = 32
  <2>1. (x + 32) % 26 = (x + 6) % 26
    BY SMT
  <2>2. AddMod26(x % 26, 6) = (x + 6) % 26
    BY SMT DEF AddMod26
  <2> QED
    BY <1>1, <1>3, <2>1, <2>2
<1> QED
  BY <1>2, <1>3

\* A bite that has been prepared is deciphered as the machine would, and behind
\* every bite the machine has the wheels where the next one starts.
LEMMA DecodeBiteKeepsInv == Inv /\ DecodeBite => Inv'
<1> SUFFICES ASSUME Inv, DecodeBite PROVE Inv'
  OBVIOUS
<1> DEFINE first == size * messageBite
<1>1. Vector /\ ~ running /\ Ranges /\ BitesInv /\ DecodedInv /\ messageBite < bitesLimit
  BY DEF Inv, DecodeBite, Vector
<1>2. /\ key' = key /\ len' = len /\ cpu' = cpu /\ rAtFirstPos' = rAtFirstPos
      /\ rings' = rings /\ messagePosition' = messagePosition /\ nextBite' = nextBite
      /\ lookups' = lookups /\ running' = running
      /\ messageBite' = messageBite + 1
      /\ currentRRingOffset' = [lane \in 0 .. size - 1 |->
                                  AddMod26(currentRRingOffset[lane], size % 26)]
      /\ machine' = IF messageBite = 0 THEN start ELSE Pressed(size)
      /\ \E next \in NextBite(messageBite + 1) :
           /\ lookupNumber' = next
           /\ plain' = [lane \in 0 .. size - 1 |->
                IF DecodesBy(enigma_score_init(cpu)) = simd
                THEN DecodeLane(lane, next, ciphertext[size * messageBite + lane],
                                currentRRingOffset[lane])
                ELSE Unprepared]
  BY DEF DecodeBite, prepared
<1>3. /\ simd' = simd /\ size' = size /\ turns' = turns /\ start' = start
      /\ bitesLimit' = bitesLimit /\ Vector' = Vector /\ MaxOfBite' = MaxOfBite
      /\ \A i : At(i)' = At(i)
  BY <1>2, SameKey
<1>4. /\ start \in Wheels /\ start.r \in Letter /\ size \in {16, 32} /\ At(0) = start
      /\ bitesLimit \in Nat \ {0} /\ size * bitesLimit <= 256 /\ cpu \in Cpus
      /\ \A i \in Nat : At(i) \in Wheels
  BY <1>1, RangesFacts DEF Ranges
<1>5. messageBite \in Nat /\ Len(nextBite) \in Nat /\ Len(nextBite) <= bitesLimit
  BY <1>1 DEF Ranges, BitesInv
<1>6. first \in Nat /\ size * (messageBite + 1) = first + size /\ first + size <= 256
  <2>1. messageBite < bitesLimit
    BY <1>1, <1>4, <1>5
  <2>2. first \in Nat /\ size * (messageBite + 1) = first + size
        /\ first + size <= size * bitesLimit
    BY <1>4, <1>5, <2>1, Bites
  <2> HIDE DEF first
  <2>3. PICK all \in Int : all = size * bitesLimit
    BY <1>4
  <2> QED
    BY <1>4, <2>2, <2>3
<1>7. machine' = At(first)
  <2>1. CASE messageBite = 0
    BY <1>2, <1>4, <2>1
  <2>2. CASE messageBite # 0
    <3> DEFINE b == messageBite - 1
    <3>1. b \in Nat /\ b + 1 = messageBite
      BY <1>5, <2>2
    <3>2. machine = At(size * b)
      BY <1>1, <1>5, <2>2 DEF DecodedInv
    <3> HIDE DEF b
    <3>3. size * b \in Nat /\ size * b + size = first
      BY <1>4, <3>1, Bites
    <3>4. size \in Nat
      BY <1>4
    <3>5. machine' = Walk(machine, turns, size)
      BY <1>2, <2>2, PressedIsWalk
    <3>6. Walk(Walk(start, turns, size * b), turns, size) = Walk(start, turns, size * b + size)
      BY <3>3, <3>4, WalkOn
    <3> QED
      BY <3>2, <3>3, <3>5, <3>6 DEF At
  <2> QED
    BY <2>1, <2>2
<1>13. lookupNumber' \in 0 .. MaxLookups /\ DOMAIN plain' = 0 .. size - 1
  <2>1. PICK next \in NextBite(messageBite + 1) :
          /\ lookupNumber' = next /\ DOMAIN plain' = 0 .. size - 1
    BY <1>2
  <2>2. next \in 0 .. MaxLookups
    <3>1. CASE messageBite + 1 <= Len(nextBite)
      <4>1. messageBite + 1 \in 1 .. Len(nextBite)
        BY <1>5, <3>1
      <4>2. nextBite[messageBite + 1] \in 1 .. Len(lookups) /\ Len(lookups) <= MaxLookups
            /\ Len(lookups) \in Nat /\ MaxLookups \in Nat
        BY <1>1, <4>1 DEF BitesInv, MaxLookups
      <4>3. next = nextBite[messageBite + 1]
        BY <2>1, <3>1 DEF NextBite
      <4> QED
        BY <4>2, <4>3
    <3>2. CASE ~ (messageBite + 1 <= Len(nextBite))
      <4>1. next \in {0} \cup messageBite + 1 .. MaxLookups /\ MaxLookups \in Nat
        BY <2>1, <3>2 DEF NextBite, MaxLookups
      <4> QED
        BY <1>5, <4>1
    <3> QED
      BY <3>1, <3>2
  <2> QED
    BY <2>1, <2>2
<1>14. ASSUME messageBite < Len(nextBite)
       PROVE  /\ lookupNumber' = nextBite[messageBite + 1]
              /\ plain' = [lane \in 0 .. size - 1 |->
                   DecodeLane(lane, nextBite[messageBite + 1],
                              ciphertext[size * messageBite + lane], currentRRingOffset[lane])]
  <2>1. messageBite + 1 <= Len(nextBite)
    BY <1>5, <1>14
  <2>2. NextBite(messageBite + 1) = {nextBite[messageBite + 1]}
    BY <2>1 DEF NextBite
  <2> QED
    BY <1>2, <1>4, <2>2, TablesFit
<1>8. ASSUME messageBite < Len(nextBite), NEW lane \in 0 .. size - 1
      PROVE  plain'[lane] = Enigma(key, stbrett, At(first + lane), ciphertext[first + lane])
  <2>1. first + lane \in 0 .. 255
    BY <1>4, <1>6, SMTT(30)
  <2>2. ciphertext[first + lane] \in Letter
    BY <2>1, Texts
  <2>3. plain'[lane] = DecodeLane(lane, nextBite[messageBite + 1],
                                  ciphertext[first + lane], currentRRingOffset[lane])
    BY <1>8, <1>14
  <2> QED
    BY <1>1, <1>8, <2>2, <2>3, LaneDecoded
<1>9. ASSUME NEW lane \in 0 .. size - 1
      PROVE  AddMod26(currentRRingOffset[lane], size % 26)
               = (start.r + size * (messageBite + 1) + lane) % 26
  <2>1. PICK r \in Nat : r = start.r
    BY <1>4 DEF Letter
  <2>2. currentRRingOffset[lane] = (r + first + lane) % 26
    BY <1>1, <2>1 DEF Ranges
  <2> HIDE DEF first
  <2>3. r + first + lane \in Nat
    BY <1>4, <1>6, <2>1
  <2>4. AddMod26(currentRRingOffset[lane], size % 26) = (r + first + lane + size) % 26
    BY <1>4, <2>2, <2>3, NextOffset
  <2>5. r + first + lane + size = r + (first + size) + lane
    BY <1>4, <1>6, <2>1
  <2> QED
    BY <1>6, <2>1, <2>4, <2>5
<1>10. Ranges'
  <2>1. messageBite' \in 0 .. bitesLimit
    BY <1>1, <1>2, <1>4, <1>5
  <2>2. machine' \in Wheels
    BY <1>4, <1>6, <1>7
  <2>3. currentRRingOffset' = [lane \in 0 .. size - 1 |->
                                 (start.r + size * (messageBite + 1) + lane) % 26]
    BY <1>2, <1>9
  <2> QED
    BY <1>1, <1>2, <1>3, <1>13, <2>1, <2>2, <2>3 DEF Ranges
<1>11. BitesInv'
  <2>1. \A b : FirstOf(b)' = FirstOf(b)
    BY <1>2 DEF FirstOf
  <2> QED
    BY <1>1, <1>2, <1>3, <2>1 DEF BitesInv
<1>12. DecodedInv'
  <2>1. messageBite' > 0 /\ messageBite' - 1 = messageBite /\ messageBite' = messageBite + 1
    BY <1>2, <1>5
  <2>2. messageBite' <= Len(nextBite') => messageBite < Len(nextBite)
    BY <1>2, <1>5
  <2> QED
    BY <1>2, <1>3, <1>7, <1>8, <1>13, <1>14, <2>1, <2>2 DEF DecodedInv, first
<1> QED
  BY <1>1, <1>2, <1>3, <1>10, <1>11, <1>12 DEF Inv

LEMMA StutterKeepsInv == Inv /\ UNCHANGED vars => Inv'
<1> SUFFICES ASSUME Inv, UNCHANGED vars PROVE Inv'
  OBVIOUS
<1>1. /\ key' = key /\ len' = len /\ cpu' = cpu /\ rAtFirstPos' = rAtFirstPos
      /\ rings' = rings /\ messagePosition' = messagePosition /\ nextBite' = nextBite
      /\ lookups' = lookups /\ running' = running /\ messageBite' = messageBite
      /\ currentRRingOffset' = currentRRingOffset /\ machine' = machine /\ plain' = plain
      /\ lookupNumber' = lookupNumber
  BY DEF vars, prepared, decoded
<1>2. /\ simd' = simd /\ size' = size /\ turns' = turns /\ start' = start
      /\ bitesLimit' = bitesLimit /\ Vector' = Vector /\ MaxOfBite' = MaxOfBite
      /\ \A i : At(i)' = At(i)
  BY <1>1, SameKey
<1>3. \A b : FirstOf(b)' = FirstOf(b)
  BY <1>1 DEF FirstOf
<1>4. Ranges'
  BY <1>1, <1>2 DEF Inv, Ranges
<1>5. ~ Vector => BasicInv'
  <2> SUFFICES ASSUME BasicInv PROVE BasicInv'
    BY DEF Inv
  <2> QED
    BY <1>1, <1>2 DEF BasicInv
<1>6. Vector => BitesInv'
  <2> SUFFICES ASSUME BitesInv PROVE BitesInv'
    BY DEF Inv
  <2> QED
    BY <1>1, <1>2, <1>3 DEF BitesInv
<1>7. Vector /\ running => CurrentInv'
  <2> SUFFICES ASSUME CurrentInv PROVE CurrentInv'
    BY DEF Inv
  <2>1. FirstOf(Len(nextBite) + 1)' = FirstOf(Len(nextBite) + 1)
    BY <1>1 DEF FirstOf
  <2>2. At(messagePosition)' = At(messagePosition)
    BY <1>1, <1>2 DEF At
  <2> QED
    BY <1>1, <1>2, <2>1, <2>2 DEF CurrentInv
<1>8. Vector => DecodedInv'
  <2> SUFFICES ASSUME DecodedInv PROVE DecodedInv'
    BY DEF Inv
  <2> QED
    BY <1>1, <1>2 DEF DecodedInv, At
<1> QED
  BY <1>1, <1>2, <1>4, <1>5, <1>6, <1>7, <1>8 DEF Inv

\* Whatever is prepared or deciphered next, the tables stay in step with the
\* machine, share out the letters, and are few enough.
THEOREM LookupsFollowMachine == Spec => []Inv
<1>1. Init => Inv
  BY InitInv
<1>2. Inv /\ [Next]_vars => Inv'
  BY TurnoverKeepsInv, EndOfBiteKeepsInv, PathLookupKeepsInv, DecodeKeepsInv,
     DecodeBiteKeepsInv, StutterKeepsInv DEF Next
<1> QED
  BY <1>1, <1>2, PTL DEF Spec

-----------------------------------------------------------------------------
(* What the runs check, for every key, length, processor and wiring.       *)

LEMMA InvGivesType == Inv => TypeOK
<1> SUFFICES ASSUME Inv PROVE TypeOK
  OBVIOUS
<1>1. Ranges
  BY DEF Inv
<1>2. len \in 3 .. 250 /\ size \in {16, 32} /\ start.r \in Letter
  BY <1>1, RangesFacts
<1>3. ASSUME simd = "basic"
      PROVE  Len(lookups) <= len /\ Len(nextBite) <= Len(lookups)
  <2>1. BasicInv
    BY <1>3 DEF Inv, Vector
  <2>2. Len(lookups) \in Nat /\ Len(lookups) <= len
    <3>1. Len(<< >>) = 0 /\ Len([i \in 1 .. len |-> At(i - 1)]) = len
      BY <1>2
    <3>2. lookups = << >> \/ lookups = [i \in 1 .. len |-> At(i - 1)]
      BY <1>1, <2>1 DEF BasicInv, Ranges
    <3> HIDE DEF At
    <3> QED
      BY <1>2, <3>1, <3>2
  <2>3. Len(nextBite) = 0
    BY <2>1 DEF BasicInv
  <2> QED
    BY <1>3, <2>2, <2>3
<1> DEFINE limit == IF simd = "basic" THEN len ELSE MaxLookups
<1>4. Len(lookups) <= limit /\ Len(nextBite) <= Len(lookups)
  <2>1. simd # "basic" => Len(nextBite) <= Len(lookups) /\ Len(lookups) <= MaxLookups
    BY DEF Inv, Vector, BitesInv
  <2> QED
    BY <1>3, <2>1
<1>5. currentRRingOffset \in [0 .. size - 1 -> Letter]
  <2>1. PICK r \in Nat : r = start.r
    BY <1>2 DEF Letter
  <2>2. PICK first \in Nat : first = size * messageBite
    BY <1>1, <1>2, Bites DEF Ranges
  <2>3. \A lane \in 0 .. size - 1 : (r + first + lane) % 26 \in Letter
    BY <1>2, SMT DEF Letter
  <2>4. currentRRingOffset = [lane \in 0 .. size - 1 |-> (r + first + lane) % 26]
    BY <1>1, <2>1, <2>2 DEF Ranges
  <2> QED
    BY <2>3, <2>4
<1> QED
  BY <1>1, <1>4, <1>5 DEF TypeOK, Ranges

\* The arrays of the lookups and the bites are never written behind their end.
THEOREM TypeCorrect == Spec => []TypeOK
BY LookupsFollowMachine, InvGivesType, PTL

\* However many turnovers, double steps and bites were jumped over, the wheels
\* of the next lookup are those of the machine.
THEOREM AlwaysInStep == Spec => []InStepWithMachine
<1>1. Inv => InStepWithMachine
  BY DEF Inv, Vector, CurrentInv, InStepWithMachine
<1> QED
  BY <1>1, LookupsFollowMachine, PTL

LEMMA InvGivesHolds == Inv => LookupHoldsUnderMask
<1> SUFFICES ASSUME Inv, running, Vector
             PROVE  LET last == IF inBite + charsToNextTurnover < size
                                THEN charsToNextTurnover - 1 ELSE size - inBite - 1
                    IN Pressed(last).m = rings.m /\ Pressed(last).l = rings.l
  BY DEF LookupHoldsUnderMask, Vector
<1> DEFINE last == IF inBite + charsToNextTurnover < size
                   THEN charsToNextTurnover - 1 ELSE size - inBite - 1
<1>1. Ranges /\ size \in {16, 32} /\ NotchedTurns(turns) /\ rings \in Wheels
  BY RangesFacts DEF Inv, Ranges
<1>2. /\ inBite \in 0 .. size - 1 /\ charsToNextTurnover \in 1 .. 26
      /\ charsToNextTurnover = ToTurnover(rings, turns)
      /\ \A k \in Nat : Pressed(k) = Walk(rings, turns, k)
  BY Preparing
<1>3. last \in Nat /\ last < ToTurnover(rings, turns)
  BY <1>1, <1>2
<1> HIDE DEF last
<1>4. Pressed(last) = [rings EXCEPT !.r = (rings.r + last) % 26]
  BY <1>1, <1>2, <1>3, RestsTillTurnover
<1>5. Pressed(last).m = rings.m /\ Pressed(last).l = rings.l
  BY <1>1, <1>4 DEF Wheels
<1> QED
  BY <1>5 DEF last

\* No lookup is used for a letter it does not hold for.
THEOREM LookupAlwaysHolds == Spec => []LookupHoldsUnderMask
BY LookupsFollowMachine, InvGivesHolds, PTL

LEMMA InvGivesPartition == Inv => MasksPartitionBite
<1> SUFFICES ASSUME Inv, Len(nextBite) > 0
             PROVE  LET bite == Len(nextBite)
                    IN /\ \A c \in 0 .. size - 1 :
                            Cardinality({n \in LookupsOf(bite) :
                                           lookups[n].begin <= c /\ c < lookups[n].end}) = 1
                       /\ Cardinality(LookupsOf(bite)) \in 1 .. (IF simd = "avx2" THEN 5 ELSE 4)
  BY DEF MasksPartitionBite
<1> DEFINE bite == Len(nextBite)
<1>1. Vector /\ BitesInv
  <2>1. ~ Vector => nextBite = << >>
    BY DEF Inv, BasicInv
  <2> QED
    BY <2>1 DEF Inv
<1>2. bite \in 1 .. Len(nextBite)
  BY DEF Inv, Ranges
<1>3. /\ LookupsOf(bite) = FirstOf(bite) .. nextBite[bite]
      /\ FirstOf(bite) \in Nat \ {0} /\ nextBite[bite] \in 1 .. Len(lookups)
      /\ nextBite[bite] - FirstOf(bite) + 1 \in 1 .. MaxOfBite
      /\ Shares(lookups, start, turns, size * (bite - 1), FirstOf(bite), nextBite[bite], size)
  BY <1>1, <1>2 DEF BitesInv, LookupsOf, FirstOf
<1>4. PICK from, to \in Int :
        /\ LookupsOf(bite) = from .. to /\ to - from + 1 \in 1 .. MaxOfBite
        /\ Shares(lookups, start, turns, size * (bite - 1), from, to, size)
  BY <1>3
<1> HIDE DEF bite
<1>5. ASSUME NEW c \in 0 .. size - 1
      PROVE  Cardinality({n \in LookupsOf(bite) :
                            lookups[n].begin <= c /\ c < lookups[n].end}) = 1
  <2>1. PICK n \in from .. to : \A i \in from .. to : Covers(lookups[i], c) <=> i = n
    BY <1>4 DEF Shares
  <2>2. {i \in LookupsOf(bite) : lookups[i].begin <= c /\ c < lookups[i].end} = {n}
    BY <1>4, <2>1 DEF Covers
  <2> QED
    BY <2>2, FS_Singleton
<1>6. Cardinality(LookupsOf(bite)) \in 1 .. (IF simd = "avx2" THEN 5 ELSE 4)
  <2>1. Cardinality(from .. to) = IF from > to THEN 0 ELSE to - from + 1
    BY FS_Interval
  <2>2. MaxOfBite \in {4, 5} /\ to - from + 1 >= 1
    BY <1>4 DEF MaxOfBite
  <2>3. Cardinality(LookupsOf(bite)) \in 1 .. MaxOfBite
    BY <1>4, <2>1, <2>2
  <2> QED
    BY <2>3 DEF MaxOfBite
<1> QED
  BY <1>5, <1>6 DEF bite

\* Every letter of a bite is deciphered once, and the decoder has a case for
\* the number of lookups of every bite.
THEOREM MasksAlwaysPartition == Spec => []MasksPartitionBite
BY LookupsFollowMachine, InvGivesPartition, PTL

LEMMA InvGivesForecast == Inv => SlowWheelForecast
<1> SUFFICES ASSUME Inv, running
             PROVE  scrambler_state(key, messagePosition + 1) =
                      IF start.l # key.mesg.l THEN "SW_ONSTART"
                      ELSE IF machine.l # key.mesg.l THEN "SW_OTHER" ELSE "SW_NONE"
  BY DEF SlowWheelForecast
<1> DEFINE o == Offsets(key)
<1>1. /\ Ranges /\ key \in Keys /\ size \in {16, 32} /\ At(0) = start
      /\ bitesLimit \in Nat \ {0} /\ size * bitesLimit <= 256
      /\ start = Walk(o, turns, 1)
  BY RangesFacts DEF Inv, Ranges
<1>2. messagePosition \in 0 .. 255 /\ machine = At(messagePosition)
  <2>1. CASE Vector
    <3>1. CurrentInv
      BY <2>1 DEF Inv
    <3>2. Len(nextBite) \in Nat /\ Len(nextBite) < bitesLimit
      BY <1>1, <3>1 DEF Ranges, CurrentInv
    <3>3. lettersBefore \in Nat /\ lettersBefore + size <= size * bitesLimit
      BY <1>1, <3>2, Bites DEF lettersBefore
    <3>4. PICK all \in Int : all = size * bitesLimit
      BY <1>1
    <3>5. messagePosition = lettersBefore + letterOfBite /\ letterOfBite \in 0 .. size - 1
      BY <2>1, Preparing
    <3>6. messagePosition \in 0 .. 255
      BY <1>1, <3>3, <3>4, <3>5
    <3> QED
      BY <3>1, <3>6 DEF CurrentInv
  <2>2. CASE ~ Vector
    BY <1>1, <2>2 DEF Inv, BasicInv
  <2> QED
    BY <2>1, <2>2
<1>3. machine = Walk(o, turns, messagePosition + 1)
  <2>1. 1 \in Nat /\ messagePosition \in Nat /\ 1 + messagePosition = messagePosition + 1
    BY <1>2
  <2>2. Walk(Walk(o, turns, 1), turns, messagePosition) = Walk(o, turns, 1 + messagePosition)
    BY <2>1, WalkOn
  <2> QED
    BY <1>1, <1>2, <2>1, <2>2 DEF At
<1> HIDE DEF o
<1>4. messagePosition + 1 \in 1 .. 256
  BY <1>2
<1> QED
  BY <1>1, <1>3, <1>4, ScramblerStateIsForecast DEF o, turns

\* The keys are sorted by what the slow wheel does with them.
THEOREM SlowWheelAlwaysForecast == Spec => []SlowWheelForecast
BY LookupsFollowMachine, InvGivesForecast, PTL

\* So the searches for the two kinds of movement try different keys, and the
\* search for all movements tries the keys of both.
THEOREM SearchesAlwaysComplement == Spec => []SearchesComplement
<1>1. SearchesComplement
  BY DEF SearchesComplement, scrambler_state_is_endloop, scrambler_state
<1> QED
  BY <1>1, PTL

-----------------------------------------------------------------------------
(* How many lookups a message takes.  A turnover of the middle wheel puts  *)
(* the right wheel behind a notch, or the middle wheel behind one of its   *)
(* own, from where it is twelve steps to the next; each letter brings the  *)
(* right wheel one step nearer, each turnover the middle wheel.            *)

\* Steps to the next notch, if every wheel had two
Near(d) == IF d < 13 THEN d ELSE d - 13

RightNear(w, t)  == Near(RightDist(w, t))
MiddleNear(w, t) == Near(MiddleDist(w, t))
Slack(w, t) == RightNear(w, t) + MiddleNear(w, t)

\* No wheel is further from a notch than twelve steps.
LEMMA SlackType ==
  ASSUME NEW t, NotchedTurns(t), NEW w \in Wheels
  PROVE  RightNear(w, t) \in 0 .. 12 /\ MiddleNear(w, t) \in 0 .. 12 /\ Slack(w, t) \in 0 .. 24
<1>1. /\ RightDist(w, t) \in 0 .. Gap(t.r2) - 1 /\ MiddleDist(w, t) \in 0 .. Gap(t.m2) - 1
      /\ Gap(t.r2) \in {13, 26} /\ Gap(t.m2) \in {13, 26}
  BY DistType
<1>2. \A g \in {13, 26} : \A d \in 0 .. g - 1 : Near(d) \in 0 .. 12
  BY DEF Near
<1>3. RightNear(w, t) \in 0 .. 12 /\ MiddleNear(w, t) \in 0 .. 12
  BY <1>1, <1>2 DEF RightNear, MiddleNear
<1> QED
  BY <1>3 DEF Slack

\* One step nearer to a notch, or from a notch to the furthest place from one.
LEMMA NearBefore ==
  ASSUME NEW g \in {13, 26}, NEW d \in 0 .. g - 1, NEW d2,
         d2 = IF d = 0 THEN g - 1 ELSE d - 1
  PROVE  /\ d2 \in 0 .. g - 1 /\ Near(d) \in 0 .. 12 /\ Near(d2) \in 0 .. 12
         /\ Near(d2) = IF Near(d) = 0 THEN 12 ELSE Near(d) - 1
         /\ d = 0 => Near(d) = 0 /\ Near(d2) = 12
<1>1. CASE g = 13
  BY <1>1 DEF Near
<1>2. CASE g = 26
  BY <1>2 DEF Near
<1> QED
  BY <1>1, <1>2

\* A key uses up one step of the slack, or earns at least eleven.
LEMMA SlackStep ==
  ASSUME NEW t, NotchedTurns(t), NEW w \in Wheels
  PROVE  LET v == StepAllRings(w, t)
         IN /\ Slack(v, t) >= Slack(w, t) - 1
            /\ RightNear(w, t) = 0 \/ MiddleDist(w, t) = 0 => Slack(v, t) >= Slack(w, t) + 11
            /\ RightNear(v, t) = (RightNear(w, t) + 12) % 13
<1> DEFINE v == StepAllRings(w, t)
<1>1. PICK d, e, d2, e2, g, h \in Int :
        /\ d = RightDist(w, t) /\ d2 = RightDist(v, t) /\ g = Gap(t.r2)
        /\ e = MiddleDist(w, t) /\ e2 = MiddleDist(v, t) /\ h = Gap(t.m2)
        /\ d \in 0 .. g - 1 /\ e \in 0 .. h - 1 /\ g \in {13, 26} /\ h \in {13, 26}
        /\ d2 = (IF d = 0 THEN g - 1 ELSE d - 1)
        /\ d = 0 \/ e = 0 => e2 = IF e = 0 THEN h - 1 ELSE e - 1
        /\ ~ (d = 0 \/ e = 0) => e2 = e
  <2>1. /\ RightDist(w, t) \in 0 .. Gap(t.r2) - 1 /\ MiddleDist(w, t) \in 0 .. Gap(t.m2) - 1
        /\ Gap(t.r2) \in {13, 26} /\ Gap(t.m2) \in {13, 26}
    BY DistType
  <2>2. /\ RightDist(v, t) = IF RightDist(w, t) = 0 THEN Gap(t.r2) - 1 ELSE RightDist(w, t) - 1
        /\ (RightDist(w, t) = 0 \/ MiddleDist(w, t) = 0) =>
             MiddleDist(v, t) = IF MiddleDist(w, t) = 0 THEN Gap(t.m2) - 1
                                ELSE MiddleDist(w, t) - 1
        /\ ~ (RightDist(w, t) = 0 \/ MiddleDist(w, t) = 0) =>
             MiddleDist(v, t) = MiddleDist(w, t)
    BY StepMoves
  <2> HIDE DEF v
  <2>3. RightDist(w, t) \in Int /\ MiddleDist(w, t) \in Int /\ Gap(t.r2) \in Int /\ Gap(t.m2) \in Int
    BY <2>1
  <2>4. RightDist(v, t) \in Int /\ MiddleDist(v, t) \in Int
    BY <2>1, <2>2, <2>3
  <2> QED
    BY <2>1, <2>2, <2>3, <2>4
<1>2. /\ RightNear(w, t) = Near(d) /\ RightNear(v, t) = Near(d2)
      /\ Slack(w, t) = Near(d) + Near(e) /\ Slack(v, t) = Near(d2) + Near(e2)
  BY <1>1 DEF Slack, RightNear, MiddleNear
<1> HIDE DEF v
<1>3. /\ Near(d) \in 0 .. 12 /\ Near(d2) = (IF Near(d) = 0 THEN 12 ELSE Near(d) - 1)
      /\ Near(e2) >= Near(e) - 1 /\ Near(e) \in 0 .. 12 /\ Near(e2) \in 0 .. 12
      /\ e = 0 => Near(e) = 0 /\ Near(e2) = 12
      /\ d # 0 /\ e # 0 => Near(e2) = Near(e)
      /\ d = 0 => Near(d) = 0
  <2>1. /\ Near(d) \in 0 .. 12 /\ Near(d2) = (IF Near(d) = 0 THEN 12 ELSE Near(d) - 1)
        /\ d = 0 => Near(d) = 0
    BY <1>1, NearBefore
  <2>2. CASE d = 0 \/ e = 0
    <3>1. /\ Near(e) \in 0 .. 12 /\ Near(e2) \in 0 .. 12
          /\ Near(e2) = IF Near(e) = 0 THEN 12 ELSE Near(e) - 1
          /\ e = 0 => Near(e) = 0 /\ Near(e2) = 12
      BY <1>1, <2>2, NearBefore
    <3> QED
      BY <2>1, <2>2, <3>1
  <2>3. CASE d # 0 /\ e # 0
    <3>1. e2 = e /\ Near(e) \in 0 .. 12
      BY <1>1, <2>3, NearBefore
    <3> QED
      BY <2>1, <2>3, <3>1
  <2> QED
    BY <2>2, <2>3
<1>4. PICK x, y, x2, y2 \in Int : x = Near(d) /\ y = Near(e) /\ x2 = Near(d2) /\ y2 = Near(e2)
  <2>1. Near(d) \in Int /\ Near(e) \in Int /\ Near(d2) \in Int /\ Near(e2) \in Int
    BY <1>3
  <2> QED
    BY <2>1
<1>5. x2 = (x + 12) % 13
  <2>1. x \in 0 .. 12 /\ x2 = IF x = 0 THEN 12 ELSE x - 1
    BY <1>3, <1>4
  <2>2. \A i \in 0 .. 12 : (i + 12) % 13 = IF i = 0 THEN 12 ELSE i - 1
    BY SMT
  <2> QED
    BY <2>1, <2>2
<1>6. x2 + y2 >= x + y - 1
  BY <1>3, <1>4
<1>7. x = 0 \/ e = 0 => x2 + y2 >= x + y + 11
  BY <1>1, <1>3, <1>4
<1> QED
  BY <1>1, <1>2, <1>4, <1>5, <1>6, <1>7 DEF v

\* So do several keys; how far the right wheel is from a notch, they alone say.
LEMMA SlackWalk ==
  ASSUME NEW t, NotchedTurns(t), NEW w \in Wheels, NEW n \in Nat
  PROVE  /\ Slack(Walk(w, t, n), t) + n >= Slack(w, t)
         /\ RightNear(Walk(w, t, n), t) = (RightNear(w, t) + 12 * n) % 13
<1> DEFINE S == {k \in Nat : /\ Slack(Walk(w, t, k), t) + k >= Slack(w, t)
                             /\ RightNear(Walk(w, t, k), t) = (RightNear(w, t) + 12 * k) % 13}
<1>1. PICK x \in 0 .. 12 : x = RightNear(w, t)
  BY SlackType
<1>2. PICK before \in Int : before = Slack(w, t)
  BY SlackType
<1>3. 0 \in S
  <2>1. (x + 12 * 0) % 13 = x
    BY SMT
  <2>2. Walk(w, t, 0) = w
    BY WalkStep
  <2> QED
    BY <1>1, <1>2, <2>1, <2>2
<1>4. ASSUME NEW k \in Nat, k \in S PROVE k + 1 \in S
  <2> DEFINE u == Walk(w, t, k)
             v == StepAllRings(u, t)
  <2>1. u \in Wheels /\ Walk(w, t, k + 1) = v
    BY WalkType, WalkStep
  <2> HIDE DEF u
  <2>2. Slack(v, t) >= Slack(u, t) - 1 /\ RightNear(v, t) = (RightNear(u, t) + 12) % 13
    BY <2>1, SlackStep
  <2>3. v \in Wheels
    BY <2>1, WalkType
  <2> HIDE DEF v
  <2>4. PICK a, b \in Int : a = Slack(u, t) /\ b = Slack(v, t)
    BY <2>1, <2>3, SlackType
  <2>5. a + k >= before /\ RightNear(u, t) = (x + 12 * k) % 13
    BY <1>1, <1>2, <1>4, <2>4 DEF u
  <2>6. b + (k + 1) >= before
    BY <2>2, <2>4, <2>5
  <2>7. (((x + 12 * k) % 13) + 12) % 13 = (x + 12 * (k + 1)) % 13
    BY SMT
  <2> QED
    BY <1>1, <1>2, <2>1, <2>2, <2>4, <2>5, <2>6, <2>7
<1> HIDE DEF S
<1>5. n \in S
  BY <1>3, <1>4, InductionOnNat
<1> QED
  BY <1>5 DEF S

\* Keys of which the last is pressed where the middle wheel may turn
LEMMA SlackTurn ==
  ASSUME NEW t, NotchedTurns(t), NEW w \in Wheels, NEW n \in Nat,
         RightNear(Walk(w, t, n), t) = 0 \/ MiddleDist(Walk(w, t, n), t) = 0
  PROVE  Slack(Walk(w, t, n + 1), t) + (n + 1) >= Slack(w, t) + 12
<1> DEFINE u == Walk(w, t, n)
           v == Walk(w, t, n + 1)
<1>1. u \in Wheels /\ v \in Wheels /\ v = StepAllRings(u, t)
  BY WalkType, WalkStep
<1>2. Slack(u, t) + n >= Slack(w, t)
  BY SlackWalk
<1> HIDE DEF u, v
<1>3. Slack(v, t) >= Slack(u, t) + 11
  BY <1>1, SlackStep DEF u
<1>4. Slack(u, t) \in Int /\ Slack(v, t) \in Int /\ Slack(w, t) \in Int
  BY <1>1, SlackType
<1> QED
  BY <1>2, <1>3, <1>4 DEF v

\* The keys up to a turnover of the middle wheel are such keys.
LEMMA SlackTurnover ==
  ASSUME NEW t, NotchedTurns(t), NEW w \in Wheels, NEW k, k = ToTurnover(w, t)
  PROVE  Slack(Walk(w, t, k), t) + k >= Slack(w, t) + 12
<1>1. k \in 1 .. 26 /\ k - 1 \in Nat /\ k - 1 < k /\ (k - 1) + 1 = k
  BY NextTurnover
<1> DEFINE u == Walk(w, t, k - 1)
<1>2. u = [w EXCEPT !.r = (w.r + (k - 1)) % 26] /\ RightDist(u, t) = RightDist(w, t) - (k - 1)
  BY <1>1, RestsTillTurnover
<1>3. u.m = w.m
  BY <1>2 DEF Wheels
<1>4. MiddleDist(u, t) = MiddleDist(w, t) /\ RightDist(w, t) \in 0 .. Gap(t.r2) - 1
      /\ Gap(t.r2) \in {13, 26}
  BY <1>3, DistType DEF MiddleDist
<1>5. RightNear(u, t) = 0 \/ MiddleDist(u, t) = 0
  <2>1. CASE MiddleDist(w, t) = 0
    BY <1>4, <2>1
  <2>2. CASE MiddleDist(w, t) # 0
    <3>1. k = RightDist(w, t) + 1
      BY <2>2 DEF ToTurnover
    <3>2. RightDist(u, t) = 0
      BY <1>2, <1>4, <3>1
    <3> QED
      BY <3>2 DEF RightNear, Near
  <2> QED
    BY <2>1, <2>2
<1>6. Slack(Walk(w, t, (k - 1) + 1), t) + ((k - 1) + 1) >= Slack(w, t) + 12
  BY <1>1, <1>5, SlackTurn
<1> QED
  BY <1>1, <1>6

\* A turnover that falls on the end of a bite needs no lookup of its own.  Of
\* narrow bites, the number at whose end there has been one for certain, by the
\* steps the right wheel was from a notch at the start.
Spared(letters, d, bites) ==
  IF letters = 16 /\ ((d = 0 /\ bites >= 9) \/ (d = 1 /\ bites >= 5) \/ (d = 2 /\ bites >= 1))
  THEN 12 ELSE 0

\* All lookups but one for each bite have been paid for by twelve steps.
Paid(letters, t, from, to, letter, made, bites) ==
  12 * (made - bites) + Spared(letters, RightNear(from, t), bites) + Slack(from, t)
    <= letter + Slack(to, t)

\* Ten bites of 16 letters: at most 23 lookups behind, and room for one more.
LEMMA NarrowFew ==
  ASSUME NEW b \in 0 .. 9, NEW p \in 0 .. 15, NEW d0 \in 0 .. 12, NEW e0 \in 0 .. 12,
         NEW d \in 0 .. 12, NEW e \in 0 .. 12, NEW extra \in Nat,
         NEW n \in Nat, n = 16 * b + p, d = (d0 + 12 * n) % 13,
         12 * extra + Spared(16, d0, b) + d0 + e0 <= 16 * b + p + d + e
  PROVE  b + extra <= 23
<1>1. PICK s \in {0, 12} : s = Spared(16, d0, b)
  BY DEF Spared
<1>2. 12 * extra + s + d0 + e0 <= 16 * b + p + d + e
  BY <1>1
<1>3. CASE b <= 8
  BY <1>2, <1>3, SMT
<1>4. CASE b = 9 /\ extra >= 15
  <2>1. 12 * extra >= 180 /\ s + d0 + e0 + 180 <= 144 + p + d + e
    BY <1>2, <1>4, SMT
  <2>2. d0 <= 3 /\ s = 0
    BY <2>1, SMT
  <2>3. ~ (d0 \in {0, 1, 2})
    BY <1>1, <1>4, <2>2 DEF Spared
  <2>4. d0 = 3 /\ p = 15 /\ d = 12
    BY <2>1, <2>2, <2>3, SMT
  <2>5. d = (3 + 12 * 159) % 13
    BY <1>4, <2>4, SMT
  <2>6. (3 + 12 * 159) % 13 = 0
    BY SMT
  <2> QED
    BY <2>4, <2>5, <2>6
<1> QED
  BY <1>3, <1>4, SMT

\* The same of six bites of 32 letters
LEMMA WideFew ==
  ASSUME NEW b \in 0 .. 5, NEW p \in 0 .. 31, NEW d0 \in 0 .. 12, NEW e0 \in 0 .. 12,
         NEW d \in 0 .. 12, NEW e \in 0 .. 12, NEW extra \in Nat,
         12 * extra + d0 + e0 <= 32 * b + p + d + e
  PROVE  b + extra <= 23
BY SMT

\* So, within ten narrow or six wide bites, the loop does not meet its limit.
LEMMA FewLookups ==
  ASSUME NEW t, NotchedTurns(t), NEW s \in Wheels, NEW letters \in {16, 32},
         NEW b \in Nat, NEW p \in Nat, NEW made \in Nat, NEW w,
         p < letters, b <= made, b <= (IF letters = 16 THEN 9 ELSE 5),
         w = Walk(s, t, letters * b + p),
         Paid(letters, t, s, w, letters * b + p, made, b)
  PROVE  made < MaxLookups
<1>1. PICK d0, e0 \in 0 .. 12 : d0 = RightNear(s, t) /\ e0 = MiddleNear(s, t)
  BY SlackType
<1>2. letters * b + p \in Nat
  BY SMT
<1>3. w \in Wheels
  BY <1>2, WalkType
<1>4. PICK d, e \in 0 .. 12 : d = RightNear(w, t) /\ e = MiddleNear(w, t)
  BY <1>3, SlackType
<1>5. PICK extra \in Nat : extra = made - b
  OBVIOUS
<1>6. 12 * extra + Spared(letters, d0, b) + (d0 + e0) <= letters * b + p + (d + e)
  BY <1>1, <1>4, <1>5 DEF Paid, Slack
<1>7. b + extra <= 23
  <2>1. CASE letters = 16
    <3>1. b \in 0 .. 9 /\ p \in 0 .. 15
      BY <2>1
    <3>2. PICK n \in Nat : n = 16 * b + p
      BY <1>2, <2>1
    <3>3. d = (d0 + 12 * n) % 13
      BY <1>1, <1>4, <2>1, <3>2, SlackWalk
    <3>4. PICK spared \in {0, 12} : spared = Spared(16, d0, b)
      BY DEF Spared
    <3>5. 12 * extra + Spared(16, d0, b) + d0 + e0 <= 16 * b + p + d + e
      BY <1>6, <2>1, <3>1, <3>4
    <3> QED
      BY <3>1, <3>2, <3>3, <3>5, NarrowFew, Zenon
  <2>2. CASE letters = 32
    <3>1. b \in 0 .. 5 /\ p \in 0 .. 31
      BY <2>2
    <3>2. Spared(32, d0, b) = 0
      BY DEF Spared
    <3>3. 12 * extra + d0 + e0 <= 32 * b + p + d + e
      BY <1>6, <2>2, <3>1, <3>2
    <3> QED
      BY <3>1, <3>3, WideFew, Zenon
  <2> QED
    BY <2>1, <2>2
<1> QED
  BY <1>5, <1>7 DEF MaxLookups

\* A turnover within a bite pays for its lookup.
LEMMA PaidTurnover ==
  ASSUME NEW t, NotchedTurns(t), NEW s \in Wheels, NEW w \in Wheels,
         NEW letters, NEW letter \in Nat, NEW b \in Nat, NEW made \in Nat, NEW k,
         k = ToTurnover(w, t), Paid(letters, t, s, w, letter, made, b)
  PROVE  Paid(letters, t, s, Walk(w, t, k), letter + k, made + 1, b)
<1>1. k \in 1 .. 26
  BY NextTurnover
<1>2. Slack(Walk(w, t, k), t) + k >= Slack(w, t) + 12
  BY SlackTurnover
<1>3. Walk(w, t, k) \in Wheels
  BY <1>1, WalkType
<1>4. PICK x, y, z \in Int : x = Slack(s, t) /\ y = Slack(w, t) /\ z = Slack(Walk(w, t, k), t)
  <2>1. Slack(s, t) \in Int /\ Slack(w, t) \in Int
    BY SlackType
  <2>2. Slack(Walk(w, t, k), t) \in Int
    BY <1>3, SlackType
  <2> QED
    BY <2>1, <2>2, Zenon
<1>5. PICK spared \in {0, 12} : spared = Spared(letters, RightNear(s, t), b)
  BY DEF Spared
<1>6. 12 * (made - b) + spared + x <= letter + y
  BY <1>4, <1>5 DEF Paid
<1>7. z + k >= y + 12
  BY <1>2, <1>4
<1>8. 12 * ((made + 1) - b) + spared + x <= (letter + k) + z
  BY <1>1, <1>6, <1>7
<1> QED
  BY <1>4, <1>5, <1>8 DEF Paid

\* The lookup at the end of a bite is the one each bite has for nothing; if the
\* turnover at the end of the bite is counted on, it is there.
LEMMA PaidBite ==
  ASSUME NEW t, NotchedTurns(t), NEW s \in Wheels, NEW letters \in {16, 32},
         NEW b \in Nat, NEW p \in Nat, NEW k \in Nat \ {0}, NEW made \in Nat, NEW w,
         p + k = letters, w = Walk(s, t, letters * b + p),
         Paid(letters, t, s, w, letters * b + p, made, b)
  PROVE  Paid(letters, t, s, Walk(w, t, k), (letters * b + p) + k, made + 1, b + 1)
<1>1. PICK letter \in Nat : letter = letters * b + p
  BY SMT
<1>2. w \in Wheels
  BY <1>1, WalkType
<1> DEFINE v == Walk(w, t, k)
<1>3. v \in Wheels
  BY <1>2, WalkType
<1> HIDE DEF v
<1>4. PICK x, y, z \in Int : x = Slack(s, t) /\ y = Slack(w, t) /\ z = Slack(v, t)
  <2>1. Slack(s, t) \in Int
    BY SlackType
  <2>2. Slack(w, t) \in Int
    BY <1>2, SlackType
  <2>3. Slack(v, t) \in Int
    BY <1>3, SlackType
  <2> QED
    BY <2>1, <2>2, <2>3, Zenon
<1>5. PICK d0 \in 0 .. 12 : d0 = RightNear(s, t)
  BY SlackType
<1>6. PICK spared, spared2 \in {0, 12} :
        spared = Spared(letters, d0, b) /\ spared2 = Spared(letters, d0, b + 1)
  BY DEF Spared
<1>7. 12 * (made - b) + spared + x <= letter + y
  BY <1>1, <1>4, <1>5, <1>6 DEF Paid
<1>8. z + k >= y
  BY <1>2, <1>4, SlackWalk DEF v
<1>9. spared2 <= spared \/ z + k >= y + 12
  <2>1. CASE spared2 = 12 /\ spared = 0
    <3>1. letters = 16 /\ ((d0 = 0 /\ b = 8) \/ (d0 = 1 /\ b = 4) \/ (d0 = 2 /\ b = 0))
      BY <1>6, <2>1 DEF Spared
    <3>2. PICK n \in Nat : n + 1 = k
      OBVIOUS
    <3>3. PICK last \in Nat : last = letter + n
      OBVIOUS
    <3>4. last = 16 * b + 15
      BY <1>1, <3>1, <3>2, <3>3
    <3>5. (d0 + 12 * last) % 13 = 0
      <4>1. (0 + 12 * 143) % 13 = 0 /\ (1 + 12 * 79) % 13 = 0 /\ (2 + 12 * 15) % 13 = 0
        BY SMT
      <4>2. (d0 = 0 /\ last = 143) \/ (d0 = 1 /\ last = 79) \/ (d0 = 2 /\ last = 15)
        BY <3>1, <3>4
      <4> QED
        BY <4>1, <4>2
    <3>6. Walk(w, t, n) = Walk(s, t, last)
      BY <1>1, <3>3, WalkOn
    <3>7. RightNear(Walk(w, t, n), t) = 0
      BY <1>5, <3>5, <3>6, SlackWalk
    <3>8. Slack(Walk(w, t, n + 1), t) + (n + 1) >= Slack(w, t) + 12
      BY <1>2, <3>7, SlackTurn
    <3> QED
      BY <1>4, <3>2, <3>8 DEF v
  <2> QED
    BY <2>1
<1>10. 12 * ((made + 1) - (b + 1)) + spared2 + x <= (letter + k) + z
  BY <1>7, <1>8, <1>9
<1> QED
  BY <1>1, <1>4, <1>5, <1>6, <1>10 DEF Paid, v

Budget == Paid(size, turns, start, rings, messagePosition, Len(lookups), Len(nextBite))

\* While it runs, the loop stays within the budget; of a message that is not too
\* long, it has prepared every bite when it ends.
FewInv ==
  Vector => /\ running => Budget
            /\ ~ running /\ len <= LettersPrepared => Len(nextBite) = bitesLimit

\* What a bite and a message that is not too long allow
LEMMA ShortMessage ==
  ASSUME Ranges, Vector, len <= LettersPrepared
  PROVE  bitesLimit \in Nat /\ bitesLimit <= (IF size = 16 THEN 10 ELSE 6)
<1>1. len \in 3 .. 250 /\ bitesLimit \in Nat
  BY RangesFacts
<1>2. CASE simd = "avx2"
  <2>1. size = 32 /\ bitesLimit = (len + 31) \div 32 /\ len <= 192
    <3>1. size = 32 /\ len + 32 - 1 = len + 31
      BY <1>1, <1>2 DEF size, Bite
    <3> QED
      BY <1>2, <3>1 DEF bitesLimit, LettersPrepared
  <2>2. \A n \in 3 .. 192 : (n + 31) \div 32 <= 6
    BY SMT
  <2> QED
    BY <1>1, <2>1, <2>2
<1>3. CASE simd # "avx2"
  <2>1. size = 16 /\ bitesLimit = (len + 15) \div 16 /\ len <= 160
    <3>1. size = 16 /\ len + 16 - 1 = len + 15
      BY <1>1, <1>3 DEF size, Bite
    <3> QED
      BY <1>3, <3>1 DEF bitesLimit, LettersPrepared
  <2>2. \A n \in 3 .. 160 : (n + 15) \div 16 <= 10
    BY SMT
  <2> QED
    BY <1>1, <2>1, <2>2
<1> QED
  BY <1>2, <1>3

\* Before the first lookup nothing has been spent.
LEMMA InitFew == Init => FewInv
<1> SUFFICES ASSUME Init PROVE FewInv
  OBVIOUS
<1>1. Inv
  BY InitInv
<1>2. NotchedTurns(turns) /\ start \in Wheels
  BY <1>1, RangesFacts DEF Inv
<1>3. rings = start /\ messagePosition = 0 /\ Len(lookups) = 0 /\ Len(nextBite) = 0
      /\ running = TRUE
  BY DEF Init
<1>4. PICK x \in Int : x = Slack(start, turns)
  BY <1>2, SlackType
<1>5. Spared(size, RightNear(start, turns), 0) = 0
  BY DEF Spared
<1>6. 12 * (0 - 0) + 0 + x <= 0 + x
  OBVIOUS
<1> QED
  BY <1>3, <1>4, <1>5, <1>6 DEF FewInv, Budget, Paid

\* Of a message that is not too long, the bites still to come have lookups left.
LEMMA TurnoverKeepsFew == Inv /\ FewInv /\ TurnoverInBite => FewInv'
<1> SUFFICES ASSUME Inv, FewInv, TurnoverInBite PROVE FewInv'
  OBVIOUS
<1> DEFINE k == charsToNextTurnover
           b == Len(nextBite)
           made == Len(lookups)
           p == letterOfBite + k
<1>1. Vector /\ running /\ Ranges /\ BitesInv /\ CurrentInv /\ Budget
  BY DEF Inv, FewInv, TurnoverInBite, Vector, Lookup
<1>2. /\ key' = key /\ len' = len /\ cpu' = cpu /\ nextBite' = nextBite
      /\ inBite + k < size /\ Len(lookups') = made + 1
      /\ messagePosition' = messagePosition + k
      /\ rings' = StepAllRings([rings EXCEPT !.r = GetNextTurnover(rings, turns)], turns)
      /\ running' = (Len(lookups') < MaxLookups)
  BY <1>1 DEF TurnoverInBite, Lookup, BitesInv
<1>3. /\ simd' = simd /\ size' = size /\ turns' = turns /\ start' = start
      /\ bitesLimit' = bitesLimit /\ Vector' = Vector /\ LettersPrepared' = LettersPrepared
  BY <1>2, SameKey DEF LettersPrepared
<1>4. /\ NotchedTurns(turns) /\ start \in Wheels /\ size \in {16, 32} /\ rings \in Wheels
      /\ b \in Nat /\ made \in Nat /\ messagePosition \in Nat /\ b <= made
      /\ b < bitesLimit
  <2>1. NotchedTurns(turns) /\ start \in Wheels /\ size \in {16, 32}
    BY <1>1, RangesFacts
  <2>2. rings \in Wheels /\ b \in Nat /\ messagePosition \in Nat
    BY <1>1 DEF Ranges
  <2>3. made \in Nat /\ b <= made
    BY <1>1 DEF BitesInv
  <2>4. b < bitesLimit
    BY <1>1 DEF CurrentInv
  <2> QED
    BY <2>1, <2>2, <2>3, <2>4
<1>5. /\ letterOfBite \in Nat /\ messagePosition = size * b + letterOfBite
      /\ k = ToTurnover(rings, turns) /\ k \in 1 .. 26 /\ inBite = letterOfBite
      /\ At(messagePosition + k) = Walk(rings, turns, k)
  <2>1. /\ letterOfBite \in 0 .. size - 1 /\ messagePosition = size * b + letterOfBite
        /\ k = ToTurnover(rings, turns) /\ k \in 1 .. 26 /\ inBite = letterOfBite
        /\ \A n \in Nat : At(messagePosition + n) = Walk(rings, turns, n)
    BY <1>1, Preparing DEF lettersBefore
  <2>2. k \in Nat
    <3>1. k \in 1 .. 26
      BY <1>1, Preparing
    <3> HIDE DEF k
    <3> QED
      BY <3>1
  <2> HIDE DEF k
  <2>3. letterOfBite \in Nat
    BY <1>4, <2>1
  <2> QED
    BY <2>1, <2>2, <2>3
<1> HIDE DEF k
<1>6. rings' = Walk(rings, turns, k)
  <2>1. GetNextTurnover(rings, turns) = (rings.r + k - 1) % 26
    BY <1>4, <1>5, NextTurnover
  <2>2. k \in Nat \ {0} /\ k <= ToTurnover(rings, turns)
    <3>1. k \in 1 .. 26 /\ k = ToTurnover(rings, turns)
      BY <1>5
    <3> QED
      BY <3>1
  <2>3. StepAllRings([rings EXCEPT !.r = (rings.r + k - 1) % 26], turns) = Walk(rings, turns, k)
    BY <1>4, <2>2, JumpIsWalk
  <2> QED
    BY <1>2, <2>1, <2>3
<1>7. Paid(size, turns, start, rings', messagePosition + k, made + 1, b)
  BY <1>1, <1>4, <1>5, <1>6, PaidTurnover DEF Budget
<1>8. Budget'
  BY <1>2, <1>3, <1>7 DEF Budget
<1>9. len <= LettersPrepared => running'
  <2> SUFFICES ASSUME len <= LettersPrepared PROVE made + 1 < MaxLookups
    BY <1>2
  <2>1. b <= (IF size = 16 THEN 9 ELSE 5)
    <3>1. bitesLimit \in Nat /\ bitesLimit <= (IF size = 16 THEN 10 ELSE 6)
      BY <1>1, ShortMessage
    <3> QED
      BY <1>4, <3>1
  <2>2. p \in Nat /\ p < size
    <3>1. letterOfBite \in Nat /\ k \in 1 .. 26 /\ letterOfBite + k < size
      BY <1>2, <1>5
    <3> QED
      BY <3>1
  <2>3. messagePosition + k = size * b + p
    <3>1. PICK before \in Int : before = size * b
      BY <1>4
    <3> QED
      BY <1>5, <3>1
  <2> HIDE DEF p, b, made
  <2>4. rings' = Walk(start, turns, size * b + p)
    BY <1>5, <1>6, <2>3 DEF At
  <2>5. made + 1 \in Nat /\ b <= made + 1
    BY <1>4
  <2>6. Paid(size, turns, start, rings', size * b + p, made + 1, b)
    BY <1>7, <2>3
  <2> QED
    BY <1>4, <2>1, <2>2, <2>4, <2>5, <2>6, FewLookups
<1> QED
  BY <1>2, <1>3, <1>8, <1>9 DEF FewInv

\* The lookup at the end of a bite is the one it has anyway.
LEMMA EndOfBiteKeepsFew == Inv /\ FewInv /\ EndOfBite => FewInv'
<1> SUFFICES ASSUME Inv, FewInv, EndOfBite PROVE FewInv'
  OBVIOUS
<1> DEFINE p == letterOfBite
           k == size - p
           b == Len(nextBite)
           made == Len(lookups)
<1>1. Vector /\ running /\ Ranges /\ BitesInv /\ CurrentInv /\ Budget
  BY DEF Inv, FewInv, EndOfBite, Vector, Lookup
<1>2. /\ key' = key /\ len' = len /\ cpu' = cpu /\ Len(nextBite') = b + 1
      /\ Len(lookups') = made + 1
      /\ messagePosition' = messagePosition + size - inBite
      /\ running' = (Len(nextBite') < bitesLimit /\ Len(lookups') < MaxLookups)
  <2>1. lookups \in Seq(LookupRecord) /\ nextBite \in Seq(Nat)
    BY <1>1 DEF BitesInv, Ranges
  <2> QED
    BY <2>1 DEF EndOfBite, Lookup
<1>3. /\ simd' = simd /\ size' = size /\ turns' = turns /\ start' = start
      /\ bitesLimit' = bitesLimit /\ Vector' = Vector /\ LettersPrepared' = LettersPrepared
  BY <1>2, SameKey DEF LettersPrepared
<1>4. /\ NotchedTurns(turns) /\ start \in Wheels /\ size \in {16, 32} /\ rings \in Wheels
      /\ b \in Nat /\ made \in Nat /\ messagePosition \in Nat /\ b <= made
      /\ b < bitesLimit /\ rings = At(messagePosition) /\ bitesLimit \in Nat
  <2>1. NotchedTurns(turns) /\ start \in Wheels /\ size \in {16, 32} /\ bitesLimit \in Nat
    BY <1>1, RangesFacts
  <2>2. rings \in Wheels /\ b \in Nat /\ messagePosition \in Nat
    BY <1>1 DEF Ranges
  <2>3. made \in Nat /\ b <= made
    BY <1>1 DEF BitesInv
  <2>4. b < bitesLimit /\ rings = At(messagePosition)
    BY <1>1 DEF CurrentInv
  <2> QED
    BY <2>1, <2>2, <2>3, <2>4
<1>5. /\ p \in 0 .. size - 1 /\ messagePosition = size * b + p /\ inBite = p
  BY <1>1, Preparing DEF lettersBefore
<1> HIDE DEF p
<1>6. k \in Nat \ {0} /\ p \in Nat /\ p + k = size /\ messagePosition' = messagePosition + k
  BY <1>2, <1>4, <1>5
<1>7. rings' = Walk(rings, turns, k)
  BY EndOfBiteWalks DEF p
<1>8. Paid(size, turns, start, rings', messagePosition + k, made + 1, b + 1)
  <2>1. rings = Walk(start, turns, size * b + p)
    BY <1>4, <1>5 DEF At
  <2>2. Paid(size, turns, start, rings, size * b + p, made, b)
    BY <1>1, <1>5 DEF Budget
  <2> HIDE DEF k, b, made
  <2>3. Paid(size, turns, start, Walk(rings, turns, k), (size * b + p) + k, made + 1, b + 1)
    BY <1>4, <1>6, <2>1, <2>2, PaidBite, ZenonT(40)
  <2> QED
    BY <1>5, <1>7, <2>3
<1>9. Budget'
  BY <1>2, <1>3, <1>6, <1>8 DEF Budget
<1>10. len <= LettersPrepared /\ b + 1 < bitesLimit => running'
  <2> SUFFICES ASSUME len <= LettersPrepared, b + 1 < bitesLimit PROVE made + 1 < MaxLookups
    BY <1>2
  <2>1. b + 1 <= (IF size = 16 THEN 9 ELSE 5)
    <3>1. bitesLimit \in Nat /\ bitesLimit <= (IF size = 16 THEN 10 ELSE 6)
      BY <1>1, ShortMessage
    <3> QED
      BY <1>4, <3>1
  <2>2. messagePosition + k = size * (b + 1) + 0 /\ messagePosition \in Nat
    <3>1. size * (b + 1) = size * b + size /\ size * b \in Nat
      BY <1>4, Bites
    <3>2. PICK before \in Nat : before = size * b
      BY <3>1
    <3> QED
      BY <1>4, <1>5, <1>6, <3>1, <3>2
  <2> HIDE DEF b, made, k
  <2>3. messagePosition + k \in Nat /\ k \in Nat
    BY <1>6, <2>2
  <2>4. rings' = Walk(start, turns, size * (b + 1) + 0)
    <3>1. Walk(Walk(start, turns, messagePosition), turns, k)
            = Walk(start, turns, messagePosition + k)
      BY <2>2, <2>3, WalkOn
    <3> QED
      BY <1>4, <1>7, <2>2, <3>1 DEF At
  <2>5. b + 1 \in Nat /\ made + 1 \in Nat /\ b + 1 <= made + 1
    BY <1>4
  <2>6. Paid(size, turns, start, rings', size * (b + 1) + 0, made + 1, b + 1)
    BY <1>8, <2>2
  <2>7. 0 \in Nat /\ 0 < size
    BY <1>4
  <2> QED
    BY <1>4, <2>1, <2>4, <2>5, <2>6, <2>7, FewLookups
<1>11. ~ (b + 1 < bitesLimit) => b + 1 = bitesLimit
  BY <1>4
<1> QED
  BY <1>2, <1>3, <1>9, <1>10, <1>11 DEF FewInv

\* Deciphering does not touch what was prepared.
LEMMA OthersKeepFew ==
  ASSUME Inv, FewInv, init_path_lookup \/ DecodeMessage \/ DecodeBite \/ UNCHANGED vars
  PROVE  FewInv'
<1>1. CASE init_path_lookup
  <2>1. key' = key /\ len' = len /\ cpu' = cpu /\ ~ Vector
    BY <1>1 DEF init_path_lookup, Vector
  <2>2. Vector' = Vector
    BY <2>1, SameKey
  <2> QED
    BY <2>1, <2>2 DEF FewInv
<1>2. CASE DecodeMessage \/ DecodeBite \/ UNCHANGED vars
  <2>1. UNCHANGED prepared
    BY <1>2 DEF DecodeMessage, DecodeBite, vars
  <2>2. /\ key' = key /\ len' = len /\ cpu' = cpu /\ rings' = rings /\ running' = running
        /\ messagePosition' = messagePosition /\ lookups' = lookups /\ nextBite' = nextBite
    BY <2>1 DEF prepared
  <2>3. /\ simd' = simd /\ size' = size /\ turns' = turns /\ start' = start
        /\ bitesLimit' = bitesLimit /\ Vector' = Vector /\ LettersPrepared' = LettersPrepared
    BY <2>2, SameKey DEF LettersPrepared
  <2>4. Budget' = Budget
    BY <2>2, <2>3 DEF Budget
  <2> QED
    BY <2>2, <2>3, <2>4 DEF FewInv
<1> QED
  BY <1>1, <1>2

\* The lookups of a whole message are within the budget.
THEOREM LookupsWithinBudget == Spec => [](Inv /\ FewInv)
<1>1. Init => Inv /\ FewInv
  BY InitInv, InitFew
<1>2. Inv /\ FewInv /\ [Next]_vars => (Inv /\ FewInv)'
  <2>1. Inv /\ [Next]_vars => Inv'
    BY TurnoverKeepsInv, EndOfBiteKeepsInv, PathLookupKeepsInv, DecodeKeepsInv,
       DecodeBiteKeepsInv, StutterKeepsInv DEF Next
  <2>2. Inv /\ FewInv /\ [Next]_vars => FewInv'
    BY TurnoverKeepsFew, EndOfBiteKeepsFew, OthersKeepFew DEF Next
  <2> QED
    BY <2>1, <2>2
<1> QED
  BY <1>1, <1>2, PTL DEF Spec

\* Twenty-four lookups are enough for every message of up to 160 letters, or 192
\* by the wide tables, whatever the wheels, their notches and where they start.
\* Longer messages are not always prepared to their end.
THEOREM ShortMessagesPrepared == Spec => [](len <= LettersPrepared => AllBitesPrepared)
<1>1. FewInv => (len <= LettersPrepared => AllBitesPrepared)
  BY DEF FewInv, AllBitesPrepared, Vector
<1> QED
  BY <1>1, LookupsWithinBudget, PTL

\* Each letter is under one mask of its bite, if that was prepared, and its lane is
\* the machine's.
LEMMA InvGivesDecoded == Inv /\ FewInv => DecodedAsMachine
<1> SUFFICES ASSUME Inv, FewInv, len <= LettersPrepared \/ messageBite <= Len(nextBite)
             PROVE  LET first == IF simd = "basic" THEN 0 ELSE size * (messageBite - 1)
                    IN \A c \in DOMAIN plain :
                         plain[c] = Enigma(key, stbrett, Pressed(c), ciphertext[first + c])
  BY DEF DecodedAsMachine
<1>1. /\ Ranges /\ size \in {16, 32} /\ At(0) = start
      /\ \A n : Pressed(n) = Walk(machine, turns, n)
  BY RangesFacts, PressedIsWalk DEF Inv
<1>2. CASE simd = "basic"
  <2>1. BasicInv
    BY <1>2 DEF Inv, Vector
  <2>2. ASSUME NEW c \in DOMAIN plain
        PROVE  plain[c] = Enigma(key, stbrett, Pressed(c), ciphertext[0 + c])
    <3>1. c \in 0 .. len - 1 /\ plain[c] = Enigma(key, stbrett, At(c), ciphertext[c])
      BY <2>1 DEF BasicInv
    <3>2. At(c) = Pressed(c)
      BY <1>1, <2>1 DEF BasicInv, At
    <3>3. 0 + c = c
      BY <3>1
    <3> QED
      BY <3>1, <3>2, <3>3
  <2> QED
    BY <1>2, <2>2
<1>3. CASE simd # "basic"
  <2> DEFINE first == size * (messageBite - 1)
  <2>1. DecodedInv
    BY <1>3 DEF Inv, Vector
  <2>2. CASE messageBite = 0
    <3>1. DOMAIN plain = {}
      BY <2>1, <2>2 DEF DecodedInv
    <3> QED
      BY <1>3, <3>1
  <2>3. CASE messageBite # 0
    <3>1. messageBite > 0 /\ messageBite - 1 \in Nat
      <4>1. messageBite \in Nat
        BY <1>1, RangesFacts DEF Ranges
      <4> QED
        BY <2>3, <4>1
    <3>2. first \in Nat
      BY <1>1, <3>1, Bites
    <3>3. messageBite <= Len(nextBite)
      <4>1. ~ running
        BY <1>3, <2>3 DEF Inv, Vector, CurrentInv
      <4>2. len <= LettersPrepared => Len(nextBite) = bitesLimit
        BY <1>3, <4>1 DEF FewInv, Vector
      <4>3. messageBite <= bitesLimit
        BY <1>1, RangesFacts DEF Ranges
      <4> QED
        BY <4>2, <4>3
    <3>4. machine = At(first) /\ DOMAIN plain = 0 .. size - 1
          /\ \A c \in 0 .. size - 1 :
               plain[c] = Enigma(key, stbrett, At(first + c), ciphertext[first + c])
      BY <2>1, <3>1, <3>3 DEF DecodedInv
    <3>5. ASSUME NEW c \in 0 .. size - 1 PROVE At(first + c) = Pressed(c)
      <4>1. c \in Nat
        BY <1>1
      <4> HIDE DEF first
      <4>2. Walk(Walk(start, turns, first), turns, c) = Walk(start, turns, first + c)
        BY <3>2, <4>1, WalkOn
      <4> QED
        BY <1>1, <3>4, <4>2 DEF At
    <3> QED
      BY <1>3, <3>4, <3>5
  <2> QED
    BY <2>2, <2>3
<1> QED
  BY <1>2, <1>3

\* With every processor, with and without vectors, for every wiring of the
\* wheels and the plugboard, every letter of a message that is not too long is
\* deciphered as the machine would, and of a longer one every letter of the
\* bites that were prepared.
THEOREM AlwaysDecodedAsMachine == Spec => []DecodedAsMachine
BY LookupsWithinBudget, InvGivesDecoded, PTL
=============================================================================
