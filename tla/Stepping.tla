------------------------------ MODULE Stepping -------------------------------
(***************************************************************************)
(* How the wheels move (include/cipher_inlines.h, include/echar, and       *)
(* scrambler_state in src/cipher.c).  A wheel is kept as its offset, the   *)
(* message setting less the ring setting, and a notch as the offset at     *)
(* which the wheel lets its neighbour turn with the next key pressed.  The *)
(* paths through the wheels depend on these offsets only.                  *)
(***************************************************************************)
EXTENDS KeySpace

\* Notches of wheels 1 to 8, the first ones of wheels 6, 7 and 8
wal_turn == << 16, 4, 21, 9, 25, 12, 12, 12 >>
turnover_second_notch == 25
turnover_absent == 255

Int8(x) == IF x > 127 THEN x - 256 ELSE x

MutantSub(a, b) == a - b                 \* mutant: no wrap
echar_delta_sub(a, b) == (a - b) % 26

turnover_sub_echar_delta(notch, ring) ==
  IF notch = turnover_absent THEN notch ELSE (notch - ring) % 26

\* The notch that comes next.  Of two, t1 is the lower one.
MutantSelect(ed, t1, t2) == t1           \* mutant: the second notch is forgotten
turnover_select_next(ed, t1, t2) ==
  IF ed <= t1 THEN t1 ELSE IF Int8(ed) <= Int8(t2) THEN t2 ELSE t1

Offsets(key) == [r |-> echar_delta_sub(key.mesg.r, key.ring.r),
                 m |-> echar_delta_sub(key.mesg.m, key.ring.m),
                 l |-> key.mesg.l]

second_notch(wheel, ring) ==
  IF wheel > 5 THEN turnover_sub_echar_delta(turnover_second_notch, ring)
               ELSE turnover_absent

Turnovers(key) ==
  [r  |-> turnover_sub_echar_delta(wal_turn[key.slot.r], key.ring.r),
   m  |-> turnover_sub_echar_delta(wal_turn[key.slot.m], key.ring.m),
   r2 |-> second_notch(key.slot.r, key.ring.r),
   m2 |-> second_notch(key.slot.m, key.ring.m)]

MiddleAtNotch(rings, turns) == rings.m \in {turns.m, turns.m2}
RightAtNotch(rings, turns)  == rings.r \in {turns.r, turns.r2}

\* One key pressed.  A middle wheel at its notch moves itself, too.
StepAllRings(rings, turns) ==
  LET p3 == MiddleAtNotch(rings, turns)
      p2 == RightAtNotch(rings, turns) \/ p3
  IN [r |-> (rings.r + 1) % 26,
      m |-> IF p2 THEN (rings.m + 1) % 26 ELSE rings.m,
      l |-> IF p3 THEN (rings.l + 1) % 26 ELSE rings.l]

\* Mutant: no double step.
MutantNextTurnover(rings, turns) ==
  IF turns.r2 = turnover_absent THEN turns.r
  ELSE turnover_select_next(rings.r, turns.r, turns.r2)

\* The offset of the right wheel when the middle wheel turns next
GetNextTurnover(rings, turns) ==
  IF MiddleAtNotch(rings, turns) THEN rings.r
  ELSE IF turns.r2 = turnover_absent THEN turns.r
  ELSE turnover_select_next(rings.r, turns.r, turns.r2)

MutantTooLate(steps, len) == steps > len
TooLate(steps, len) == steps >= len

\* Whether and when the slow wheel moves while len letters are deciphered
scrambler_state(key, len) ==
  LET offset == Offsets(key)
      turns  == Turnovers(key)
      m_to_rotate ==
        echar_delta_sub(turnover_select_next(offset.m, turns.m, turns.m2), offset.m)
      r_to_rotate ==
        echar_delta_sub(turnover_select_next(offset.r, turns.r, turns.r2), offset.r)
      between_m_rots == IF turns.r2 = turnover_absent THEN 26 ELSE 13
      steps_to_l_rot == r_to_rotate + 1 + between_m_rots * (m_to_rotate - 1)
  IN IF m_to_rotate = 0 THEN "SW_ONSTART"
     ELSE IF TooLate(steps_to_l_rot, len) THEN "SW_NONE"
     ELSE "SW_OTHER"

\* Mutant: -x tries what stays at rest.
MutantIsEndloop(sw_mode, key, len) ==
  CASE sw_mode = "SW_ONSTART" -> scrambler_state(key, len) # "SW_ONSTART"
    [] sw_mode = "SW_OTHER"   -> scrambler_state(key, len) = "SW_NONE"
    [] sw_mode = "SW_ALL"     -> scrambler_state(key, len) = "SW_NONE"
    [] sw_mode = "SINGLE_KEY" -> FALSE

\* The keys hillclimb skips, by the mode of the search
scrambler_state_is_endloop(sw_mode, key, len) ==
  CASE sw_mode = "SW_ONSTART" -> scrambler_state(key, len) # "SW_ONSTART"
    [] sw_mode = "SW_OTHER"   -> scrambler_state(key, len) # "SW_OTHER"
    [] sw_mode = "SW_ALL"     -> scrambler_state(key, len) = "SW_NONE"
    [] sw_mode = "SINGLE_KEY" -> FALSE
=============================================================================
