----------------------------- MODULE CipherPath ------------------------------
(***************************************************************************)
(* The way of a letter through the wheels (src/cipher.c, cipher_inlines.h, *)
(* include/echar).  A wheel turned by an offset maps c to the table entry  *)
(* at c + offset, less the offset.  The code never takes the offset of a   *)
(* wheel off: it adds the difference to the next wheel instead, and reads  *)
(* tables of twice the length so that the sum needs no wrap.  The tables   *)
(* are parameters: what the paths have in common does not depend on them.  *)
(***************************************************************************)
EXTENDS Stepping

CONSTANTS
  wal,       \* wheels forward, by their number; 0 is the missing Greek wheel
  rev_wal,   \* and backward
  ukw        \* reflectors

ASSUME TablesAssumption ==
  /\ \A w \in 0 .. 10 :
       /\ wal[w] \in [Letter -> Letter] /\ rev_wal[w] \in [Letter -> Letter]
       /\ \A c \in Letter : /\ rev_wal[w][wal[w][c]] = c
                            /\ wal[w][rev_wal[w][c]] = c
  /\ wal[NoWheel] = [c \in Letter |-> c]
  /\ \A u \in 0 .. 4 :
       /\ ukw[u] \in [Letter -> Letter]
       /\ \A c \in Letter : ukw[u][c] # c /\ ukw[u][ukw[u][c]] = c

echar_sub_delta(c, sub) == IF c < sub THEN c - sub + 26 ELSE c - sub
echar_delta_invert(d)   == IF d = 0 THEN 0 ELSE 26 - d
AddMod26(a, b)          == IF a + b >= 26 THEN a + b - 26 ELSE a + b

\* Two copies of the table, one behind the other, read at c + offset
flat(map, c, offset) == map[IF c + offset < 26 THEN c + offset ELSE c + offset - 26]

\* Mutant: the offset of the middle wheel is carried on to the reflector.
MutantRotors3(key, rings, k) ==
  LET m == rings.m  l == rings.l
      in  == flat(wal[key.slot.l], flat(wal[key.slot.m], k, m), echar_delta_sub(l, m))
      out == flat(rev_wal[key.slot.l],
                  flat(ukw[key.ukw], in, echar_delta_sub(m, l)), l)
  IN echar_sub_delta(flat(rev_wal[key.slot.m], out, echar_delta_sub(m, l)), m)

\* Through the middle and the left wheel to the reflector and back
CalculatePermutationMap3Rotors(key, rings, k) ==
  LET m == rings.m  l == rings.l
      in  == flat(wal[key.slot.l], flat(wal[key.slot.m], k, m), echar_delta_sub(l, m))
      out == flat(rev_wal[key.slot.l],
                  flat(ukw[key.ukw], in, echar_delta_invert(l)), l)
  IN echar_sub_delta(flat(rev_wal[key.slot.m], out, echar_delta_sub(m, l)), m)

\* The same with the Greek wheel of the M4
CalculatePermutationMap4Rotors(key, rings, k) ==
  LET m == rings.m  l == rings.l  g == key.mesg.g
      left  == flat(wal[key.slot.l], flat(wal[key.slot.m], k, m), echar_delta_sub(l, m))
      in    == flat(wal[key.slot.g], left, echar_delta_sub(g, l))
      out   == flat(rev_wal[key.slot.g],
                    flat(ukw[key.ukw], in, echar_delta_invert(g)), g)
      right == flat(rev_wal[key.slot.l], out, echar_delta_sub(l, g))
  IN echar_sub_delta(flat(rev_wal[key.slot.m], right, echar_delta_sub(m, l)), m)

\* Row of path_lookup, all wheels, models H and M3
path_lookup_H_M3(key, rings, k) ==
  LET r == rings.r  m == rings.m  l == rings.l
      mid   == flat(wal[key.slot.m], flat(wal[key.slot.r], k, r), echar_delta_sub(m, r))
      in    == flat(wal[key.slot.l], mid, echar_delta_sub(l, m))
      out   == flat(rev_wal[key.slot.l],
                    flat(ukw[key.ukw], in, echar_delta_invert(l)), l)
      back  == flat(rev_wal[key.slot.m], out, echar_delta_sub(m, l))
  IN echar_sub_delta(flat(rev_wal[key.slot.r], back, echar_delta_sub(r, m)), r)

\* Row of path_lookup, all models
path_lookup_ALL(key, rings, k) ==
  LET r == rings.r  m == rings.m  l == rings.l  g == key.mesg.g
      mid   == flat(wal[key.slot.m], flat(wal[key.slot.r], k, r), echar_delta_sub(m, r))
      left  == flat(wal[key.slot.l], mid, echar_delta_sub(l, m))
      in    == flat(wal[key.slot.g], left, echar_delta_sub(g, l))
      out   == flat(rev_wal[key.slot.g],
                    flat(ukw[key.ukw], in, echar_delta_invert(g)), g)
      right == flat(rev_wal[key.slot.l], out, echar_delta_sub(l, g))
      back  == flat(rev_wal[key.slot.m], right, echar_delta_sub(m, l))
  IN echar_sub_delta(flat(rev_wal[key.slot.r], back, echar_delta_sub(r, m)), r)

-----------------------------------------------------------------------------
(* The byte shuffles of the vectorised decoders, one lane of them.         *)

\* pshufb: nothing where the highest bit of the index is set
shuffle_epi8(half, index) == IF index >= 128 THEN 0 ELSE half[index % 16]

\* A map of 26 letters in two halves of 16 bytes, its tail from the front
\* (FixPermutationMapTail).  Adding 0x70 makes the index of a letter behind
\* the fifteenth one with the highest bit set.
PermuteVec(map, letter) ==
  LET index == (letter + 112) % 256
      low   == [b \in 0 .. 15 |-> map[b]]
      high  == [b \in 0 .. 15 |-> map[(16 + b) % 26]]
  IN shuffle_epi8(low, index) + shuffle_epi8(high, (index + 128) % 256)

\* Through the right wheel, forward with r_ring[0], backward with r_ring[1]
ThroughRight(r_ring, letter, offset) ==
  echar_sub_delta(PermuteVec(r_ring, AddMod26(letter, offset)), offset)

-----------------------------------------------------------------------------
(* The machine, wheel by wheel.                                            *)

Turned(map, offset, c) == echar_sub_delta(map[AddMod26(c, offset)], offset)

Machine(key, rings, c) ==
  LET r == Turned(wal[key.slot.r], rings.r, c)
      m == Turned(wal[key.slot.m], rings.m, r)
      l == Turned(wal[key.slot.l], rings.l, m)
      g == Turned(wal[key.slot.g], key.mesg.g, l)
      u == Turned(rev_wal[key.slot.g], key.mesg.g, ukw[key.ukw][g])
  IN Turned(rev_wal[key.slot.r], rings.r,
       Turned(rev_wal[key.slot.m], rings.m, Turned(rev_wal[key.slot.l], rings.l, u)))

\* With the plugboard before and behind the wheels
Enigma(key, stbrett, rings, c) == stbrett[Machine(key, rings, stbrett[c])]
=============================================================================
