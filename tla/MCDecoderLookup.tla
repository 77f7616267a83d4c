--------------------------- MODULE MCDecoderLookup ---------------------------
(***************************************************************************)
(* Right wheels with one and with two notches, in all their message        *)
(* settings and the ring settings at the ends of the range of wheels with  *)
(* two, and middle wheels of both kinds that are at a notch, one step      *)
(* before it, or behind it.  What the left wheel does the middle decides.  *)
(***************************************************************************)
EXTENDS DecoderLookup, Wheels

RightSettings ==
  {[wheel |-> w, ring |-> ring, mesg |-> mesg] :
     w \in {1, 6}, ring \in {0, 12}, mesg \in Letter}

MiddleSettings ==
  {[wheel |-> 3, ring |-> 0, mesg |-> mesg] : mesg \in {20, 21, 22}}
  \cup {[wheel |-> 7, ring |-> 12, mesg |-> mesg] : mesg \in {11, 12, 25}}

KeyWith(right, middle) ==
  [model |-> "M3", ukw |-> 1,
   slot |-> [g |-> NoWheel, l |-> 2, m |-> middle.wheel, r |-> right.wheel],
   ring |-> [m |-> middle.ring, r |-> right.ring],
   mesg |-> [g |-> 0, l |-> 25, m |-> middle.mesg, r |-> right.mesg]]

M3Keys == {KeyWith(right, middle) :
             right \in {s \in RightSettings : s.ring < RingLimit(s.wheel)},
             middle \in MiddleSettings}

\* The other models: both Greek wheels in several positions, and reflectors
\* of every kind.
H(k)  == [k EXCEPT !.model = "H", !.ukw = k.mesg.r % 3,
                   !.slot.r = 4, !.slot.m = 5, !.mesg.m = 25]
M4(k) == [k EXCEPT !.model = "M4", !.ukw = 3 + (k.mesg.m % 2),
                   !.slot.g = 9 + (k.mesg.r % 2), !.slot.l = 8,
                   !.mesg.g = 3 * (k.mesg.r % 9)]
FewKeys == {KeyWith(right, middle) :
              right \in {[wheel |-> 6, ring |-> ring, mesg |-> mesg] :
                           ring \in {0, 12}, mesg \in {0, 7, 12, 25}},
              middle \in {[wheel |-> 7, ring |-> 12, mesg |-> mesg] : mesg \in {11, 12}}}

OtherKeys == {H(k) : k \in FewKeys} \cup {M4(k) : k \in FewKeys}

On(keys, lengths, cpus) ==
  {[key |-> k, len |-> letters, cpu |-> flags] :
     k \in keys, letters \in lengths, flags \in cpus}

\* With vectors, messages of as many letters as the lookups suffice for by each
\* of the tables, of which one is too many for the other; without, shorter ones
MCCalls == On(M3Keys \cup OtherKeys, {160, 192}, {{"ssse3"}, {"ssse3", "avx", "avx2"}})
           \cup On(FewKeys \cup OtherKeys, {64}, {{}, {"ssse3", "avx"}})

LongMessageKeys == {KeyWith([wheel |-> w, ring |-> 0, mesg |-> 0],
                            [wheel |-> 3, ring |-> 0, mesg |-> 0]) : w \in {1, 6}}

LongCalls == On(LongMessageKeys, {100, 250}, {{"ssse3"}, {"ssse3", "avx", "avx2"}})

\* Two plugs and a text in which every letter meets every lane
Board == [c \in Letter |-> CASE c = 0 -> 25 [] c = 25 -> 0 [] c = 3 -> 17 [] c = 17 -> 3
                             [] OTHER -> c]
Text == [i \in 0 .. 255 |-> (5 * i + i \div 26) % 26]
=============================================================================
