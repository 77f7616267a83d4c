---------------------------- MODULE MCResumeFile -----------------------------
(***************************************************************************)
(* Searches of the three models over ranges between the ends of the order  *)
(* of keys, with numbers as long as they can be, and six letters of a      *)
(* plugboard.  What a user writes is a key of this or another model, a     *)
(* ring behind the shortcut, a wheel used twice or not there, a number too *)
(* large, negative or followed by something, plugs of an odd number of     *)
(* letters or with one letter twice.                                       *)
(***************************************************************************)
EXTENDS ResumeFile

Setting(model, ukw, wheels, m, r, mesg) ==
  [model |-> model, ukw |-> ukw,
   slot |-> [g |-> IF model = "M4" THEN Gamma ELSE NoWheel,
             l |-> wheels[1], m |-> wheels[2], r |-> wheels[3]],
   ring |-> [m |-> m, r |-> r],
   mesg |-> [g |-> IF model = "M4" THEN mesg ELSE 0, l |-> 0, m |-> mesg, r |-> 25]]

Lowest  == [model \in Models |-> init_key_low(model)]
Within  == [model \in Models |-> Setting(model, LowUkw(model) + 1, << 5, 1, 4 >>, 25, 13, 7)]
Highest == [H  |-> Setting("H", 2, << 5, 4, 3 >>, 25, 25, 25),
            M3 |-> Setting("M3", 2, << 8, 7, 6 >>, 12, 12, 25),
            M4 |-> Setting("M4", 4, << 8, 7, 6 >>, 12, 12, 25)]

State(from, ckey, to, gkey, sw_mode, pass, firstpass, stbrett, score) ==
  [from |-> from, to |-> to, ckey |-> ckey, gkey |-> gkey,
   sw_mode |-> sw_mode, pass |-> pass, firstpass |-> firstpass,
   stbrett |-> stbrett, plugs |-> get_stecker(stbrett), score |-> score]

Positions(model) ==
  {<< Lowest[model], Lowest[model], Highest[model] >>,
   << Lowest[model], Within[model], Highest[model] >>,
   << Within[model], Highest[model], Highest[model] >>,
   << Within[model], Within[model], Within[model] >>}

Saved(model, sw_mode, pass, stbrett, score) ==
  State(Lowest[model], Within[model], Highest[model], Highest[model],
        sw_mode, pass, FALSE, stbrett, score)

ThreePlugs == << 3, 4, 5, 0, 1, 2 >>

MCSearches ==
  UNION {{State(k[1], k[2], k[3], k[2], 2, MAX_SCORE, TRUE, Unplugged, 0) :
            k \in Positions(model)}
         \cup {Saved(model, 0, 1, stbrett, 40137) : stbrett \in Involutions}
         \cup {Saved(model, sw_mode, pass, [a \in Letters |-> ThreePlugs[a + 1]], score) :
                  sw_mode \in SwModes, pass \in {0, 300, MAX_SCORE},
                  score \in {9, MAX_SCORE}}
           : model \in Models}

MCKeyTexts ==
  {[print_key_rings(key) EXCEPT !.walze = walze, !.ring = ring] :
     key \in {Within["H"], Within["M3"], Within["M4"]},
     walze \in {<< 1, 2, 6 >>, << 8, 4, 5 >>, << 1, 2, 1 >>, << 9, 2, 1 >>},
     ring \in {<< 0, 12 >>, << 13, 0 >>, << 0, 13 >>}}

MCNumbers ==
  {Number(n) : n \in {-1, 0, 2, 3, MAX_SCORE, INT_MAX}}
  \cup {[value |-> 1, clean |-> FALSE]}

MCLists == {<< >>, << 0 >>, << 0, 1 >>, << 0, 1, 1, 2 >>, << 5, 0, 3, 1 >>}

\* A user who writes zero for a wheel.
ZeroWheelTexts ==
  {[print_key_rings(key) EXCEPT !.walze = << 0, 4, 5 >>] : key \in {Within["H"], Within["M3"]}}
=============================================================================
