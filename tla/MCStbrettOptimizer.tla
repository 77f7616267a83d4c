------------------------- MODULE MCStbrettOptimizer --------------------------
(***************************************************************************)
(* Both optimizers on six letters: two plugs and two letters without one   *)
(* is where all cases of Krah's optimizer meet.  The scores are rugged on  *)
(* purpose, and disagree with each other, so that phases undo what others  *)
(* have done and the rounds repeat.                                        *)
(***************************************************************************)
EXTENDS StbrettOptimizer, FiniteSetsExt

MCScorings == 1 .. 80

Weight(kind) == CASE kind = "ic" -> 3 [] kind = "uni" -> 5
                  [] kind = "bi" -> 7 [] kind = "tri" -> 11

Rugged(kind, s, b) ==
  MapThenSumSet(LAMBDA a : ((a + s) * (b[a] + Weight(kind)) * (3 * b[a] + a + s)) % 23,
                Letters) % 31

Table == [kind \in {"ic", "uni", "bi", "tri"} |->
            [s \in MCScorings |-> [b \in Involutions |-> Rugged(kind, s, b)]]]

MCScore(kind, s, b) ==
  IF b \in DOMAIN Table[kind][s] THEN Table[kind][s][b] ELSE Rugged(kind, s, b)

Counted(counts) == [a \in Letters |-> counts[a + 1]]

\* By the letter frequencies of two messages, and drawn at random.
MCOrders ==
  {set_to_ct_freq(Counted(<< 4, 0, 2, 7, 2, 1 >>)),
   set_to_ct_freq(Counted(<< 0, 0, 3, 0, 0, 0 >>)),
   rand_var(Unplugged, << 1, 0, 2, 4, 3 >>)}
=============================================================================
