----------------------------- MODULE MCKeySweep -----------------------------
(***************************************************************************)
(* Sweeps of all three models, from every choice of wheels and reflector,  *)
(* with ring and message settings at, one before and two before a carry.   *)
(***************************************************************************)
EXTENDS KeySweep

BoundaryMesg(model) ==
  {m \in [g : {0, 25}, l : {24, 25}, m : {25}, r : {24, 25}] :
     model = "M4" \/ m.g = 0}

BoundaryRing(slot) ==
  [m : {0, RingLimit(slot.m) - 1}, r : {11, RingLimit(slot.r) - 1}]

DistinctWheels(model) ==
  {s \in [g : Greek(model), l : Wheel(model), m : Wheel(model), r : Wheel(model)] :
     s.l # s.m /\ s.l # s.r /\ s.m # s.r}

MCStartKeys ==
  UNION {UNION {[model : {model}, ukw : Ukw(model), slot : {s},
                 ring : BoundaryRing(s), mesg : BoundaryMesg(model)] :
                   s \in DistinctWheels(model)} : model \in Models}
=============================================================================
