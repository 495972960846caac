------------------------------ MODULE MCHidOpen ------------------------------
(* Every list of up to three interfaces.                                   *)
EXTENDS HidOpen

ShortLists == UNION {[1 .. n -> Interface] : n \in 0 .. 2} \union
  {l \in [1 .. 3 -> Interface] : l[1].detail /\ l[2].detail /\ l[1].opens}
=============================================================================
