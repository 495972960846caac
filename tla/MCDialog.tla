------------------------------- MODULE MCDialog -------------------------------
(* Words of two bytes, and packets of which an image of three words takes  *)
(* three each way with different cuts.  Of the two such images one agrees  *)
(* with the flag word that lies inside it, the other contradicts it and    *)
(* has a tail, as has the image of one word.  A file without a word ends   *)
(* in a call that does not return.                                         *)
EXTENDS Dialog

Bits == {0, 1}

FlagWords == << <<2, <<1, 0>>>>, <<3, <<0, 1>>>> >>

Image(n, f) == [a \in 0 .. 7 |-> IF a < n THEN f[a + 1] ELSE 0]

Accepted(n, f) == [kind |-> "accepted", len |-> n, out |-> Image(n, f)]

Files ==
  { [kind |-> "none", len |-> 0, out |-> Image(0, <<>>)],
    [kind |-> "unopened", len |-> 0, out |-> Image(0, <<>>)],
    [kind |-> "rejected", len |-> 1, out |-> Image(1, <<1>>)],
    Accepted(3, <<1, 1, 0>>),
    Accepted(6, <<1, 0, 0, 1, 1, 0>>),
    Accepted(7, <<0, 1, 1, 0, 1, 1, 1>>) }

EveryFault == FaultKinds
=============================================================================
