------------------------------ MODULE MCDownload ------------------------------
(* Words of two bytes and packets of two or three: an image of nine bytes  *)
(* takes three packets each way, with different cuts.  The first flag word *)
(* lies inside the longest images.                                         *)
EXTENDS Download

Bits == {0, 1}

FlagWords == << <<3, <<1, 0>>>>, <<4, <<1, 1>>>>, <<5, <<0, 1>>>> >>

NoImage == [a \in 0 .. 11 |-> 0]

Image(n, f) == [a \in 0 .. 11 |-> IF a < n THEN f[a] ELSE 0]

Unloadable ==
  { [kind |-> "none", len |-> 0, out |-> NoImage],
    [kind |-> "unopened", len |-> 0, out |-> NoImage],
    [kind |-> "rejected", len |-> 1, out |-> NoImage],
    [kind |-> "rejected", len |-> 1, out |-> [NoImage EXCEPT ![0] = 1, ![3] = 1]] }

Accepted(n) ==
  {[kind |-> "accepted", len |-> n, out |-> Image(n, f)] : f \in [0 .. n - 1 -> Bits]}

EveryLoad == Unloadable \union UNION {Accepted(n) : n \in 1 .. 9}

(* Images of which the last packet reads the same bytes as the one before, *)
(* that are not what is read where nothing was written, and that no flag   *)
(* word touches.                                                           *)
Repeating ==
  {l \in Accepted(8) : /\ l.out[0] = 1 /\ l.out[1] = 0 /\ l.out[2] = 1
                       /\ \A a \in 2 .. 4 : l.out[a + 3] = l.out[a]}

FarFlagWords == << <<4, <<1, 1>>>>, <<5, <<0, 1>>>> >>

NoFaults == {}
Lost     == {"unsent", "unread"}
=============================================================================
