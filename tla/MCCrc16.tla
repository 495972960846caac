------------------------------- MODULE MCCrc16 -------------------------------
(* Reports of three bytes: forty bits with the check sum, so that damage   *)
(* of sixteen bits fits into the bytes, into the sum and across the two.   *)
EXTENDS Crc16

Plain ==
  { <<{}, {}, {}>>, <<{0, 1, 2, 3, 4, 5, 6, 7}, {0, 2}, {7}>> }

ThreeBytes == {[m \in 0 .. 2 |-> r[m + 1]] : r \in Plain}

Within(first, width) == {first + b : b \in 0 .. width - 1} \intersect (0 .. 39)

(* All damage within eight bits, up to four bits within sixteen of which   *)
(* the first and the last are flipped, and any three bits.                 *)
Damage ==
  {{}} \union
  UNION {SUBSET Within(first, 8) : first \in 0 .. 39} \union
  UNION {{{a, a + 15, b, c} : b \in a .. a + 15, c \in a .. a + 15}
           : a \in 0 .. 24} \union
  {{a, b, c} : a \in 0 .. 39, b \in 0 .. 39, c \in 0 .. 39}
=============================================================================
