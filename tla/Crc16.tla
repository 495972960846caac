-------------------------------- MODULE Crc16 --------------------------------
(***************************************************************************)
(* The check sum of a report: Ci2c_bus::crc_chk_value, CRC-16/MODBUS, and  *)
(* data_trans's second test (user_inc/i2c_lib.h).                          *)
(*                                                                         *)
(* A report comes in with some of its bits flipped.  The tool computes the *)
(* sum of the bytes it has got and compares it with the sum that came      *)
(* behind them, which the bridge computed over the bytes it had sent.  The *)
(* two computations run side by side here, a step for each step of         *)
(* crc_chk_value's loops; the bridge is external, and uses the same        *)
(* function, for otherwise no reply would ever pass.                       *)
(*                                                                         *)
(* A byte or a register is the set of the positions of its ones, so that   *)
(* exclusive or is the symmetric difference.  Bits are numbered in the     *)
(* order of transmission: bit b of byte i is 8*i + b, and bit b of         *)
(* check_sum, which lies little-endian right behind the bytes, is          *)
(* 8*Size + b.                                                             *)
(***************************************************************************)
EXTENDS Integers, FiniteSets

CONSTANTS
  Size,          (* bytes the sum is taken over: 52                         *)
  Reports,       (* what the bridge may send                                *)
  Damages        (* the sets of bits that may be flipped on the way         *)

Octet    == SUBSET (0 .. 7)
Register == SUBSET (0 .. 15)

ASSUME SizeAssumption    == Size \in Nat
ASSUME ReportsAssumption == Reports \subseteq [0 .. Size - 1 -> Octet]
ASSUME DamagesAssumption == Damages \subseteq SUBSET (0 .. 8 * Size + 15)

VARIABLES
  report,        (* the bytes the bridge sent                               *)
  damage,        (* the bits flipped on the way                             *)
  pc,            (* "outer" or "inner" loop, or "done"                      *)
  i, j,          (* the loops' counters                                     *)
  crc_value,     (* the tool's                                              *)
  theirs         (* the bridge's, over what it sent                         *)

vars == <<report, damage, pc, i, j, crc_value, theirs>>

-----------------------------------------------------------------------------
Xor(A, B) == (A \ B) \union (B \ A)

Polynomial_TopBitLost == {0, 13}

(* 0xA001, the reflected form of x^16 + x^15 + x^2 + 1.                    *)
Polynomial == {0, 13, 15}

(* What has become of byte m.                                              *)
message(m) == Xor(report[m], {b \in 0 .. 7 : 8 * m + b \in damage})

(* The check sum that comes with it.                                       *)
check_sum == Xor(theirs, {b \in 0 .. 15 : 8 * Size + b \in damage})

RightShift(r) == {b - 1 : b \in r \ {0}}

Shift_TestsAfterwards(r) ==
  IF 0 \in RightShift(r) THEN Xor(RightShift(r), Polynomial)
  ELSE RightShift(r)

(* One turn of the inner loop.                                             *)
Shift(r) ==
  IF 0 \in r THEN Xor(RightShift(r), Polynomial) ELSE RightShift(r)

Init ==
  /\ report \in Reports
  /\ damage \in Damages
  /\ pc = "outer"
  /\ i = 0
  /\ j = 0
  /\ crc_value = 0 .. 15
  /\ theirs = 0 .. 15

(* crc_value ^= *message++                                                 *)
XorByte ==
  /\ pc = "outer"
  /\ i < Size
  /\ crc_value' = Xor(crc_value, message(i))
  /\ theirs' = Xor(theirs, report[i])
  /\ j' = 0
  /\ pc' = "inner"
  /\ UNCHANGED <<report, damage, i>>

(* The inner loop; after eight turns the outer one goes on.                *)
ShiftBit ==
  /\ pc = "inner"
  /\ crc_value' = Shift(crc_value)
  /\ theirs' = Shift(theirs)
  /\ j' = j + 1
  /\ IF j + 1 < 8
     THEN UNCHANGED <<pc, i>>
     ELSE pc' = "outer" /\ i' = i + 1
  /\ UNCHANGED <<report, damage>>

Return ==
  /\ pc = "outer"
  /\ i = Size
  /\ pc' = "done"
  /\ UNCHANGED <<report, damage, i, j, crc_value, theirs>>

Over == pc = "done" /\ UNCHANGED vars

Next == XorByte \/ ShiftBit \/ Return \/ Over

Spec == Init /\ [][Next]_vars

(* data_trans lets the report pass.                                        *)
Passed == pc = "done" /\ crc_value = check_sum

-----------------------------------------------------------------------------
(* Types of the loops' state.                                              *)
TypeOK ==
  /\ report \in [0 .. Size - 1 -> Octet] /\ damage \subseteq 0 .. 8 * Size + 15
  /\ pc \in {"outer", "inner", "done"}
  /\ i \in 0 .. Size /\ j \in 0 .. 8
  /\ pc = "inner" => i < Size /\ j < 8
  /\ pc = "done" => i = Size
  /\ crc_value \in Register /\ theirs \in Register

(* The textbook definition: the bits of a message m, the first one the     *)
(* highest coefficient, the first sixteen inverted and sixteen zeros       *)
(* behind them, modulo the polynomial.                                     *)
Top == 8 * Size + 15

Ones(m) == {t \in 0 .. 8 * Size - 1 : t % 8 \in m[t \div 8]}

Dividend(m) == {Top - t : t \in Xor(Ones(m), 0 .. 15)}

(* One line of the long division: the coefficient d goes.                  *)
Subtract(d, r) ==
  IF d \in r THEN Xor(r, {d - 16 + e : e \in {0, 2, 15, 16}}) ELSE r

(* What is left when the coefficients from d upwards have gone.            *)
Reduce(m) ==
  LET left[d \in 16 .. Top + 1] ==
        IF d = Top + 1 THEN Dividend(m) ELSE Subtract(d, left[d + 1])
  IN  left

Remainder(m) == {15 - e : e \in Reduce(m)[16]}

received == [k \in 0 .. Size - 1 |-> message(k)]

(* crc_chk_value computes CRC-16/MODBUS, as its comment says, of what was  *)
(* sent and of what came in.                                               *)
SumIsRemainder ==
  pc = "done" => theirs = Remainder(report) /\ crc_value = Remainder(received)

(* The flipped bits lie within sixteen.                                    *)
Burst == \E first \in damage : damage \subseteq first .. first + 15

(* A report in which the flipped bits lie within sixteen, in its bytes, in *)
(* its check sum or across the two, does not pass data_trans.              *)
BurstIsSeen == Passed => ~ Burst

(* Nor does one in which an odd number of bits are flipped.                *)
OddIsSeen == Passed => Cardinality(damage) % 2 = 0
=============================================================================
