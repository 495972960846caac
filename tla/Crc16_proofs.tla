----------------------------- MODULE Crc16_proofs -----------------------------
(***************************************************************************)
(* What the check sum sees, for reports of any size.                       *)
(*                                                                         *)
(* The two registers differ by what the flipped bits have done so far.     *)
(* Virtual is that difference with the flipped bits still to come already  *)
(* in their places: a register holding it would, fed with zeros, end in    *)
(* the difference between the sum computed and the sum received.  It is    *)
(* never empty.  Before the first flipped bit has left the register it is  *)
(* the damage itself, moved; afterwards it fits the register, and a turn   *)
(* of the inner loop takes no register but the empty one to the empty one, *)
(* because the polynomial has its top bit set.                             *)
(*                                                                         *)
(* The other argument counts: with three terms in the polynomial a turn of *)
(* the inner loop keeps the register's number of ones even or odd.         *)
(*                                                                         *)
(* A third divides: the line of sixteen that Reduce has reached stands in  *)
(* the register, top down, with the bytes still to come not yet added; one *)
(* turn of the inner loop is one subtraction (InStep).                     *)
(***************************************************************************)
EXTENDS Crc16, FiniteSetTheorems, TLAPS

(* Membership in an exclusive or.                                          *)
LEMMA XorMember ==
  ASSUME NEW A, NEW B, NEW x
  PROVE  x \in Xor(A, B) <=> (x \in A /\ x \notin B) \/ (x \notin A /\ x \in B)
BY DEF Xor

(* Registers are closed under exclusive or.                                *)
LEMMA XorRegister ==
  ASSUME NEW A \in Register, NEW B, B \subseteq 0 .. 15
  PROVE  Xor(A, B) \in Register
BY DEF Xor, Register

(* What a right shift holds.                                               *)
LEMMA RightShiftMember ==
  ASSUME NEW r, r \subseteq Nat, NEW x \in Nat
  PROVE  x \in RightShift(r) <=> x + 1 \in r
BY DEF RightShift

(* A turn of the inner loop keeps a register.                              *)
LEMMA ShiftRegister ==
  ASSUME NEW r \in Register
  PROVE  Shift(r) \in Register
<1>1. RightShift(r) \in Register
  BY DEF RightShift, Register
<1> QED BY <1>1, XorRegister DEF Shift, Polynomial

(* What a turn of the inner loop holds.                                    *)
LEMMA ShiftMember ==
  ASSUME NEW r \in Register, NEW x \in Nat
  PROVE  x \in Shift(r) <=>
           \/ x + 1 \in r /\ ~ (0 \in r /\ x \in Polynomial)
           \/ x + 1 \notin r /\ 0 \in r /\ x \in Polynomial
<1>1. x \in RightShift(r) <=> x + 1 \in r
  <2>1. r \subseteq Nat
    BY DEF Register
  <2> QED BY <2>1, RightShiftMember
<1>2. CASE 0 \in r
  BY <1>1, <1>2, XorMember DEF Shift
<1>3. CASE 0 \notin r
  BY <1>1, <1>3 DEF Shift
<1> QED BY <1>2, <1>3

(* The state keeps its types.                                              *)
THEOREM TypeCorrect == Spec => []TypeOK
<1>1. Init => TypeOK
  BY ReportsAssumption, DamagesAssumption, SizeAssumption
     DEF Init, TypeOK, Register
<1>2. TypeOK /\ [Next]_vars => TypeOK'
  <2> SUFFICES ASSUME TypeOK, [Next]_vars PROVE TypeOK'
    OBVIOUS
  <2>1. CASE XorByte
    <3>1. i \in 0 .. Size - 1
      BY <2>1, SizeAssumption DEF XorByte, TypeOK
    <3>2. report[i] \in Octet /\ message(i) \in Octet
      <4>1. report[i] \in Octet
        BY <3>1 DEF TypeOK
      <4> QED BY <4>1 DEF message, Xor, Octet
    <3>3. crc_value' \in Register /\ theirs' \in Register
      BY <2>1, <3>2, XorRegister DEF XorByte, TypeOK, Octet
    <3> QED BY <2>1, <3>1, <3>3, SizeAssumption DEF XorByte, TypeOK
  <2>2. CASE ShiftBit
    <3>1. crc_value' \in Register /\ theirs' \in Register
      BY <2>2, ShiftRegister DEF ShiftBit, TypeOK
    <3>2. i' \in 0 .. Size /\ j' \in 0 .. 8
      BY <2>2, SizeAssumption DEF ShiftBit, TypeOK
    <3>3. pc' = "inner" => i' < Size /\ j' < 8
      BY <2>2, SizeAssumption DEF ShiftBit, TypeOK
    <3>4. pc' \in {"inner", "outer"}
      BY <2>2 DEF ShiftBit
    <3>5. UNCHANGED <<report, damage>>
      BY <2>2 DEF ShiftBit
    <3> QED BY <3>1, <3>2, <3>3, <3>4, <3>5 DEF TypeOK
  <2>3. CASE Return
    BY <2>3 DEF Return, TypeOK
  <2>4. CASE Over \/ UNCHANGED vars
    BY <2>4 DEF Over, vars, TypeOK
  <2> QED BY <2>1, <2>2, <2>3, <2>4 DEF Next
<1> QED BY <1>1, <1>2, PTL DEF Spec

-----------------------------------------------------------------------------
(* Bits that have been shifted out, and bits that have come in.            *)
Shifted == 8 * i + IF pc = "inner" THEN j ELSE 0
Read    == 8 * i + IF pc = "inner" THEN 8 ELSE 0

(* Where the two registers differ.                                         *)
Differs(p) == p \in Xor(crc_value, theirs)

(* The flipped bits still to come, where they would stand in the register. *)
ToCome(p) == p + Shifted \in damage /\ p + Shifted >= Read

(* Bit p of Virtual.                                                       *)
Virtual(p) == (Differs(p) /\ ~ ToCome(p)) \/ (~ Differs(p) /\ ToCome(p))

(* Until the first flipped bit is shifted out Virtual is the damage, moved *)
(* by the bits shifted out; afterwards it is not empty.                    *)
BurstKept(first) ==
  /\ Shifted <= first => \A p \in Nat : Virtual(p) <=> p + Shifted \in damage
  /\ Shifted > first => \E p \in Nat : Virtual(p)

IInv ==
  \A first \in damage : damage \subseteq first .. first + 15 => BurstKept(first)

(* Virtual while a byte is taken in does not change: the bits that have    *)
(* been to come are now in the register.                                   *)
LEMMA XorByteVirtual ==
  ASSUME TypeOK, XorByte, NEW p \in Nat
  PROVE  Virtual(p)' <=> Virtual(p)
<1>1. i \in 0 .. Size - 1 /\ i \in Nat
  BY SizeAssumption DEF XorByte, TypeOK
<1>2. Shifted = 8 * i /\ Read = 8 * i /\ Shifted' = 8 * i /\ Read' = 8 * i + 8
  BY <1>1 DEF XorByte, Shifted, Read
<1>3. p \in message(i) <=>
        \/ p \in report[i] /\ ~ (p \in 0 .. 7 /\ 8 * i + p \in damage)
        \/ p \notin report[i] /\ p \in 0 .. 7 /\ 8 * i + p \in damage
  BY XorMember DEF message
<1>4. Differs(p)' <=>
        \/ Differs(p) /\ ~ (p \in 0 .. 7 /\ 8 * i + p \in damage)
        \/ ~ Differs(p) /\ p \in 0 .. 7 /\ 8 * i + p \in damage
  BY <1>3, XorMember DEF XorByte, Differs
<1>5. ToCome(p) <=> 8 * i + p \in damage
  BY <1>1, <1>2 DEF ToCome
<1>6. ToCome(p)' <=> 8 * i + p \in damage /\ p \notin 0 .. 7
  BY <1>1, <1>2 DEF ToCome, XorByte
<1> QED BY <1>4, <1>5, <1>6 DEF Virtual

(* Another bit has been shifted out, and none has come in.                 *)
LEMMA ShiftBitMoves ==
  ASSUME TypeOK, ShiftBit
  PROVE  /\ Shifted \in Nat /\ Shifted' = Shifted + 1
         /\ Read' = Read /\ Read \in Nat /\ Shifted < Read
BY SizeAssumption DEF TypeOK, ShiftBit, Shifted, Read

(* A turn of the inner loop on Virtual.                                    *)
LEMMA ShiftBitVirtual ==
  ASSUME TypeOK, ShiftBit, NEW p \in Nat
  PROVE  Virtual(p)' <=>
           \/ Virtual(p + 1) /\ ~ (Virtual(0) /\ p \in Polynomial)
           \/ ~ Virtual(p + 1) /\ Virtual(0) /\ p \in Polynomial
<1>1. crc_value \in Register /\ theirs \in Register
  BY DEF TypeOK
<1>2. Differs(p)' <=>
        \/ Differs(p + 1) /\ ~ (Differs(0) /\ p \in Polynomial)
        \/ ~ Differs(p + 1) /\ Differs(0) /\ p \in Polynomial
  BY <1>1, ShiftMember, XorMember DEF ShiftBit, Differs
<1>3. ToCome(p)' <=> ToCome(p + 1)
  BY ShiftBitMoves DEF ToCome, ShiftBit
<1>4. ~ ToCome(0)
  BY ShiftBitMoves DEF ToCome
<1> QED BY <1>2, <1>3, <1>4 DEF Virtual

(* Nothing of Virtual is beyond the register once the burst has begun.     *)
LEMMA VirtualFits ==
  ASSUME TypeOK, ShiftBit, NEW first \in damage,
         damage \subseteq first .. first + 15, Shifted >= first
  PROVE  ~ Virtual(16)
<1>1. crc_value \in Register /\ theirs \in Register
  BY DEF TypeOK
<1>2. ~ Differs(16)
  BY <1>1, XorMember DEF Differs, Register
<1>3. first \in Nat /\ Shifted \in Nat
  BY ShiftBitMoves, SizeAssumption DEF TypeOK
<1>4. ~ ToCome(16)
  BY <1>3 DEF ToCome
<1> QED BY <1>2, <1>4 DEF Virtual

(* A turn of the inner loop keeps the burst.                               *)
LEMMA ShiftBitKeeps ==
  ASSUME TypeOK, ShiftBit, NEW first \in damage,
         damage \subseteq first .. first + 15, BurstKept(first)
  PROVE  BurstKept(first)'
<1>1. first \in Nat
  BY SizeAssumption DEF TypeOK
<1>2. Shifted \in Nat /\ Shifted' = Shifted + 1 /\ damage' = damage
  BY ShiftBitMoves DEF ShiftBit
<1>3. 15 \in Polynomial
  BY DEF Polynomial
<1>4. CASE Shifted < first
  <2>1. \A p \in Nat : Virtual(p) <=> p + Shifted \in damage
    BY <1>1, <1>2, <1>4 DEF BurstKept
  <2>2. ~ Virtual(0)
    BY <1>1, <1>2, <1>4, <2>1
  <2>3. ASSUME NEW p \in Nat PROVE Virtual(p)' <=> p + Shifted' \in damage
    <3>1. Virtual(p)' <=> Virtual(p + 1)
      BY <2>2, ShiftBitVirtual
    <3>2. Virtual(p + 1) <=> (p + 1) + Shifted \in damage
      BY <2>1
    <3>3. (p + 1) + Shifted = p + (Shifted + 1)
      BY <1>2
    <3> QED BY <1>2, <3>1, <3>2, <3>3
  <2>4. ~ (Shifted' > first)
    BY <1>1, <1>2, <1>4
  <2> QED BY <1>2, <2>3, <2>4 DEF BurstKept
<1>5. CASE Shifted >= first /\ Virtual(0)
  <2>1. ~ Virtual(16)
    BY <1>5, VirtualFits
  <2>2. Virtual(15)'
    <3>1. 15 \in Nat /\ 15 + 1 = 16
      OBVIOUS
    <3>2. Virtual(15)' <=>
            \/ Virtual(15 + 1) /\ ~ (Virtual(0) /\ 15 \in Polynomial)
            \/ ~ Virtual(15 + 1) /\ Virtual(0) /\ 15 \in Polynomial
      BY <3>1, ShiftBitVirtual
    <3> QED BY <1>3, <1>5, <2>1, <3>1, <3>2
  <2>3. Shifted' > first
    BY <1>1, <1>2, <1>5
  <2>4. ~ (Shifted' <= first)
    BY <1>1, <1>2, <1>5
  <2> QED BY <2>2, <2>3, <2>4 DEF BurstKept
<1>6. CASE Shifted >= first /\ ~ Virtual(0)
  <2>1. Shifted # first
    <3> SUFFICES ASSUME Shifted = first PROVE FALSE
      OBVIOUS
    <3>1. Virtual(0) <=> 0 + Shifted \in damage
      BY <1>1 DEF BurstKept
    <3> QED BY <1>1, <1>6, <3>1
  <2>2. Shifted > first
    BY <1>1, <1>2, <1>6, <2>1
  <2>3. PICK p \in Nat : Virtual(p)
    BY <2>2 DEF BurstKept
  <2>4. p # 0
    BY <1>6, <2>3
  <2>5. PICK q \in Nat : p = q + 1
    <3>1. p - 1 \in Nat /\ p = (p - 1) + 1
      BY <2>4
    <3> QED BY <3>1
  <2>6. Virtual(q)' <=> Virtual(q + 1)
    BY <1>6, ShiftBitVirtual
  <2>7. Virtual(q)'
    BY <2>3, <2>5, <2>6
  <2>8. ~ (Shifted' <= first)
    BY <1>1, <1>2, <1>6
  <2> QED BY <2>7, <2>8 DEF BurstKept
<1> QED BY <1>1, <1>2, <1>4, <1>5, <1>6

(* The invariant holds at the start.                                       *)
LEMMA InitIInv == Init => IInv
<1> SUFFICES ASSUME Init, NEW first \in damage PROVE BurstKept(first)
  BY DEF IInv
<1>1. first \in Nat
  BY SizeAssumption, DamagesAssumption DEF Init
<1>2. Shifted = 0 /\ Read = 0
  BY DEF Init, Shifted, Read
<1>3. \A p \in Nat : ~ Differs(p)
  BY XorMember DEF Init, Differs
<1>4. \A p \in Nat : ToCome(p) <=> p + Shifted \in damage
  BY <1>2 DEF ToCome
<1> QED BY <1>1, <1>2, <1>3, <1>4 DEF BurstKept, Virtual

(* Every step keeps it.                                                     *)
LEMMA NextIInv == TypeOK /\ IInv /\ [Next]_vars => IInv'
<1> SUFFICES ASSUME TypeOK, IInv, [Next]_vars, NEW first \in damage',
                    damage' \subseteq first .. first + 15
             PROVE  BurstKept(first)'
  BY DEF IInv
<1>1. damage' = damage
  BY DEF Next, XorByte, ShiftBit, Return, Over, vars
<1>2. BurstKept(first)
  BY <1>1 DEF IInv
<1>3. CASE XorByte
  <2>1. Shifted' = Shifted
    BY <1>3, SizeAssumption DEF XorByte, Shifted, TypeOK
  <2> QED BY <1>1, <1>2, <1>3, <2>1, XorByteVirtual DEF BurstKept
<1>4. CASE ShiftBit
  BY <1>1, <1>2, <1>4, ShiftBitKeeps
<1>5. CASE Return
  <2>1. Shifted' = Shifted /\ Read' = Read
    BY <1>5 DEF Return, Shifted, Read
  <2>2. \A p \in Nat : Virtual(p)' <=> Virtual(p)
    BY <1>5, <2>1 DEF Return, Virtual, Differs, ToCome
  <2> QED BY <1>1, <1>2, <2>1, <2>2 DEF BurstKept
<1>6. CASE Over \/ UNCHANGED vars
  <2>1. UNCHANGED vars
    BY <1>6 DEF Over
  <2>2. Shifted' = Shifted /\ Read' = Read
    BY <2>1 DEF vars, Shifted, Read
  <2>3. \A p \in Nat : Virtual(p)' <=> Virtual(p)
    BY <2>1, <2>2 DEF vars, Virtual, Differs, ToCome
  <2> QED BY <1>1, <1>2, <2>2, <2>3 DEF BurstKept
<1> QED BY <1>3, <1>4, <1>5, <1>6 DEF Next

(* At the end Virtual is the difference of the two sums.                   *)
LEMMA IInvBurst == TypeOK /\ IInv => BurstIsSeen
<1> SUFFICES ASSUME TypeOK, IInv, Passed, NEW first \in damage,
                    damage \subseteq first .. first + 15
             PROVE  FALSE
  BY DEF BurstIsSeen, Burst
<1>1. first \in Nat
  BY SizeAssumption DEF TypeOK
<1>2. Shifted = 8 * Size /\ Read = 8 * Size /\ 8 * Size \in Nat
  BY SizeAssumption DEF Passed, TypeOK, Shifted, Read
<1>3. ASSUME NEW p \in Nat PROVE ~ Virtual(p)
  <2>1. p \in check_sum <=>
          \/ p \in theirs /\ ~ (p \in 0 .. 15 /\ 8 * Size + p \in damage)
          \/ p \notin theirs /\ p \in 0 .. 15 /\ 8 * Size + p \in damage
    BY XorMember DEF check_sum
  <2>2. Differs(p) <=> p \in 0 .. 15 /\ 8 * Size + p \in damage
    BY <2>1, XorMember DEF Passed, Differs
  <2>3. ToCome(p) <=> 8 * Size + p \in damage
    BY <1>2 DEF ToCome
  <2>4. 8 * Size + p \in damage => p \in 0 .. 15
    BY <1>2 DEF TypeOK
  <2> QED BY <2>2, <2>3, <2>4 DEF Virtual
<1>4. BurstKept(first)
  BY DEF IInv
<1>5. CASE Shifted <= first
  <2>1. PICK p \in Nat : p + Shifted = first
    <3>1. first - Shifted \in Nat /\ (first - Shifted) + Shifted = first
      BY <1>1, <1>2, <1>5
    <3> QED BY <3>1
  <2> QED BY <1>3, <1>4, <1>5, <2>1 DEF BurstKept
<1>6. CASE Shifted > first
  BY <1>3, <1>4, <1>6 DEF BurstKept
<1> QED BY <1>1, <1>2, <1>5, <1>6

(* No report with a burst of at most sixteen flipped bits passes.          *)
THEOREM BurstSeenHolds == Spec => []BurstIsSeen
<1>1. Spec => []TypeOK
  BY TypeCorrect
<1>2. Spec => [](TypeOK /\ IInv)
  BY <1>1, InitIInv, NextIInv, PTL DEF Spec
<1> QED BY <1>2, IInvBurst, PTL

-----------------------------------------------------------------------------
Even(S) == Cardinality(S) % 2 = 0

(* An exclusive or is even when both or neither of its operands are.       *)
LEMMA EvenXor ==
  ASSUME NEW A, NEW B, IsFiniteSet(A), IsFiniteSet(B)
  PROVE  /\ IsFiniteSet(Xor(A, B))
         /\ Even(Xor(A, B)) <=> (Even(A) <=> Even(B))
<1> DEFINE both == A \cap B
           a == Cardinality(A)
           b == Cardinality(B)
           c == Cardinality(both)
           x == Cardinality(Xor(A, B))
           u == Cardinality(A \union B)
<1>1. IsFiniteSet(both) /\ a \in Nat /\ b \in Nat /\ c \in Nat
  BY FS_Intersection, FS_CardinalityType
<1>2. IsFiniteSet(A \union B) /\ u = a + b - c
  BY FS_Union
<1>3. Xor(A, B) \in SUBSET (A \union B)
  BY DEF Xor
<1>4. IsFiniteSet(Xor(A, B))
  BY <1>2, <1>3, FS_Subset
<1>5. x \in Nat
  BY <1>4, FS_CardinalityType
<1>6. u = x + c
  <2>1. Xor(A, B) \cap both = {}
    BY DEF Xor
  <2>2. Xor(A, B) \union both = A \union B
    BY DEF Xor
  <2>3. Cardinality(Xor(A, B) \cap both) = 0
    BY <2>1, FS_EmptySet
  <2>4. Cardinality(Xor(A, B) \union both)
          = x + c - Cardinality(Xor(A, B) \cap both)
    BY <1>1, <1>4, FS_Union
  <2>5. u = x + c - 0
    BY <2>2, <2>3, <2>4
  <2> HIDE DEF c, x, u
  <2> QED BY <1>1, <1>5, <2>5
<1>7. x = a + b - 2 * c
  BY <1>1, <1>2, <1>5, <1>6
<1>8. x % 2 = 0 <=> (a % 2 = 0 <=> b % 2 = 0)
  <2> HIDE DEF a, b, c, x, u
  <2> QED BY <1>1, <1>5, <1>7
<1> QED BY <1>4, <1>8 DEF Even

(* A set moved up or down has as many members.                             *)
LEMMA Moved ==
  ASSUME NEW S, IsFiniteSet(S), S \subseteq Int, NEW d \in Int
  PROVE  LET T == {s + d : s \in S}
         IN  IsFiniteSet(T) /\ (Even(T) <=> Even(S))
<1> DEFINE T == {s + d : s \in S}
           f == [s \in S |-> s + d]
<1>1. f \in [S -> T]
  OBVIOUS
<1>2. \A x, y \in S : f[x] = f[y] => x = y
  OBVIOUS
<1>3. \A t \in T : \E s \in S : f[s] = t
  OBVIOUS
<1>4. f \in Bijection(S, T)
  BY <1>1, <1>2, <1>3 DEF Bijection, Injection, Surjection, IsInjective
<1>5. ExistsBijection(S, T)
  BY <1>4 DEF ExistsBijection
<1>6. IsFiniteSet(T) /\ Cardinality(T) = Cardinality(S)
  BY <1>5, FS_Bijection
<1> QED BY <1>6 DEF Even

(* The polynomial has an odd number of terms, counting x^16.               *)
LEMMA PolynomialOdd == IsFiniteSet(Polynomial) /\ ~ Even(Polynomial)
<1>1. IsFiniteSet({0}) /\ Cardinality({0}) = 1
  BY FS_Singleton
<1>2. IsFiniteSet({0} \union {13}) /\ Cardinality({0} \union {13}) = 2
  BY <1>1, FS_AddElement
<1>3. /\ IsFiniteSet(({0} \union {13}) \union {15})
      /\ Cardinality(({0} \union {13}) \union {15}) = 3
  BY <1>2, FS_AddElement
<1>4. Polynomial = ({0} \union {13}) \union {15}
  BY DEF Polynomial
<1> QED BY <1>3, <1>4 DEF Even

(* A register is finite.                                                   *)
LEMMA RegisterFinite ==
  ASSUME NEW r, r \subseteq 0 .. 15
  PROVE  IsFiniteSet(r)
<1>1. r \in SUBSET Nat /\ \A b \in r : b <= 15
  OBVIOUS
<1> QED BY <1>1, FS_BoundedSetOfNaturals

(* A turn of the inner loop keeps a register even, or odd.                 *)
LEMMA ShiftEven ==
  ASSUME NEW r \in Register
  PROVE  Even(Shift(r)) <=> Even(r)
<1> DEFINE rest == r \ {0}
<1>1. IsFiniteSet(r) /\ IsFiniteSet(rest) /\ rest \subseteq Int
  <2>1. r \subseteq 0 .. 15 /\ rest \subseteq 0 .. 15 /\ rest \subseteq Int
    BY DEF Register
  <2> QED BY <2>1, RegisterFinite
<1>2. RightShift(r) = {s + (-1) : s \in rest}
  BY <1>1 DEF RightShift
<1>3. IsFiniteSet(RightShift(r)) /\ (Even(RightShift(r)) <=> Even(rest))
  BY <1>1, <1>2, Moved, -1 \in Int
<1>4. CASE 0 \notin r
  <2>1. rest = r
    BY <1>4
  <2> QED BY <1>3, <1>4, <2>1 DEF Shift
<1>5. CASE 0 \in r
  <2>1. Cardinality(rest) = Cardinality(r) - 1 /\ Cardinality(r) \in Nat
    BY <1>1, <1>5, FS_RemoveElement, FS_CardinalityType
  <2>2. Even(rest) <=> ~ Even(r)
    BY <2>1 DEF Even
  <2>3. Even(Xor(RightShift(r), Polynomial))
          <=> (Even(RightShift(r)) <=> Even(Polynomial))
    BY <1>3, EvenXor, PolynomialOdd
  <2> QED BY <1>3, <1>5, <2>2, <2>3, PolynomialOdd DEF Shift
<1> QED BY <1>4, <1>5

(* The flipped bits that have come in.                                     *)
Come == {d \in damage : d < Read}

(* The two registers differ in an odd number of places when an odd number  *)
(* of flipped bits has come in.                                            *)
CountKept == Even(Xor(crc_value, theirs)) <=> Even(Come)

(* Everything counted is finite.                                           *)
LEMMA Finite ==
  ASSUME TypeOK
  PROVE  /\ IsFiniteSet(damage) /\ IsFiniteSet(Come)
         /\ Xor(crc_value, theirs) \in Register
         /\ IsFiniteSet(Xor(crc_value, theirs))
<1>1. IsFiniteSet(0 .. 8 * Size + 15)
  BY FS_Interval, SizeAssumption
<1>2. IsFiniteSet(damage)
  BY <1>1, FS_Subset DEF TypeOK
<1>3. IsFiniteSet(Come)
  BY <1>2, FS_Subset DEF Come
<1>4. Xor(crc_value, theirs) \in Register
  BY DEF TypeOK, Xor, Register
<1> QED BY <1>2, <1>3, <1>4, RegisterFinite DEF Register

(* A byte taken in brings its flipped bits into the register.              *)
LEMMA XorByteCounts == TypeOK /\ CountKept /\ XorByte => CountKept'
<1> SUFFICES ASSUME TypeOK, CountKept, XorByte PROVE CountKept'
  OBVIOUS
<1> DEFINE own   == {b \in 0 .. 7 : 8 * i + b \in damage}
           moved == {b + 8 * i : b \in own}
<1>1. i \in 0 .. Size - 1 /\ i \in Nat /\ damage \subseteq Nat
  BY SizeAssumption DEF XorByte, TypeOK
<1>2. IsFiniteSet(own)
  <2>1. own \subseteq 0 .. 15
    OBVIOUS
  <2> QED BY <2>1, RegisterFinite
<1>3. own \subseteq Int /\ 8 * i \in Int
  BY <1>1
<1>4. IsFiniteSet(moved) /\ (Even(moved) <=> Even(own))
  BY <1>2, <1>3, Moved
<1>5. Read = 8 * i /\ Read' = 8 * i + 8
  BY <1>1 DEF XorByte, Read
<1>6. Come' = Xor(Come, moved)
  <2>1. ASSUME NEW d PROVE d \in moved <=> d \in damage /\ d \in 8 * i .. 8 * i + 7
    <3>1. d \in moved => d \in damage /\ d \in 8 * i .. 8 * i + 7
      BY <1>1
    <3>2. ASSUME d \in damage, d \in 8 * i .. 8 * i + 7 PROVE d \in moved
      <4>1. PICK b \in 0 .. 7 : d = b + 8 * i
        <5>1. d - 8 * i \in 0 .. 7 /\ d = (d - 8 * i) + 8 * i
          BY <1>1, <3>2
        <5> QED BY <5>1
      <4>2. 8 * i + b \in damage
        BY <1>1, <3>2, <4>1
      <4> QED BY <4>1, <4>2
    <3> QED BY <3>1, <3>2
  <2>2. ASSUME NEW d PROVE d \in Come' <=> d \in damage /\ d < 8 * i + 8
    BY <1>5 DEF Come, XorByte
  <2>3. ASSUME NEW d PROVE d \in Come <=> d \in damage /\ d < 8 * i
    BY <1>5 DEF Come
  <2>4. ASSUME NEW d \in damage
        PROVE  d < 8 * i + 8 <=> \/ d < 8 * i /\ d \notin 8 * i .. 8 * i + 7
                                 \/ ~ (d < 8 * i) /\ d \in 8 * i .. 8 * i + 7
    BY <1>1
  <2> HIDE DEF moved
  <2>5. ASSUME NEW d PROVE d \in Come' <=> d \in Xor(Come, moved)
    BY <2>1, <2>2, <2>3, <2>4, XorMember
  <2> QED BY <2>5
<1>7. Even(Come') <=> (Even(Come) <=> Even(moved))
  BY <1>4, <1>6, EvenXor, Finite
<1>8. Xor(crc_value', theirs') = Xor(Xor(crc_value, theirs), own)
  <2> SUFFICES ASSUME NEW p
               PROVE  p \in Xor(crc_value', theirs')
                        <=> p \in Xor(Xor(crc_value, theirs), own)
    OBVIOUS
  <2>1. p \in message(i) <=> \/ p \in report[i] /\ p \notin own
                             \/ p \notin report[i] /\ p \in own
    BY XorMember DEF message
  <2> QED BY <2>1, XorMember DEF XorByte
<1>9. Even(Xor(crc_value', theirs'))
        <=> (Even(Xor(crc_value, theirs)) <=> Even(own))
  BY <1>2, <1>8, EvenXor, Finite
<1> QED BY <1>4, <1>7, <1>9 DEF CountKept

(* A turn of the inner loop on the difference of the registers.            *)
LEMMA ShiftBitCounts == TypeOK /\ CountKept /\ ShiftBit => CountKept'
<1> SUFFICES ASSUME TypeOK, CountKept, ShiftBit PROVE CountKept'
  OBVIOUS
<1>1. crc_value \in Register /\ theirs \in Register
  BY DEF TypeOK
<1>2. Xor(crc_value, theirs) \in Register
  BY Finite
<1>3. Xor(Shift(crc_value), Shift(theirs)) = Shift(Xor(crc_value, theirs))
  <2>1. /\ Shift(crc_value) \in Register /\ Shift(theirs) \in Register
        /\ Shift(Xor(crc_value, theirs)) \in Register
    BY <1>1, <1>2, ShiftRegister
  <2>2. ASSUME NEW p \in Nat
        PROVE  p \in Xor(Shift(crc_value), Shift(theirs))
                 <=> p \in Shift(Xor(crc_value, theirs))
    BY <1>1, <1>2, ShiftMember, XorMember
  <2>3. /\ Xor(Shift(crc_value), Shift(theirs)) \subseteq Nat
        /\ Shift(Xor(crc_value, theirs)) \subseteq Nat
    BY <2>1 DEF Xor, Register
  <2> QED BY <2>2, <2>3
<1>4. Even(Xor(crc_value', theirs')) <=> Even(Xor(crc_value, theirs))
  BY <1>2, <1>3, ShiftEven DEF ShiftBit
<1>5. Come' = Come
  <2>1. Read' = Read
    BY ShiftBitMoves
  <2> QED BY <2>1 DEF ShiftBit, Come
<1> QED BY <1>4, <1>5 DEF CountKept

(* At the start the registers agree, and nothing has come in.               *)
LEMMA InitCounts == Init => CountKept
<1> SUFFICES ASSUME Init PROVE CountKept
  OBVIOUS
<1>1. Xor(crc_value, theirs) = {}
  BY DEF Init, Xor
<1>2. Read = 0 /\ damage \subseteq Nat
  BY SizeAssumption, DamagesAssumption DEF Init, Read
<1>3. Come = {}
  <2>1. \A d \in Nat : ~ (d < 0)
    OBVIOUS
  <2> QED BY <1>2, <2>1 DEF Come
<1> QED BY <1>1, <1>3 DEF CountKept

(* Every step keeps the count.                                             *)
LEMMA NextCounts == TypeOK /\ CountKept /\ [Next]_vars => CountKept'
<1> SUFFICES ASSUME TypeOK, CountKept, [Next]_vars PROVE CountKept'
  OBVIOUS
<1>1. CASE Return
  <2>1. Read' = Read
    BY <1>1 DEF Return, Read
  <2> QED BY <1>1, <2>1 DEF Return, CountKept, Come
<1>2. CASE Over \/ UNCHANGED vars
  BY <1>2 DEF Over, vars, CountKept, Come, Read
<1> QED BY <1>1, <1>2, XorByteCounts, ShiftBitCounts DEF Next

(* At the end all flipped bits of the bytes have come in, and the others   *)
(* are in the check sum.                                                   *)
LEMMA CountOdd == TypeOK /\ CountKept => OddIsSeen
<1> SUFFICES ASSUME TypeOK, CountKept, Passed PROVE Even(damage)
  BY DEF OddIsSeen, Even
<1> DEFINE own   == {b \in 0 .. 15 : 8 * Size + b \in damage}
           moved == {b + 8 * Size : b \in own}
<1>1. 8 * Size \in Nat /\ damage \subseteq 0 .. 8 * Size + 15 /\ Read = 8 * Size
  BY SizeAssumption DEF TypeOK, Passed, Read
<1>2. IsFiniteSet(own) /\ own \subseteq Int
  <2>1. own \subseteq 0 .. 15 /\ own \subseteq Int
    OBVIOUS
  <2> QED BY <2>1, RegisterFinite
<1>3. IsFiniteSet(moved) /\ (Even(moved) <=> Even(own))
  BY <1>1, <1>2, Moved
<1>4. damage = Xor(Come, moved)
  <2>1. ASSUME NEW d PROVE d \in moved <=> d \in damage /\ d >= 8 * Size
    <3>1. d \in moved => d \in damage /\ d >= 8 * Size
      BY <1>1
    <3>2. ASSUME d \in damage, d >= 8 * Size PROVE d \in moved
      <4>1. PICK b \in 0 .. 15 : d = b + 8 * Size
        <5>1. d - 8 * Size \in 0 .. 15 /\ d = (d - 8 * Size) + 8 * Size
          BY <1>1, <3>2
        <5> QED BY <5>1
      <4>2. 8 * Size + b \in damage
        BY <1>1, <3>2, <4>1
      <4> QED BY <4>1, <4>2
    <3> QED BY <3>1, <3>2
  <2>2. ASSUME NEW d PROVE d \in Come <=> d \in damage /\ d < 8 * Size
    BY <1>1 DEF Come
  <2>3. ASSUME NEW d \in damage PROVE d < 8 * Size <=> ~ (d >= 8 * Size)
    BY <1>1
  <2> HIDE DEF moved
  <2>4. ASSUME NEW d PROVE d \in damage <=> d \in Xor(Come, moved)
    BY <2>1, <2>2, <2>3, XorMember
  <2> QED BY <2>4
<1>5. Xor(crc_value, theirs) = own
  <2>1. check_sum = Xor(theirs, own)
    BY DEF check_sum
  <2>2. Xor(crc_value, theirs) = Xor(Xor(theirs, own), theirs)
    BY <2>1 DEF Passed
  <2> QED BY <2>2 DEF Xor
<1>6. Even(damage) <=> (Even(Come) <=> Even(moved))
  <2> HIDE DEF moved
  <2>1. IsFiniteSet(Come) /\ IsFiniteSet(moved)
    BY <1>3, Finite
  <2>2. Even(Xor(Come, moved)) <=> (Even(Come) <=> Even(moved))
    BY <2>1, EvenXor
  <2> QED BY <1>4, <2>2
<1> QED BY <1>3, <1>5, <1>6 DEF CountKept

(* No report with an odd number of flipped bits passes.                    *)
THEOREM OddSeenHolds == Spec => []OddIsSeen
<1>1. Spec => [](TypeOK /\ CountKept)
  BY TypeCorrect, InitCounts, NextCounts, PTL DEF Spec
<1> QED BY <1>1, CountOdd, PTL
-----------------------------------------------------------------------------
(* Induction, for a set: the sets 0 .. x with x outside T have no smallest. *)
LEMMA SetInduction ==
  ASSUME NEW T, 0 \in T, \A n \in Nat : n \in T => n + 1 \in T
  PROVE  Nat \subseteq T
<1> DEFINE B == Nat \ T
           F == {0 .. x : x \in B}
<1> SUFFICES ASSUME B # {} PROVE FALSE
  OBVIOUS
<1>1. F \subseteq FiniteSubsetsOf(Nat)
  <2> SUFFICES ASSUME NEW x \in B PROVE 0 .. x \in FiniteSubsetsOf(Nat)
    OBVIOUS
  <2>1. IsFiniteSet(0 .. x) /\ 0 .. x \subseteq Nat
    BY FS_Interval
  <2> QED BY <2>1 DEF FiniteSubsetsOf
<1>2. PICK f \in F : \A g \in F : ~ (<<g, f>> \in StrictSubsetOrdering(Nat))
  <2>1. F # {}
    OBVIOUS
  <2>2. IsWellFoundedOn(StrictSubsetOrdering(Nat), FiniteSubsetsOf(Nat))
    BY FS_StrictSubsetOrderingWellFounded
  <2> HIDE DEF F
  <2> QED BY <1>1, <2>1, <2>2, WFMin
<1>3. PICK x \in B : f = 0 .. x
  OBVIOUS
<1>4. x - 1 \in B
  OBVIOUS
<1>5. <<0 .. x - 1, f>> \in StrictSubsetOrdering(Nat)
  <2>1. x \in f /\ x \notin 0 .. x - 1
    BY <1>3
  <2> QED BY <2>1, <1>3 DEF StrictSubsetOrdering
<1> QED BY <1>2, <1>4, <1>5

(* The long division is defined: a function that goes down to a lower      *)
(* coefficient exists for as many coefficients as there are.               *)
LEMMA ReduceDefined ==
  ASSUME NEW m
  PROVE  Reduce(m) =
           [d \in 16 .. Top + 1 |->
              IF d = Top + 1 THEN Dividend(m)
              ELSE Subtract(d, Reduce(m)[d + 1])]
<1> DEFINE Left(g, d) ==
             IF d = Top + 1 THEN Dividend(m) ELSE Subtract(d, g[d + 1])
           Upto(n) == Top + 1 - n .. Top + 1
           IsLeft(g, n) == g = [d \in Upto(n) |-> Left(g, d)]
           T == {n \in Nat : \E g : IsLeft(g, n)}
<1>1. Top \in Nat /\ Top >= 15
  BY SizeAssumption DEF Top
<1>2. 0 \in T
  <2> DEFINE g == [d \in Upto(0) |-> Dividend(m)]
  <2>1. IsLeft(g, 0)
    BY <1>1
  <2> HIDE DEF IsLeft, g
  <2> QED BY <2>1
<1>3. ASSUME NEW n \in Nat, n \in T PROVE n + 1 \in T
  <2>1. PICK g : IsLeft(g, n)
    <3> HIDE DEF IsLeft
    <3> QED BY <1>3
  <2> DEFINE h == [d \in Upto(n + 1) |->
                     IF d = Top - n THEN Subtract(d, g[d + 1]) ELSE g[d]]
  <2>2. ASSUME NEW d \in Upto(n + 1) PROVE h[d] = Left(h, d)
    <3>1. CASE d = Top - n
      <4>1. d + 1 \in Upto(n + 1) /\ d + 1 # Top - n /\ d # Top + 1
        BY <1>1, <3>1
      <4>2. h[d + 1] = g[d + 1]
        BY <4>1
      <4> QED BY <3>1, <4>1, <4>2
    <3>2. CASE d # Top - n
      <4>1. d \in Upto(n)
        BY <1>1, <3>2
      <4>2. g[d] = Left(g, d)
        BY <2>1, <4>1
      <4>3. d # Top + 1 => h[d + 1] = g[d + 1]
        BY <1>1, <4>1
      <4> QED BY <3>2, <4>2, <4>3
    <3> QED BY <3>1, <3>2
  <2>3. IsLeft(h, n + 1)
    BY <2>2
  <2> HIDE DEF IsLeft, h
  <2> QED BY <2>3
<1>4. Top - 15 \in T
  <2> HIDE DEF T
  <2> QED BY <1>1, <1>2, <1>3, SetInduction
<1>5. PICK g : g = [d \in 16 .. Top + 1 |-> Left(g, d)]
  <2>1. Upto(Top - 15) = 16 .. Top + 1
    BY <1>1
  <2> QED BY <1>4, <2>1
<1> QED BY <1>5 DEF Reduce
(* What a line of the division holds, with t counting the bits from the    *)
(* first one: it takes the bit dividing, and flips three others.           *)
LEMMA SubtractMember ==
  ASSUME NEW d \in 16 .. Top, NEW r, NEW t \in 0 .. Top
  PROVE  Top - t \in Subtract(d, r) <=>
           IF d \in r /\ t - (Top - d) \in {0, 1, 14, 16}
           THEN Top - t \notin r ELSE Top - t \in r
<1>1. Top \in Nat /\ Top >= 15
  BY SizeAssumption DEF Top
<1>2. Top - t \in {d - 16 + e : e \in {0, 2, 15, 16}}
        <=> t - (Top - d) \in {0, 1, 14, 16}
  BY <1>1
<1> QED BY <1>2, XorMember DEF Subtract

(* A register r that has taken in the bits of m before rd, and shifted out *)
(* those before sh, holds what the division has left at sixteen places;    *)
(* behind them the division has touched nothing.                           *)
InStep(r, m, sh, rd) ==
  /\ Reduce(m)[Top + 1 - sh] \subseteq 0 .. Top
  /\ \A t \in 0 .. Top :
       Top - t \in Reduce(m)[Top + 1 - sh] <=>
         t >= sh /\ ~ (t - sh \in r <=> t >= rd /\ t \in Ones(m))

(* Both begin with the first sixteen bits inverted.                        *)
LEMMA BothBegin ==
  ASSUME NEW m
  PROVE  InStep(0 .. 15, m, 0, 0)
<1>1. Top \in Nat /\ Top >= 15 /\ Top + 1 - 0 = Top + 1
  BY SizeAssumption DEF Top
<1>2. Reduce(m)[Top + 1] = Dividend(m)
  BY <1>1, ReduceDefined
<1>3. Xor(Ones(m), 0 .. 15) \subseteq 0 .. Top
  BY SizeAssumption DEF Xor, Ones, Top
<1>4. ASSUME NEW t \in 0 .. Top
      PROVE  Top - t \in Dividend(m) <=> ~ (t \in 0 .. 15 <=> t \in Ones(m))
  <2>1. Top - t \in Dividend(m) <=> t \in Xor(Ones(m), 0 .. 15)
    BY <1>1, <1>3 DEF Dividend
  <2> QED BY <2>1, XorMember
<1>5. Dividend(m) \subseteq 0 .. Top
  BY <1>1, <1>3 DEF Dividend
<1> QED BY <1>1, <1>2, <1>4, <1>5 DEF InStep

(* A byte that is taken in is now in the register.                         *)
LEMMA ByteTakenIn ==
  ASSUME NEW m \in [0 .. Size - 1 -> Octet], NEW k \in 0 .. Size - 1,
         NEW r \in Register, InStep(r, m, 8 * k, 8 * k)
  PROVE  InStep(Xor(r, m[k]), m, 8 * k, 8 * k + 8)
<1> SUFFICES ASSUME NEW t \in 0 .. Top
             PROVE  Top - t \in Reduce(m)[Top + 1 - 8 * k] <=>
                      /\ t >= 8 * k
                      /\ ~ (t - 8 * k \in Xor(r, m[k])
                              <=> t >= 8 * k + 8 /\ t \in Ones(m))
  BY DEF InStep
<1>1. Size \in Nat /\ k \in Nat /\ t \in Nat /\ m[k] \in Octet
  BY SizeAssumption DEF Top
<1>2. Top - t \in Reduce(m)[Top + 1 - 8 * k] <=>
        t >= 8 * k /\ ~ (t - 8 * k \in r <=> t \in Ones(m))
  BY DEF InStep
<1>3. t - 8 * k \in Xor(r, m[k]) <=> ~ (t - 8 * k \in r <=> t - 8 * k \in m[k])
  BY XorMember
<1>4. CASE t \in 8 * k .. 8 * k + 7
  <2>1. t \div 8 = k /\ t % 8 = t - 8 * k /\ t \in 0 .. 8 * Size - 1
    BY <1>1, <1>4
  <2>2. t \in Ones(m) <=> t - 8 * k \in m[k]
    BY <2>1 DEF Ones
  <2> QED BY <1>1, <1>2, <1>3, <1>4, <2>2
<1>5. CASE t >= 8 * k + 8
  <2>1. t - 8 * k \notin m[k]
    BY <1>1, <1>5 DEF Octet
  <2> QED BY <1>1, <1>2, <1>3, <1>5, <2>1
<1>6. CASE t < 8 * k
  BY <1>1, <1>2, <1>6
<1> QED BY <1>1, <1>4, <1>5, <1>6

(* A turn of the inner loop is a line of the division.                     *)
LEMMA TurnIsLine ==
  ASSUME NEW m, NEW r \in Register, NEW sh \in 0 .. 8 * Size - 1, NEW rd \in Nat,
         sh < rd, InStep(r, m, sh, rd)
  PROVE  InStep(Shift(r), m, sh + 1, rd)
<1> DEFINE d == Top - sh
<1>1. Size \in Nat /\ sh \in Nat /\ Top \in Nat /\ d \in 16 .. Top
  BY SizeAssumption DEF Top
<1>2. Reduce(m)[d] = Subtract(d, Reduce(m)[d + 1])
  <2>1. d \in 16 .. Top + 1 /\ d # Top + 1
    BY <1>1
  <2> HIDE DEF d
  <2> QED BY <2>1, ReduceDefined
<1>3. d + 1 = Top + 1 - sh /\ d = Top + 1 - (sh + 1) /\ Top - d = sh
  BY <1>1
<1>4. d \in Reduce(m)[d + 1] <=> 0 \in r
  <2>1. sh \in 0 .. Top
    BY <1>1 DEF Top
  <2>2. Top - sh \in Reduce(m)[Top + 1 - sh] <=>
          sh >= sh /\ ~ (sh - sh \in r <=> sh >= rd /\ sh \in Ones(m))
    BY <2>1 DEF InStep
  <2> QED BY <1>1, <1>3, <2>2
<1>0. Reduce(m)[d] \subseteq 0 .. Top
  <2>1. {d - 16 + e : e \in {0, 2, 15, 16}} \subseteq 0 .. Top
    BY <1>1
  <2>2. Reduce(m)[d + 1] \subseteq 0 .. Top
    BY <1>3 DEF InStep
  <2> QED BY <1>2, <2>1, <2>2, XorMember DEF Subtract
<1> SUFFICES ASSUME NEW t \in 0 .. Top
             PROVE  Top - t \in Reduce(m)[d] <=>
                      /\ t >= sh + 1
                      /\ ~ (t - (sh + 1) \in Shift(r)
                              <=> t >= rd /\ t \in Ones(m))
  BY <1>0, <1>3 DEF InStep
<1>5. Top - t \in Reduce(m)[d] <=>
        IF 0 \in r /\ t - sh \in {0, 1, 14, 16}
        THEN Top - t \notin Reduce(m)[d + 1] ELSE Top - t \in Reduce(m)[d + 1]
  BY <1>1, <1>2, <1>3, <1>4, SubtractMember
<1>6. Top - t \in Reduce(m)[d + 1] <=>
        t >= sh /\ ~ (t - sh \in r <=> t >= rd /\ t \in Ones(m))
  BY <1>3 DEF InStep
<1>7. CASE t >= sh + 1
  <2> DEFINE x == t - (sh + 1)
  <2>1. x \in Nat /\ x + 1 = t - sh
    BY <1>1, <1>7
  <2>2. x \in Polynomial <=> t - sh \in {1, 14, 16}
    BY <2>1 DEF Polynomial
  <2>3. x \in Shift(r) <=>
          \/ x + 1 \in r /\ ~ (0 \in r /\ x \in Polynomial)
          \/ x + 1 \notin r /\ 0 \in r /\ x \in Polynomial
    BY <2>1, ShiftMember
  <2> QED BY <1>1, <1>5, <1>6, <1>7, <2>1, <2>2, <2>3
<1>8. CASE t = sh
  BY <1>1, <1>5, <1>6, <1>8
<1>9. CASE t < sh
  BY <1>1, <1>5, <1>6, <1>9
<1> QED BY <1>1, <1>7, <1>8, <1>9

(* When all bits are in and out, the register is the remainder.            *)
LEMMA RestIsRemainder ==
  ASSUME NEW m, NEW r \in Register, InStep(r, m, 8 * Size, 8 * Size)
  PROVE  r = Remainder(m)
<1>1. Size \in Nat /\ Top \in Nat /\ Top + 1 - 8 * Size = 16 /\ Top = 8 * Size + 15
  BY SizeAssumption DEF Top
<1>2. Reduce(m)[16] \subseteq 0 .. Top
  BY <1>1 DEF InStep
<1>3. Ones(m) \subseteq 0 .. 8 * Size - 1
  BY DEF Ones
<1>4. ASSUME NEW t \in 0 .. Top
      PROVE  Top - t \in Reduce(m)[16] <=> t >= 8 * Size /\ t - 8 * Size \in r
  BY <1>1, <1>3 DEF InStep
<1>5. ASSUME NEW b \in r PROVE b \in Remainder(m)
  <2>1. b \in 0 .. 15 /\ 8 * Size + b \in 0 .. Top
    BY <1>1 DEF Register
  <2>2. Top - (8 * Size + b) = 15 - b /\ (8 * Size + b) - 8 * Size = b
    BY <1>1, <2>1
  <2>3. 15 - b \in Reduce(m)[16]
    BY <1>1, <1>4, <2>1, <2>2
  <2> QED BY <2>1, <2>3 DEF Remainder
<1>6. ASSUME NEW b \in Remainder(m) PROVE b \in r
  <2>1. PICK e \in Reduce(m)[16] : b = 15 - e
    BY DEF Remainder
  <2>2. e \in 0 .. Top /\ Top - e \in 0 .. Top /\ Top - (Top - e) = e
    BY <1>1, <1>2, <2>1
  <2>3. (Top - e) - 8 * Size \in r
    BY <1>4, <2>2
  <2> QED BY <1>1, <2>1, <2>2, <2>3
<1> QED BY <1>5, <1>6

(* Both computations keep step, over what was sent and over what came in.  *)
BothInStep ==
  /\ InStep(theirs, report, Shifted, Read)
  /\ InStep(crc_value, received, Shifted, Read)

(* Two messages of bytes.                                                  *)
LEMMA Messages ==
  ASSUME TypeOK
  PROVE  /\ report \in [0 .. Size - 1 -> Octet]
         /\ received \in [0 .. Size - 1 -> Octet]
<1>1. report \in [0 .. Size - 1 -> Octet]
  BY DEF TypeOK
<1>2. ASSUME NEW k \in 0 .. Size - 1 PROVE message(k) \in Octet
  BY <1>1 DEF message, Xor, Octet
<1> QED BY <1>1, <1>2 DEF received

(* Every step keeps step.                                                  *)
LEMMA NextInStep == TypeOK /\ BothInStep /\ [Next]_vars => BothInStep'
<1> SUFFICES ASSUME TypeOK, BothInStep, [Next]_vars PROVE BothInStep'
  OBVIOUS
<1>1. report' = report /\ damage' = damage
  BY DEF Next, XorByte, ShiftBit, Return, Over, vars
<1>2. received' = received
  BY <1>1 DEF received, message
<1>3. crc_value \in Register /\ theirs \in Register /\ Size \in Nat
  BY SizeAssumption DEF TypeOK
<1>4. CASE XorByte
  <2>1. i \in 0 .. Size - 1
    BY <1>4, <1>3 DEF XorByte, TypeOK
  <2>2. Shifted = 8 * i /\ Read = 8 * i /\ Shifted' = 8 * i /\ Read' = 8 * i + 8
    BY <1>4, <2>1 DEF XorByte, Shifted, Read
  <2>3. received[i] = message(i)
    BY <2>1 DEF received
  <2>4. InStep(Xor(theirs, report[i]), report, 8 * i, 8 * i + 8)
    BY <1>3, <2>1, <2>2, Messages, ByteTakenIn DEF BothInStep
  <2>5. InStep(Xor(crc_value, received[i]), received, 8 * i, 8 * i + 8)
    BY <1>3, <2>1, <2>2, Messages, ByteTakenIn DEF BothInStep
  <2>6. theirs' = Xor(theirs, report[i]) /\ crc_value' = Xor(crc_value, received[i])
    BY <1>4, <2>3 DEF XorByte
  <2> QED BY <1>1, <1>2, <2>2, <2>4, <2>5, <2>6 DEF BothInStep
<1>5. CASE ShiftBit
  <2>1. Shifted' = Shifted + 1 /\ Read' = Read /\ Read \in Nat /\ Shifted < Read
    BY <1>5, ShiftBitMoves
  <2>2. Shifted \in 0 .. 8 * Size - 1
    BY <1>3, <1>5 DEF ShiftBit, TypeOK, Shifted
  <2>3. InStep(Shift(theirs), report, Shifted + 1, Read)
    BY <1>3, <2>1, <2>2, TurnIsLine DEF BothInStep
  <2>4. InStep(Shift(crc_value), received, Shifted + 1, Read)
    BY <1>3, <2>1, <2>2, TurnIsLine DEF BothInStep
  <2>5. theirs' = Shift(theirs) /\ crc_value' = Shift(crc_value)
    BY <1>5 DEF ShiftBit
  <2> QED BY <1>1, <1>2, <2>1, <2>3, <2>4, <2>5 DEF BothInStep
<1>6. CASE Return
  <2>1. Shifted' = Shifted /\ Read' = Read /\ UNCHANGED <<theirs, crc_value>>
    BY <1>6 DEF Return, Shifted, Read
  <2> QED BY <1>1, <1>2, <2>1 DEF BothInStep
<1>7. CASE Over \/ UNCHANGED vars
  <2>1. UNCHANGED <<pc, i, j, theirs, crc_value>>
    BY <1>7 DEF Over, vars
  <2>2. Shifted' = Shifted /\ Read' = Read
    BY <2>1 DEF Shifted, Read
  <2> QED BY <1>1, <1>2, <2>1, <2>2 DEF BothInStep
<1> QED BY <1>4, <1>5, <1>6, <1>7 DEF Next

(* For reports of any length: crc_chk_value computes CRC-16/MODBUS, the    *)
(* remainder of the polynomial division, of whatever bytes it is given.    *)
THEOREM SumIsRemainderHolds == Spec => []SumIsRemainder
<1>1. Init => BothInStep
  BY BothBegin DEF Init, BothInStep, Shifted, Read
<1>2. TypeOK /\ BothInStep => SumIsRemainder
  <2> SUFFICES ASSUME TypeOK, BothInStep, pc = "done"
               PROVE  theirs = Remainder(report) /\ crc_value = Remainder(received)
    BY DEF SumIsRemainder
  <2>1. Shifted = 8 * Size /\ Read = 8 * Size
    BY SizeAssumption DEF TypeOK, Shifted, Read
  <2>2. crc_value \in Register /\ theirs \in Register
    BY DEF TypeOK
  <2> QED BY <2>1, <2>2, RestIsRemainder DEF BothInStep
<1>3. Spec => []TypeOK
  BY TypeCorrect
<1> QED BY <1>1, <1>2, <1>3, NextInStep, PTL DEF Spec
=============================================================================
