-------------------------- MODULE I2cTransfer_proofs --------------------------
(***************************************************************************)
(* The packet framing of I2cTransfer is right for a transfer of any        *)
(* length: every call is one transaction on the I2C bus and moves its      *)
(* bytes in order.                                                         *)
(***************************************************************************)
EXTENDS I2cTransfer, TLAPS

(* Where a call stands between two packets.                                *)
Boundary ==
  /\ near = far
  /\ moved = InStep(far)
  /\ pc = "start" => far = 0 /\ bus = "free"
  /\ pc = "loop" => bus = "held" /\ far > 0 /\ left > 0 /\ far + left = len
  /\ pc = "done" => bus = "free" /\ far = len
  /\ pc = "crashed" => bus = "free" /\ far = 0 /\ len = 0

IInv == TypeOK /\ Boundary /\ PacketFits

-----------------------------------------------------------------------------
(* One more packet extends what has been moved by its bytes, in step: the  *)
(* caller's pointer and the bus advance together (Transfer).               *)
LEMMA InStepGrows ==
  ASSUME NEW k \in Nat, NEW c \in Nat
  PROVE  InStep(k) \union {<<k + j, k + j>> : j \in {i \in 0 .. c - 1 : i < c}}
           = InStep(k + c)
<1> DEFINE more == {<<k + j, k + j>> : j \in {i \in 0 .. c - 1 : i < c}}
<1>1. ASSUME NEW x \in InStep(k) PROVE x \in InStep(k + c)
  <2>1. PICK i \in 0 .. k - 1 : x = <<i, i>>
    BY <1>1 DEF InStep
  <2>2. i \in 0 .. (k + c) - 1
    BY <2>1
  <2> QED BY <2>1, <2>2 DEF InStep
<1>2. ASSUME NEW x \in more PROVE x \in InStep(k + c)
  <2>1. PICK j \in 0 .. c - 1 : x = <<k + j, k + j>>
    BY <1>2
  <2>2. k + j \in 0 .. (k + c) - 1
    BY <2>1
  <2> QED BY <2>1, <2>2 DEF InStep
<1>3. ASSUME NEW x \in InStep(k + c) PROVE x \in InStep(k) \union more
  <2>1. PICK i \in 0 .. (k + c) - 1 : x = <<i, i>>
    BY <1>3 DEF InStep
  <2>2. CASE i < k
    <3>1. i \in 0 .. k - 1
      BY <2>1, <2>2
    <3> QED BY <2>1, <3>1 DEF InStep
  <2>3. CASE i >= k
    <3>1. i - k \in {m \in 0 .. c - 1 : m < c}
      BY <2>1, <2>3
    <3>2. k + (i - k) = i
      BY <2>1
    <3>3. x = <<k + (i - k), k + (i - k)>>
      BY <2>1, <3>2
    <3> QED BY <3>1, <3>3
  <2> QED BY <2>1, <2>2, <2>3
<1> QED BY <1>1, <1>2, <1>3

(* What a packet that copies as many bytes as it clocks leaves behind.     *)
LEMMA TransferMoves ==
  ASSUME IInv,
         NEW c \in Nat, NEW used \in Nat, used <= PktSize,
         NEW cmd \in {"none", "10", "11", "12", "13", "20", "21", "22"},
         Transfer(cmd, c, c, used)
  PROVE  /\ near' = far' /\ far' = far + c /\ far' \in Nat
         /\ moved' = InStep(far') /\ moved' \subseteq (Nat \X Nat)
         /\ pkt' \in [cmd : {"none", "10", "11", "12", "13", "20", "21", "22"},
                      used : Nat]
         /\ PacketFits'
         /\ op' = op /\ aw' = aw /\ len' = len
<1>1. near = far /\ far \in Nat /\ moved = InStep(far)
  BY DEF IInv, TypeOK, Boundary
<1>2. near' = far + c /\ far' = far + c
  BY <1>1 DEF Transfer
<1>3. moved' = InStep(far) \union
                 {<<far + j, far + j>> : j \in {i \in 0 .. c - 1 : i < c}}
  BY <1>1 DEF Transfer
<1>4. moved' = InStep(far + c)
  BY <1>1, <1>3, InStepGrows
<1>5. moved' \subseteq (Nat \X Nat)
  BY <1>1, <1>4 DEF InStep
<1>6. /\ pkt' \in [cmd : {"none", "10", "11", "12", "13", "20", "21", "22"},
                   used : Nat]
      /\ PacketFits'
  BY DEF Transfer, PacketFits
<1> QED BY <1>1, <1>2, <1>4, <1>5, <1>6 DEF Transfer, call

(* The numbers of the three variants agree with the packet they fill.      *)
LEMMA HeadersFit ==
  ASSUME aw \in AddrWidths
  PROVE  /\ WriteHeader(aw) \in 1 .. 47
         /\ ReadHeader(aw) \in 1 .. 23
         /\ FirstRead(aw) \in 1 .. 23
         /\ ReadHeader(aw) + FirstRead(aw) = 24
<1>1. CASE aw = 1
  BY <1>1 DEF WriteHeader, ReadHeader, FirstRead
<1>2. CASE aw = 2
  BY <1>2 DEF WriteHeader, ReadHeader, FirstRead
<1>3. CASE aw = 4
  BY <1>3 DEF WriteHeader, ReadHeader, FirstRead
<1> QED BY <1>1, <1>2, <1>3 DEF AddrWidths

-----------------------------------------------------------------------------
(* The invariant holds before a call.                                      *)
LEMMA InitHolds == Init => IInv
<1> SUFFICES ASSUME Init PROVE IInv
  OBVIOUS
<1>1. InStep(0) = {}
  BY DEF InStep
<1>2. TypeOK
  BY LensAssumption DEF Init, TypeOK
<1>3. Boundary
  BY <1>1 DEF Init, Boundary
<1>4. PacketFits
  BY DEF Init, PacketFits, PktSize
<1> QED BY <1>2, <1>3, <1>4 DEF IInv

-----------------------------------------------------------------------------
(* Each kind of packet keeps the invariant and is the step of              *)
(* I2cTransaction its comment names.                                       *)

(* 0x10, and 0x20 with the STOP in it: the whole transaction.              *)
LEMMA SingleSteps ==
  ASSUME IInv, WriteSingle \/ ReadSingle
  PROVE  IInv' /\ Bus!Whole
<1>1. aw \in AddrWidths /\ len \in Nat /\ left \in Nat /\ pc = "start"
  BY DEF IInv, TypeOK, WriteSingle, ReadSingle
<1>2. far = 0 /\ bus = "free" /\ op \in {"write", "read"}
  BY <1>1 DEF IInv, Boundary, TypeOK
<1>3. /\ WriteHeader(aw) \in 1 .. 47
      /\ ReadHeader(aw) \in 1 .. 23
  BY <1>1, HeadersFit
<1>4. PICK used \in Nat, cmd \in {"10", "20"} :
        used <= PktSize /\ Transfer(cmd, len, len, used)
  <2>1. CASE WriteSingle
    <3> DEFINE k == len + WriteHeader(aw)
    <3>1. k \in Nat /\ k - WriteHeader(aw) = len
      BY <1>1, <1>3
    <3>2. k <= PktSize /\ Transfer("10", len, k - WriteHeader(aw), k)
      BY <2>1 DEF WriteSingle
    <3>3. Transfer("10", len, len, k)
      BY <3>1, <3>2
    <3> QED BY <3>1, <3>2, <3>3
  <2>2. CASE ReadSingle
    <3> DEFINE k == (len + ReadHeader(aw)) * 2
    <3>1. k \in Nat
      BY <1>1, <1>3
    <3>2. k <= PktSize /\ Transfer("20", len, len, k)
      BY <2>2 DEF ReadSingle
    <3> QED BY <3>1, <3>2
  <2> QED BY <2>1, <2>2
<1>5. pc' = "done" /\ left' = left /\ bus' = bus
  BY DEF WriteSingle, ReadSingle
<1>6. /\ near' = far' /\ far' = far + len /\ far' \in Nat
      /\ moved' = InStep(far') /\ moved' \subseteq (Nat \X Nat)
      /\ pkt' \in [cmd : {"none", "10", "11", "12", "13", "20", "21", "22"},
                   used : Nat]
      /\ PacketFits'
      /\ op' = op /\ aw' = aw /\ len' = len
  BY <1>1, <1>4, TransferMoves
<1>7. far' = len
  BY <1>1, <1>2, <1>6
<1>8. TypeOK'
  BY <1>1, <1>2, <1>5, <1>6 DEF TypeOK
<1>9. Boundary'
  BY <1>2, <1>5, <1>6, <1>7 DEF Boundary
<1>10. Bus!Whole
  BY <1>1, <1>2, <1>5, <1>6, <1>7 DEF Bus!Whole, Phase
<1> QED BY <1>6, <1>8, <1>9, <1>10 DEF IInv

(* 0x11, and 0x20 without a STOP: START and the first of the bytes.        *)
LEMMA FirstSteps ==
  ASSUME IInv, WriteFirst \/ ReadFirst
  PROVE  IInv' /\ Bus!Open
<1>1. aw \in AddrWidths /\ len \in Nat /\ pc = "start"
  BY DEF IInv, TypeOK, WriteFirst, ReadFirst
<1>2. far = 0 /\ op \in {"write", "read"}
  BY <1>1 DEF IInv, Boundary, TypeOK
<1>3. /\ WriteHeader(aw) \in 1 .. 47
      /\ ReadHeader(aw) \in 1 .. 23
      /\ FirstRead(aw) \in 1 .. 23
      /\ ReadHeader(aw) + FirstRead(aw) = 24
  BY <1>1, HeadersFit
<1>4. PICK c \in Nat, cmd \in {"11", "20"} :
        /\ Transfer(cmd, c, c, PktSize)
        /\ 0 < c /\ c < len /\ left' = len - c
  <2>1. CASE WriteFirst
    <3> DEFINE c == PktSize - WriteHeader(aw)
    <3>1. /\ Transfer("11", c, c, PktSize)
          /\ len + WriteHeader(aw) > PktSize
          /\ left' = (len + WriteHeader(aw)) - PktSize
      BY <2>1 DEF WriteFirst
    <3>2. c \in Nat /\ 0 < c /\ c < len /\ left' = len - c
      BY <1>1, <1>3, <3>1 DEF PktSize
    <3> QED BY <3>1, <3>2
  <2>2. CASE ReadFirst
    <3> DEFINE c == FirstRead(aw)
    <3>1. /\ Transfer("20", c, c, 2 * (ReadHeader(aw) + FirstRead(aw)))
          /\ (len + ReadHeader(aw)) * 2 > PktSize
          /\ left' = len - c
      BY <2>2 DEF ReadFirst
    <3>2. 2 * (ReadHeader(aw) + FirstRead(aw)) = PktSize
      BY <1>3 DEF PktSize
    <3>3. Transfer("20", c, c, PktSize)
      BY <3>1, <3>2
    <3>4. c \in Nat /\ 0 < c /\ c < len
      BY <1>1, <1>3, <3>1 DEF PktSize
    <3> QED BY <3>1, <3>3, <3>4
  <2> QED BY <2>1, <2>2
<1>5. pc' = "loop" /\ bus' = "held"
  BY DEF WriteFirst, ReadFirst
<1>6. PktSize \in Nat /\ PktSize <= PktSize
  BY DEF PktSize
<1>7. /\ near' = far' /\ far' = far + c /\ far' \in Nat
      /\ moved' = InStep(far') /\ moved' \subseteq (Nat \X Nat)
      /\ pkt' \in [cmd : {"none", "10", "11", "12", "13", "20", "21", "22"},
                   used : Nat]
      /\ PacketFits'
      /\ op' = op /\ aw' = aw /\ len' = len
  BY <1>4, <1>6, TransferMoves
<1>8. /\ far' = c /\ left' \in Nat /\ left' > 0 /\ far' > 0
      /\ far' + left' = len' /\ far' < len
  BY <1>1, <1>2, <1>4, <1>7
<1>9. TypeOK'
  BY <1>1, <1>2, <1>5, <1>7, <1>8 DEF TypeOK
<1>10. Boundary'
  BY <1>5, <1>7, <1>8 DEF Boundary
<1>11. Bus!Open
  BY <1>1, <1>5, <1>7, <1>8 DEF Bus!Open, Phase
<1> QED BY <1>7, <1>9, <1>10, <1>11 DEF IInv

(* 0x12 and 0x21: more of the bytes, and not the last of them.             *)
LEMMA MiddleSteps ==
  ASSUME IInv, WriteMiddle \/ ReadMiddle
  PROVE  IInv' /\ Bus!Continue
<1>1. /\ aw \in AddrWidths /\ len \in Nat /\ left \in Nat /\ far \in Nat
      /\ op \in {"write", "read"} /\ pc = "loop" /\ left > PktSize
  BY DEF IInv, TypeOK, WriteMiddle, ReadMiddle
<1>2. bus = "held" /\ far > 0 /\ far + left = len
  BY <1>1 DEF IInv, Boundary
<1>3. PICK cmd \in {"12", "21"} : Transfer(cmd, PktSize, PktSize, PktSize)
  BY DEF WriteMiddle, ReadMiddle
<1>4. pc' = "loop" /\ bus' = "held" /\ left' = left - PktSize
  BY <1>1, <1>2 DEF WriteMiddle, ReadMiddle
<1>5. PktSize \in Nat /\ PktSize <= PktSize
  BY DEF PktSize
<1>6. /\ near' = far' /\ far' = far + PktSize /\ far' \in Nat
      /\ moved' = InStep(far') /\ moved' \subseteq (Nat \X Nat)
      /\ pkt' \in [cmd : {"none", "10", "11", "12", "13", "20", "21", "22"},
                   used : Nat]
      /\ PacketFits'
      /\ op' = op /\ aw' = aw /\ len' = len
  BY <1>3, <1>5, TransferMoves
<1>7. /\ left' \in Nat /\ left' > 0 /\ far' > far
      /\ far' + left' = len' /\ far' < len /\ far' > 0
  BY <1>1, <1>2, <1>4, <1>6 DEF PktSize
<1>8. TypeOK'
  BY <1>1, <1>4, <1>6, <1>7 DEF TypeOK
<1>9. Boundary'
  BY <1>4, <1>6, <1>7 DEF Boundary
<1>10. Bus!Continue
  BY <1>1, <1>2, <1>4, <1>6, <1>7 DEF Bus!Continue, Phase
<1> QED BY <1>6, <1>8, <1>9, <1>10 DEF IInv

(* 0x13 and 0x22: the rest of the bytes, and STOP.                         *)
LEMMA LastSteps ==
  ASSUME IInv, WriteLast \/ ReadLast
  PROVE  IInv' /\ Bus!Close
<1>1. /\ aw \in AddrWidths /\ len \in Nat /\ left \in Nat /\ far \in Nat
      /\ op \in {"write", "read"} /\ pc = "loop" /\ left <= PktSize
  BY DEF IInv, TypeOK, WriteLast, ReadLast
<1>2. bus = "held" /\ left > 0 /\ far + left = len
  BY <1>1 DEF IInv, Boundary
<1>3. PICK cmd \in {"13", "22"} : Transfer(cmd, left, left, left)
  BY DEF WriteLast, ReadLast
<1>4. pc' = "done" /\ bus' = "free" /\ left' = left
  BY DEF WriteLast, ReadLast
<1>5. /\ near' = far' /\ far' = far + left /\ far' \in Nat
      /\ moved' = InStep(far') /\ moved' \subseteq (Nat \X Nat)
      /\ pkt' \in [cmd : {"none", "10", "11", "12", "13", "20", "21", "22"},
                   used : Nat]
      /\ PacketFits'
      /\ op' = op /\ aw' = aw /\ len' = len
  BY <1>1, <1>3, TransferMoves
<1>6. TypeOK'
  BY <1>1, <1>4, <1>5 DEF TypeOK
<1>7. Boundary'
  BY <1>2, <1>4, <1>5 DEF Boundary
<1>8. Bus!Close
  BY <1>1, <1>2, <1>4, <1>5 DEF Bus!Close, Phase
<1> QED BY <1>5, <1>6, <1>7, <1>8 DEF IInv

(* A read of nothing ends without a packet.                                *)
LEMMA RunawaySteps ==
  ASSUME IInv, ReadRunsAway
  PROVE  IInv' /\ Bus!Nothing
<1>1. /\ pc = "start" /\ len = 0 /\ pc' = "crashed"
      /\ op' = op /\ aw' = aw /\ len' = len /\ left' = left
      /\ near' = near /\ far' = far /\ moved' = moved
      /\ bus' = bus /\ pkt' = pkt
  BY DEF ReadRunsAway, call
<1>2. TypeOK'
  BY <1>1 DEF IInv, TypeOK
<1>3. Boundary'
  BY <1>1 DEF IInv, Boundary, InStep
<1>4. PacketFits'
  BY <1>1 DEF IInv, PacketFits, PktSize
<1>5. Bus!Nothing
  BY <1>1 DEF Bus!Nothing, Phase
<1> QED BY <1>2, <1>3, <1>4, <1>5 DEF IInv

(* A step that changes nothing preserves it.                               *)
LEMMA StutterSteps ==
  ASSUME IInv, UNCHANGED vars
  PROVE  IInv' /\ UNCHANGED Bus!vars
<1>1. /\ pc' = pc /\ op' = op /\ aw' = aw /\ len' = len /\ left' = left
      /\ near' = near /\ far' = far /\ moved' = moved
      /\ bus' = bus /\ pkt' = pkt
  BY DEF vars
<1>2. TypeOK'
  BY <1>1 DEF IInv, TypeOK
<1>3. Boundary'
  BY <1>1 DEF IInv, Boundary, InStep
<1>4. PacketFits'
  BY <1>1 DEF IInv, PacketFits, PktSize
<1>5. UNCHANGED Bus!vars
  BY <1>1 DEF Bus!vars, Phase
<1> QED BY <1>2, <1>3, <1>4, <1>5 DEF IInv

(* Every step of a call is one of those.                                   *)
LEMMA EveryStep ==
  ASSUME IInv, [Next]_vars
  PROVE  IInv' /\ [Bus!Next]_(Bus!vars)
<1>1. CASE WriteSingle \/ ReadSingle
  BY <1>1, SingleSteps DEF Bus!Next
<1>2. CASE WriteFirst \/ ReadFirst
  BY <1>2, FirstSteps DEF Bus!Next
<1>3. CASE WriteMiddle \/ ReadMiddle
  BY <1>3, MiddleSteps DEF Bus!Next
<1>4. CASE WriteLast \/ ReadLast
  BY <1>4, LastSteps DEF Bus!Next
<1>5. CASE ReadRunsAway
  BY <1>5, RunawaySteps DEF Bus!Next
<1>6. CASE UNCHANGED vars
  BY <1>6, StutterSteps
<1> QED
  BY <1>1, <1>2, <1>3, <1>4, <1>5, <1>6
  DEF Next, Step, Over, WriteStep, ReadStep, i2c_bus_wr8, i2c_bus_wr16,
      i2c_bus_wr32, i2c_bus_rd8, i2c_bus_rd16, i2c_bus_rd32

-----------------------------------------------------------------------------
(* The state of a call keeps its types, for calls of any length.           *)
THEOREM TypeCorrect == Spec => []TypeOK
<1>1. IInv /\ [Next]_vars => IInv'
  BY EveryStep
<1>2. IInv => TypeOK
  BY DEF IInv
<1> QED BY InitHolds, <1>1, <1>2, PTL DEF Spec

(* For every length: when one of the six functions returns, each byte has  *)
(* crossed the I2C bus once and in order, and the bus is free.             *)
THEOREM BytesInOrderHolds == Spec => []BytesInOrder
<1>1. IInv /\ [Next]_vars => IInv'
  BY EveryStep
<1>2. IInv => BytesInOrder
  BY DEF IInv, Boundary, BytesInOrder
<1> QED BY InitHolds, <1>1, <1>2, PTL DEF Spec

(* For every length: no packet uses more than the 48 bytes of dat[].       *)
THEOREM PacketFitsHolds == Spec => []PacketFits
<1>1. IInv /\ [Next]_vars => IInv'
  BY EveryStep
<1>2. IInv => PacketFits
  BY DEF IInv
<1> QED BY InitHolds, <1>1, <1>2, PTL DEF Spec

(* For every length: a call of the bus layer implements I2cTransaction,    *)
(* one START, all of its bytes, one STOP.                                  *)
THEOREM ImplementsTransaction == Spec => IsOneTransaction
<1>1. Init => Bus!Init
  BY LensAssumption DEF Init, Bus!Init, Phase
<1>2. IInv /\ [Next]_vars => IInv'
  BY EveryStep
<1>3. IInv /\ [Next]_vars => [Bus!Next]_(Bus!vars)
  BY EveryStep
<1> QED
  BY InitHolds, <1>1, <1>2, <1>3, PTL DEF Spec, IsOneTransaction, Bus!Spec

(* What the first packet has room for.                                     *)
LEMMA RoomIs ==
  ASSUME aw \in AddrWidths
  PROVE  /\ op = "write" => Room = 48 - WriteHeader(aw)
         /\ op # "write" => Room = 24 - ReadHeader(aw) /\ Room = FirstRead(aw)
         /\ WriteHeader(aw) \in 1 .. 47 /\ ReadHeader(aw) \in 1 .. 23
<1>1. PktSize \div 2 = 24
  BY DEF PktSize
<1> QED BY <1>1, HeadersFit DEF Room, PktSize

(* Every packet takes as many bytes as it has room for, and the call is    *)
(* over with the last of them.                                             *)
LEMMA PacketTakes ==
  ASSUME IInv, Step
  PROVE  TakesWhatFits
<1>1. /\ aw \in AddrWidths /\ len \in Nat /\ left \in Nat /\ near \in Nat
      /\ pc = "start" => near = 0
      /\ pc = "loop" => near > 0 /\ near + left = len
  BY DEF IInv, TypeOK, Boundary
<1>2. CASE op = "write" /\ WriteSingle
  <2>1. near = 0 /\ len + WriteHeader(aw) <= 48 /\ near' = near + len /\ pc' = "done"
    BY <1>1, <1>2 DEF WriteSingle, Transfer, PktSize
  <2>2. len <= Room
    BY <1>1, <1>2, <2>1, RoomIs
  <2> QED BY <1>1, <2>1, <2>2 DEF TakesWhatFits, Least
<1>3. CASE op = "write" /\ WriteFirst
  <2>1. near = 0 /\ len + WriteHeader(aw) > 48 /\ pc' = "loop"
        /\ near' = near + (48 - WriteHeader(aw))
    BY <1>1, <1>3 DEF WriteFirst, Transfer, PktSize
  <2>2. Room \in Nat /\ Room < len /\ near' = Room
    BY <1>1, <1>3, <2>1, RoomIs
  <2> QED BY <1>1, <2>1, <2>2 DEF TakesWhatFits, Least
<1>4. CASE WriteMiddle \/ ReadMiddle
  <2>1. near > 0 /\ near + left = len /\ left > 48 /\ pc' = "loop"
        /\ near' = near + 48
    BY <1>1, <1>4 DEF WriteMiddle, ReadMiddle, Transfer, PktSize
  <2> QED BY <1>1, <2>1 DEF TakesWhatFits, Least, PktSize
<1>5. CASE WriteLast \/ ReadLast
  <2>1. near > 0 /\ near + left = len /\ left <= 48 /\ pc' = "done"
        /\ near' = near + left
    BY <1>1, <1>5 DEF WriteLast, ReadLast, Transfer, PktSize
  <2> QED BY <1>1, <2>1 DEF TakesWhatFits, Least, PktSize
<1>6. CASE op = "read" /\ ReadSingle
  <2>1. near = 0 /\ (len + ReadHeader(aw)) * 2 <= 48 /\ near' = near + len
        /\ pc' = "done"
    BY <1>1, <1>6 DEF ReadSingle, Transfer, PktSize
  <2>2. len <= Room
    BY <1>1, <1>6, <2>1, RoomIs
  <2> QED BY <1>1, <2>1, <2>2 DEF TakesWhatFits, Least
<1>7. CASE op = "read" /\ ReadFirst
  <2>1. near = 0 /\ (len + ReadHeader(aw)) * 2 > 48 /\ pc' = "loop"
        /\ near' = near + FirstRead(aw)
    BY <1>1, <1>7 DEF ReadFirst, Transfer, PktSize
  <2>2. Room \in Nat /\ Room < len /\ near' = Room
    BY <1>1, <1>7, <2>1, RoomIs, HeadersFit
  <2> QED BY <1>1, <2>1, <2>2 DEF TakesWhatFits, Least
<1>8. CASE ReadRunsAway
  BY <1>8 DEF ReadRunsAway, TakesWhatFits
<1> QED
  BY <1>2, <1>3, <1>4, <1>5, <1>6, <1>7, <1>8
  DEF Step, WriteStep, ReadStep, i2c_bus_wr8, i2c_bus_wr16, i2c_bus_wr32,
      i2c_bus_rd8, i2c_bus_rd16, i2c_bus_rd32

(* For every length: a call moves its bytes in the fewest packets, and     *)
(* ends with the last; with fairness for the thread that is Returns.       *)
THEOREM PacketsAreFullHolds == Spec => PacketsAreFull
<1>1. IInv /\ [Next]_vars => IInv'
  BY EveryStep
<1>2. IInv /\ [Next]_vars => [TakesWhatFits]_vars
  BY PacketTakes DEF Next, Over
<1> QED BY InitHolds, <1>1, <1>2, PTL DEF Spec, PacketsAreFull
=============================================================================
