----------------------------- MODULE I2cTransfer -----------------------------
(***************************************************************************)
(* One call of the bus layer, i2c_bus_wr8/16/32 or i2c_bus_rd8/16/32 of    *)
(* Ci2c_bus (user_inc/i2c_lib.h): how the bytes of a transfer are cut into *)
(* 48-byte packets, and what the packets do on the I2C bus.                *)
(*                                                                         *)
(* The six functions are one algorithm with two headers.  A write carries  *)
(* the slave address and aw address bytes in its first packet; a read      *)
(* carries two entries more than the address has bytes, each entry a pair  *)
(* <opcode, value>, and one pair for every byte it reads.  Packets after   *)
(* the first carry only data.                                              *)
(*                                                                         *)
(* The bridge executes a packet as the comments on the command codes say:  *)
(* 0x10 start + write + stop, 0x11 start + write, 0x12 write, 0x13 write + *)
(* stop; 0x20 runs the listed entries, 0x21 read, 0x22 read + stop.  Every *)
(* exchange is answered here; UsbExchange is about the ones that are not.  *)
(***************************************************************************)
EXTENDS Integers

CONSTANT Lens    (* byte counts a call is made with                         *)

ASSUME LensAssumption == Lens \subseteq Nat

(* dat[48] of i2c_cmd_pkg.                                                 *)
PktSize == 48

(* Address bytes of the three variants, 8, 16 and 32.                      *)
AddrWidths == {1, 2, 4}

VARIABLES
  op,            (* "write" or "read": which function was called            *)
  aw,            (* its address width                                       *)
  len,           (* its argument len                                        *)
  pc,            (* "start", "loop" after the first of several packets,     *)
                 (* "done" once returned, "crashed"                         *)
  left,          (* pkg_len, from the second packet on                      *)
  near,          (* how far the caller's dat pointer has been advanced      *)
  far,           (* bytes the bridge has moved over I2C in this call        *)
  moved,         (* which of the caller's bytes went with which on the bus  *)
  bus,           (* "free", or "held" between a START and its STOP          *)
  pkt            (* the last packet: command and the dat[] bytes it uses    *)

vars == <<op, aw, len, pc, left, near, far, moved, bus, pkt>>

call == <<op, aw, len>>

-----------------------------------------------------------------------------
(* Slave address and memory address bytes ahead of the data of a write.    *)
WriteHeader(a) == 1 + a

(* Entries ahead of the data of a read: start(wr) with the slave address,  *)
(* one write per address byte, start(rd).                                  *)
ReadHeader(a) == a + 2

FirstRead_LikeThe32(a) == 18

FirstRead_OneMore(a) == CASE a = 1 -> 21 [] a = 2 -> 21 [] a = 4 -> 18

(* Read entries that the three functions put behind the header.            *)
FirstRead(a) == CASE a = 1 -> 21 [] a = 2 -> 20 [] a = 4 -> 18

(* One packet: the tool copies `copied` bytes between dat and the packet,  *)
(* the bridge moves `clocked` bytes over the bus, and `used` bytes of the  *)
(* packet's dat[] are filled or read.                                      *)
Transfer(cmd, copied, clocked, used) ==
  /\ pkt' = [cmd |-> cmd, used |-> used]
  /\ near' = near + copied
  /\ far' = far + clocked
  /\ moved' = moved \union
       {<<near + j, far + j>> : j \in {i \in 0 .. copied - 1 : i < clocked}}
  /\ UNCHANGED call

-----------------------------------------------------------------------------
(* pkg_len <= 48: start + write + stop.                                    *)
WriteSingle ==
  LET pkg_len == len + WriteHeader(aw)
  IN  /\ pc = "start"
      /\ pkg_len <= PktSize
      /\ Transfer("10", len, pkg_len - WriteHeader(aw), pkg_len)
      /\ pc' = "done"
      /\ UNCHANGED <<left, bus>>

(* A full packet that leaves the bus held.                                 *)
WriteFirst ==
  LET pkg_len == len + WriteHeader(aw)
  IN  /\ pc = "start"
      /\ pkg_len > PktSize
      /\ Transfer("11", PktSize - WriteHeader(aw), PktSize - WriteHeader(aw),
                  PktSize)
      /\ left' = pkg_len - PktSize
      /\ bus' = "held"
      /\ pc' = "loop"

WriteMiddle_AtLeast ==
  /\ pc = "loop"
  /\ left >= PktSize
  /\ Transfer("12", PktSize, PktSize, PktSize)
  /\ left' = left - PktSize
  /\ UNCHANGED <<pc, bus>>

(* while (pkg_len > 48)                                                    *)
WriteMiddle ==
  /\ pc = "loop"
  /\ left > PktSize
  /\ Transfer("12", PktSize, PktSize, PktSize)
  /\ left' = left - PktSize
  /\ UNCHANGED <<pc, bus>>

(* if (pkg_len != 0): the rest, with the STOP.                             *)
WriteLast ==
  /\ pc = "loop"
  /\ left <= PktSize
  /\ left # 0
  /\ Transfer("13", left, left, left)
  /\ bus' = "free"
  /\ pc' = "done"
  /\ UNCHANGED left

WriteStep ==
  /\ op = "write"
  /\ WriteSingle \/ WriteFirst \/ WriteMiddle \/ WriteLast

i2c_bus_wr8  == aw = 1 /\ WriteStep
i2c_bus_wr16 == aw = 2 /\ WriteStep
i2c_bus_wr32 == aw = 4 /\ WriteStep

-----------------------------------------------------------------------------
(* (len + header) * 2 <= 48: all entries in one packet, the last with the  *)
(* STOP.                                                                   *)
ReadSingle ==
  LET pkg_len == (len + ReadHeader(aw)) * 2
  IN  /\ pc = "start"
      /\ pkg_len <= PktSize
      /\ len > 0
      /\ Transfer("20", len, len, pkg_len)
      /\ pc' = "done"
      /\ UNCHANGED <<left, bus>>

(* The same branch with len = 0: `i < (len-1)` compares with 2^32 - 1, and *)
(* the loop that fills the entries runs off the packet, the object and the *)
(* stack it lives on.  Nothing has been sent.                              *)
ReadRunsAway ==
  /\ pc = "start"
  /\ len = 0
  /\ pc' = "crashed"
  /\ UNCHANGED <<call, left, near, far, moved, bus, pkt>>

ReadFirst_StopsShort ==
  /\ pc = "start"
  /\ (len + ReadHeader(aw)) * 2 > PktSize
  /\ Transfer("20", FirstRead(aw) - 1, FirstRead(aw),
              2 * (ReadHeader(aw) + FirstRead(aw)))
  /\ left' = len - FirstRead(aw)
  /\ bus' = "held"
  /\ pc' = "loop"

(* As many bytes as fit behind the header, no STOP.                        *)
ReadFirst ==
  /\ pc = "start"
  /\ (len + ReadHeader(aw)) * 2 > PktSize
  /\ Transfer("20", FirstRead(aw), FirstRead(aw),
              2 * (ReadHeader(aw) + FirstRead(aw)))
  /\ left' = len - FirstRead(aw)
  /\ bus' = "held"
  /\ pc' = "loop"

ReadMiddle_SamePacket ==
  /\ pc = "loop"
  /\ left > PktSize
  /\ Transfer("21", 0, 0, PktSize)
  /\ UNCHANGED <<left, pc, bus>>

(* while (pkg_len > 48)                                                    *)
ReadMiddle ==
  /\ pc = "loop"
  /\ left > PktSize
  /\ Transfer("21", PktSize, PktSize, PktSize)
  /\ left' = left - PktSize
  /\ UNCHANGED <<pc, bus>>

(* if (pkg_len != 0): the rest, with the STOP.                             *)
ReadLast ==
  /\ pc = "loop"
  /\ left <= PktSize
  /\ left # 0
  /\ Transfer("22", left, left, left)
  /\ bus' = "free"
  /\ pc' = "done"
  /\ UNCHANGED left

ReadStep ==
  /\ op = "read"
  /\ ReadSingle \/ ReadRunsAway \/ ReadFirst \/ ReadMiddle \/ ReadLast

i2c_bus_rd8  == aw = 1 /\ ReadStep
i2c_bus_rd16 == aw = 2 /\ ReadStep
i2c_bus_rd32 == aw = 4 /\ ReadStep

-----------------------------------------------------------------------------
Init ==
  /\ op \in {"write", "read"}
  /\ aw \in AddrWidths
  /\ len \in Lens
  /\ pc = "start"
  /\ left = 0
  /\ near = 0
  /\ far = 0
  /\ moved = {}
  /\ bus = "free"
  /\ pkt = [cmd |-> "none", used |-> 0]

Step ==
  \/ i2c_bus_wr8 \/ i2c_bus_wr16 \/ i2c_bus_wr32
  \/ i2c_bus_rd8 \/ i2c_bus_rd16 \/ i2c_bus_rd32

(* The call has returned, or taken the program with it.                    *)
Over == pc \in {"done", "crashed"} /\ UNCHANGED vars

Next == Step \/ Over

Spec == Init /\ [][Next]_vars

(* The thread that made the call keeps running.                            *)
FairSpec == Spec /\ WF_vars(Step)

-----------------------------------------------------------------------------
(* Types of the call's state.                                              *)
TypeOK ==
  /\ op \in {"write", "read"}
  /\ aw \in AddrWidths
  /\ len \in Nat
  /\ pc \in {"start", "loop", "done", "crashed"}
  /\ left \in Nat /\ near \in Nat /\ far \in Nat
  /\ moved \subseteq (Nat \X Nat)
  /\ bus \in {"free", "held"}
  /\ pkt \in [cmd : {"none", "10", "11", "12", "13", "20", "21", "22"},
              used : Nat]

InStep(k) == {<<i, i>> : i \in 0 .. k - 1}

(* When a call returns, every byte it was asked for has gone over the bus  *)
(* once, in order, none was skipped, repeated or shifted at a packet       *)
(* boundary, and the bus is free.                                          *)
BytesInOrder == pc = "done" => moved = InStep(len) /\ bus = "free"

(* No packet reaches past the 48 bytes of dat[], neither where the request *)
(* is built nor where the answer is copied out.                            *)
PacketFits == pkt.used <= PktSize

(* Data bytes that a first packet has room for behind its header.          *)
Room ==
  IF op = "write" THEN PktSize - WriteHeader(aw)
  ELSE PktSize \div 2 - ReadHeader(aw)

Least(a, b) == IF a <= b THEN a ELSE b

(* Every packet but the last is full, none is empty but that of an empty   *)
(* write, and the call returns with the packet that carries the last byte  *)
(* and with no other: a call of any length ends, after as few exchanges as *)
(* its bytes fit in.                                                       *)
TakesWhatFits ==
  pc' # "crashed" =>
    /\ near' - near = Least(len - near, IF near = 0 THEN Room ELSE PktSize)
    /\ pc' = "done" <=> near' = len

PacketsAreFull == [][TakesWhatFits]_vars

(* The promise on the wires.                                               *)
Phase ==
  IF pc = "start" THEN "before"
  ELSE IF pc = "crashed" THEN "nothing"
  ELSE IF bus = "held" THEN "held"
  ELSE "after"

Bus == INSTANCE I2cTransaction
         WITH total <- len, phase <- Phase, count <- far

(* Every call is one I2C transaction: a START, all its bytes, a STOP.      *)
IsOneTransaction == Bus!Spec

(* Every call comes to an end.                                             *)
Returns == <>(pc \in {"done", "crashed"})
=============================================================================
