------------------------------- MODULE Download -------------------------------
(***************************************************************************)
(* The two download buttons: mtp_cp1_test (load_to_eFlash) and             *)
(* mtp_cp2_test (load_to_sRAM) of CMtp_test_guiDlg, with the sys_reset     *)
(* that follows a pass.                                                    *)
(*                                                                         *)
(* A step is one exchange with the bridge.  data_trans reports an exchange *)
(* that went wrong and every caller ignores it, so the procedure goes on   *)
(* whatever happens and its only judgement is the final comparison of what *)
(* was read back with the image.  UsbExchange is about one exchange,       *)
(* I2cTransfer about how a call is cut into packets, HexLoader about the   *)
(* file.                                                                   *)
(*                                                                         *)
(* Bridge and target are external, and are what the code uses them as:     *)
(* power that is switched on first, registers that open the target's       *)
(* memory and halt its processor, memory that keeps what is written to it  *)
(* at an address that advances with every byte.  A target that is not      *)
(* addressed leaves the bus alone, and the bridge reads Idle.              *)
(***************************************************************************)
EXTENDS Integers, Sequences

CONSTANTS
  WordBytes,     (* bytes in a word: 4                                      *)
  WrFirst,       (* data bytes in the first packet of a write: 43           *)
  RdFirst,       (* ... of a read: 18                                       *)
  Pkt,           (* ... and in every later packet: 48                       *)
  Byte,          (* byte values                                             *)
  Idle,          (* what is read when no target answers: 0xFF               *)
  Size,          (* bytes of target memory the procedure can reach          *)
  Flags,         (* the flag words <<word address, bytes>>, in order        *)
  Loads,         (* what hex2bin may make of the chosen file                *)
  Faults,        (* how an exchange may fail, a subset of FaultKinds        *)
  MaxFaults      (* bound: failed exchanges                                 *)

FaultKinds == {
  "unsent",      (* WriteFile and ReadFile both fail: the bridge is gone    *)
  "unread",      (* the bridge acts, ReadFile fails                         *)
  "wrong",       (* the bridge acts, what is read is damaged, or another    *)
                 (* exchange's reply that an earlier one left in the queue  *)
  "stale",       (* WriteFile fails, such an older reply is read            *)
  "blocked" }    (* WriteFile fails and nobody owes a report: ReadFile does *)
                 (* not return                                              *)

Offset == 0 .. Size - 1

(* "none": no file was chosen.  "unopened": fopen failed.  "rejected" and  *)
(* "accepted" are hex2bin's, with the image and the length it returned.    *)
Load ==
  [kind : {"none", "unopened", "rejected", "accepted"}, len : Nat,
   out : [Offset -> Byte]]

ASSUME SizesAssumption ==
  /\ {WordBytes, WrFirst, RdFirst, Pkt, Size} \subseteq Nat \ {0}
  /\ MaxFaults \in Nat
ASSUME BytesAssumption == 0 \in Byte /\ Idle \in Byte
ASSUME FlagsAssumption ==
  /\ Flags \in Seq(Nat \X [1 .. WordBytes -> Byte]) /\ Flags # <<>>
  /\ \A f \in DOMAIN Flags : (Flags[f][1] + 1) * WordBytes <= Size
  /\ \A f, g \in DOMAIN Flags : f # g => Flags[f][1] # Flags[g][1]
ASSUME LoadsAssumption ==
  /\ Loads \subseteq Load
  /\ \A l \in Loads :
       /\ l.kind \in {"none", "unopened"} => l.len = 0
       /\ l.kind = "rejected" => l.len = 1
       /\ l.kind = "accepted" => l.len \in 1 .. Size
ASSUME FaultsAssumption == Faults \subseteq FaultKinds

VARIABLES
  op,            (* "cp1" or "cp2": the button                              *)
  load,          (* the file                                                *)
  pc,            (* the phase of the procedure                              *)
  k,             (* exchanges of a script, or bytes of a transfer, so far   *)
  tmp,           (* tmp_buf, as far as it has been read back                *)
  verdict,       (* the message box: "none", "pass" or "fail"               *)
  failed,        (* failed exchanges                                        *)
  unheard,       (* some bytes read back did not come from the target       *)
  powered, regs, (* the target: its power, the registers written            *)
  mem,           (* its memories, by name and offset                        *)
  cursor         (* where the bus transaction in progress has got to        *)

target == <<powered, regs, mem, cursor>>
vars == <<op, load, pc, k, tmp, verdict, failed, unheard, target>>

-----------------------------------------------------------------------------
Least(a, b) == IF a <= b THEN a ELSE b

(* len/4 words, in bytes.                                                  *)
Bytes(l) == (l.len \div WordBytes) * WordBytes

(* 0x00000000 or 0x20000000.                                               *)
Base == IF op = "cp1" THEN "flash" ELSE "sram"

Prologue_NoKey == <<"enable", "halt", "clock", "mask">>

(* The register writes ahead of the image, and the exchanges of sys_reset. *)
Prologue == <<"enable", "key", "halt", "clock", "mask">>
SysReset == <<"power", "enable", "key", "reset", "check",
              "enable", "key", "check">>

(* A transaction on the bus that no STOP has ended: its direction, the     *)
(* memory and the place of its next byte.                                  *)
Transaction ==
  [rw : {"none", "write", "read"}, space : {"flash", "sram"}, at : Nat]

NoCursor == [rw |-> "none", space |-> "flash", at |-> 0]

Own(rw, n) == [rw |-> rw, space |-> Base, at |-> n]

(* The target takes part in a transfer.                                    *)
Open == powered /\ {"enable", "key"} \subseteq regs

-----------------------------------------------------------------------------
(* How an exchange that ends may end, and whether the bridge has acted.    *)
Ends == {"done"} \union (Faults \ {"blocked"})

Exchange(how) ==
  /\ how = "done" \/ (how \in Faults /\ failed < MaxFaults)
  /\ failed' = IF how = "done" THEN failed ELSE failed + 1

Acted(how) == how \notin {"unsent", "stale", "blocked"}

(* A register access or i2c_power_on, when the bridge acts on it.  An      *)
(* access begins with a START, which ends what is open on the bus.         *)
Access(r) ==
  /\ powered' = (powered \/ r = "power")
  /\ regs' = IF ~ powered \/ r \in {"power", "check"} THEN regs
             ELSE IF r = "reset" THEN {}
             ELSE regs \union {r}
  /\ cursor' = IF r = "power" THEN cursor ELSE NoCursor
  /\ UNCHANGED mem

(* One entry of a script of register accesses, then the next phase.        *)
Script(s, next) ==
  /\ \E how \in Ends :
       /\ Exchange(how)
       /\ IF Acted(how) THEN Access(s[k + 1]) ELSE UNCHANGED target
  /\ IF k + 1 < Len(s)
     THEN k' = k + 1 /\ UNCHANGED pc
     ELSE k' = 0 /\ pc' = next
  /\ UNCHANGED <<op, load, tmp, verdict, unheard>>

PowerOn == pc = "power" /\ Script(<<"power">>, "load")

LoadFile_GoesOn ==
  /\ pc = "load"
  /\ pc' = "unlock"
  /\ UNCHANGED <<op, load, k, tmp, verdict, failed, unheard, target>>

(* hex2bin, and the test of its result: only a length of zero is a file    *)
(* that cannot be loaded.                                                  *)
LoadFile ==
  /\ pc = "load"
  /\ IF load.len = 0
     THEN pc' = "over" /\ verdict' = "fail"
     ELSE pc' = "unlock" /\ UNCHANGED verdict
  /\ UNCHANGED <<op, load, k, tmp, failed, unheard, target>>

Unlock == pc = "unlock" /\ Script(Prologue, "write")

-----------------------------------------------------------------------------
(* Memory m with the bytes of d stored from an offset on.                  *)
Put(m, space, from, d) ==
  [m EXCEPT ![space] =
     [a \in Offset |-> IF a \in from .. from + Len(d) - 1
                       THEN d[a - from + 1] ELSE m[space][a]]]

(* The transaction a packet belongs to: the first one has START and the    *)
(* address and opens its own, the others go on with what is open, be it    *)
(* left by another download.                                               *)
Cursor(rw) ==
  IF k # 0 THEN cursor ELSE IF Open THEN Own(rw, 0) ELSE NoCursor

Addressed(rw) == Open /\ Cursor(rw).rw = rw

(* The transaction behind n bytes of a packet; the last packet has STOP.   *)
(* A packet that is lost does not move it, and what follows lands that     *)
(* much lower.                                                             *)
Moved(rw, n) ==
  IF k + n >= Bytes(load) THEN NoCursor
  ELSE IF Addressed(rw) THEN [Cursor(rw) EXCEPT !.at = @ + n]
  ELSE Cursor(rw)

Deliver(d) ==
  /\ mem' = IF Addressed("write")
            THEN Put(mem, Cursor("write").space, Cursor("write").at, d)
            ELSE mem
  /\ cursor' = Moved("write", Len(d))
  /\ UNCHANGED <<powered, regs>>

(* Bytes in the next packet of a transfer.                                 *)
Piece_WholeLast(first) ==
  IF k = 0 THEN Least(Bytes(load), first) ELSE Pkt

Piece(first) ==
  IF k = 0 THEN Least(Bytes(load), first) ELSE Least(Bytes(load) - k, Pkt)

Transferred(n, next) ==
  IF k + n < Bytes(load)
  THEN k' = k + n /\ UNCHANGED pc
  ELSE k' = 0 /\ pc' = next

(* i2c_wr_mem_word of the image, packet by packet.  A file of less than a  *)
(* word is written as a packet without data.                               *)
WriteImage ==
  LET n == Piece(WrFirst)
  IN  /\ pc = "write"
      /\ \E how \in Ends :
           /\ Exchange(how)
           /\ IF Acted(how) THEN Deliver([j \in 1 .. n |-> load.out[k + j - 1]])
              ELSE UNCHANGED target
      /\ Transferred(n, "flags")
      /\ UNCHANGED <<op, load, tmp, verdict, unheard>>

(* Where a flag word lies.                                                 *)
At(f) == Flags[f][1] * WordBytes

(* The three flag words: always eFlash, before anything has been verified. *)
(* One that arrives ends a transaction that was left open.                 *)
WriteFlags ==
  /\ pc = "flags"
  /\ \E how \in Ends :
       /\ Exchange(how)
       /\ mem' = IF Acted(how) /\ Open
                 THEN Put(mem, "flash", At(k + 1), Flags[k + 1][2])
                 ELSE mem
       /\ cursor' = IF Acted(how) THEN NoCursor ELSE cursor
  /\ IF k + 1 < Len(Flags)
     THEN k' = k + 1 /\ UNCHANGED pc
     ELSE k' = 0 /\ pc' = "read"
  /\ UNCHANGED <<op, load, tmp, verdict, unheard, powered, regs>>

-----------------------------------------------------------------------------
(* The bytes a read packet that the bridge acts on brings from the target. *)
Fetched(n) ==
  LET from == Cursor("read").at
  IN  [j \in 1 .. n |->
         IF Addressed("read") /\ from + j - 1 \in Offset
         THEN mem[Cursor("read").space][from + j - 1] ELSE Idle]

(* What a failed ReadFile leaves in msg_buf for the caller to copy: the    *)
(* zeros that 0x20 and 0x21 put there; 0x22 clears nothing, so the bytes   *)
(* of the 0x21 before it, or whatever is between those of the 0x20.        *)
LeftOver(n) ==
  IF k = 0 \/ k + n < Bytes(load) THEN { [j \in 1 .. n |-> 0] }
  ELSE IF k = Least(Bytes(load), RdFirst) THEN [1 .. n -> Byte]
  ELSE { [j \in 1 .. n |-> tmp[k - Pkt + j]] }

(* The bytes the caller takes for the target's; nobody asks data_trans     *)
(* whether they are.                                                       *)
Copied(how, n) ==
  IF how = "done" THEN {Fetched(n)}
  ELSE IF how \in {"wrong", "stale"} THEN [1 .. n -> Byte]
  ELSE LeftOver(n)

(* i2c_rd_mem_word, packet by packet.                                      *)
ReadBack ==
  LET n == Piece(RdFirst)
  IN  /\ pc = "read"
      /\ Bytes(load) > 0
      /\ \E how \in Ends :
           /\ Exchange(how)
           /\ \E got \in Copied(how, n) : tmp' = tmp \o got
           /\ unheard' = (unheard \/ how # "done" \/ ~ Addressed("read"))
           /\ cursor' = IF Acted(how) THEN Moved("read", n) ELSE cursor
      /\ Transferred(n, "compare")
      /\ UNCHANGED <<op, load, verdict, powered, regs, mem>>

ReadNothing_Returns ==
  /\ pc = "read"
  /\ Bytes(load) = 0
  /\ pc' = "compare"
  /\ UNCHANGED <<op, load, k, tmp, verdict, failed, unheard, target>>

(* No words to read: i2c_bus_rd32 with len = 0 does not return             *)
(* (ReadRunsAway of I2cTransfer).                                          *)
ReadNothing ==
  /\ pc = "read"
  /\ Bytes(load) = 0
  /\ pc' = "crashed"
  /\ UNCHANGED <<op, load, k, tmp, verdict, failed, unheard, target>>

Compare_NotTheLastWord ==
  /\ pc = "compare"
  /\ verdict' = IF \A j \in 1 .. Bytes(load) - WordBytes :
                     tmp[j] = load.out[j - 1]
                THEN "pass" ELSE "fail"
  /\ pc' = IF verdict' = "pass" THEN "reset" ELSE "over"
  /\ UNCHANGED <<op, load, k, tmp, failed, unheard, target>>

(* Word by word, len/4 of them; then the message box.                      *)
Compare ==
  /\ pc = "compare"
  /\ verdict' = IF \A j \in 1 .. Bytes(load) : tmp[j] = load.out[j - 1]
                THEN "pass" ELSE "fail"
  /\ pc' = IF verdict' = "pass" THEN "reset" ELSE "over"
  /\ UNCHANGED <<op, load, k, tmp, failed, unheard, target>>

Reset == pc = "reset" /\ Script(SysReset, "over")

(* usb_msg reads although it could not write, and waits for what nobody    *)
(* sends; only the end of the program ends that.                           *)
Blocks ==
  /\ pc \in {"power", "unlock", "write", "flags", "read", "reset"}
  /\ pc = "read" => Bytes(load) > 0
  /\ Exchange("blocked")
  /\ pc' = "blocked"
  /\ UNCHANGED <<op, load, k, tmp, verdict, unheard, target>>

Over == pc \in {"over", "crashed", "blocked"} /\ UNCHANGED vars

-----------------------------------------------------------------------------
Memories == [{"flash", "sram"} -> [Offset -> Byte]]

Init ==
  /\ op \in {"cp1", "cp2"}
  /\ load \in Loads
  /\ pc = "power"
  /\ k = 0
  /\ tmp = <<>>
  /\ verdict = "none"
  /\ failed = 0
  /\ unheard = FALSE
  /\ powered \in BOOLEAN
  /\ regs = {}
  /\ \E erased \in Byte :
       mem = [s \in {"flash", "sram"} |-> [a \in Offset |-> erased]]
  /\ cursor = NoCursor

Next ==
  \/ PowerOn \/ LoadFile \/ Unlock \/ WriteImage \/ WriteFlags
  \/ ReadBack \/ ReadNothing \/ Compare \/ Reset \/ Blocks \/ Over

Spec == Init /\ [][Next]_vars

-----------------------------------------------------------------------------
(* Types of the procedure's and the target's state.                        *)
TypeOK ==
  /\ op \in {"cp1", "cp2"}
  /\ load \in Load
  /\ pc \in {"power", "load", "unlock", "write", "flags", "read", "compare",
             "reset", "over", "crashed", "blocked"}
  /\ k \in Nat
  /\ tmp \in Seq(Byte) /\ Len(tmp) <= Bytes(load)
  /\ verdict \in {"none", "pass", "fail"}
  /\ failed \in 0 .. MaxFaults
  /\ unheard \in BOOLEAN /\ powered \in BOOLEAN
  /\ regs \subseteq {"enable", "key", "halt", "clock", "mask"}
  /\ mem \in Memories
  /\ cursor \in Transaction

(* The target holds every word of the image.                               *)
Programmed == \A a \in 0 .. Bytes(load) - 1 : mem[Base][a] = load.out[a]

(* A pass means that the target holds the image.                           *)
PassMeansProgrammed == verdict = "pass" => Programmed

(* Whatever was lost while the image was written, the comparison finds it, *)
(* as long as what is read back is the target's: no pass then without the  *)
(* image in place.                                                         *)
HeardPassMeansProgrammed == verdict = "pass" /\ ~ unheard => Programmed

(* The image leaves the flag words alone, or agrees with them.             *)
ClearOfFlags ==
  \A f \in DOMAIN Flags : \A j \in 1 .. WordBytes :
    At(f) + j - 1 < Bytes(load) => load.out[At(f) + j - 1] = Flags[f][2][j]

(* On a link without faults a download to eFlash passes exactly when the   *)
(* image does not contradict the flag words written over it, and a         *)
(* download to SRAM always passes.                                         *)
CleanVerdict ==
  failed = 0 /\ verdict # "none" /\ load.len > 0 =>
    (verdict = "pass" <=> (op = "cp1" => ClearOfFlags))

(* A file of less than a word never passes, as every rejected one is: no   *)
(* test stops it, but the reading of its no words does not return, and so  *)
(* they are never compared, which they would pass.                         *)
ShortNeverPasses == verdict = "pass" => load.len >= WordBytes

(* A pass means that the whole file is in the target, every byte of it.    *)
PassMeansWholeFile ==
  verdict = "pass" => \A a \in 0 .. load.len - 1 : mem[Base][a] = load.out[a]

(* A file that hex2bin rejects ends in the message that it failed.         *)
RejectedFileFails ==
  load.kind = "rejected" /\ pc \in {"over", "crashed"} => verdict = "fail"
=============================================================================
