--------------------------- MODULE Download_proofs ---------------------------
(***************************************************************************)
(* For packets, words, images, flag words and memories of any size, and    *)
(* any number of failed exchanges: a download does not pass on what it     *)
(* heard from the target unless the target holds the image, and one in     *)
(* which nothing failed gives the right verdict.  The invariants say       *)
(* nothing of what the target held before, so both hold for the window     *)
(* (Dialog), which presses one download after the other on whatever the    *)
(* last one, or a program that was killed, has left.                       *)
(***************************************************************************)
EXTENDS Dialog, SequenceTheorems, TLAPS

(* Where the procedure stands within a phase.                              *)
Place ==
  /\ load \in Loads
  /\ pc \in {"power", "load", "compare", "over", "crashed"} => k = 0
  /\ pc = "unlock" => k < Len(Prologue)
  /\ pc = "flags"  => k < Len(Flags)
  /\ pc = "reset"  => k < Len(SysReset)
  /\ pc \in {"write", "read"} /\ k > 0 => k < Bytes(load)
  /\ pc = "read" /\ k > 0 =>
       LET first == Least(Bytes(load), RdFirst)
       IN  k = first \/ k >= Pkt + first
  /\ verdict = "pass" => pc \in {"reset", "over", "blocked"}

(* What has been read back: all of it by the time it is compared.          *)
ReadSoFar ==
  /\ pc \in {"power", "load", "unlock", "write", "flags"} => tmp = <<>>
  /\ pc = "read" => Len(tmp) = k
  /\ pc = "compare" => Len(tmp) = Bytes(load)

(* As long as every byte came from the target, they are the target's: the  *)
(* cursor is in step with the caller's pointer.                            *)
Heard ==
  /\ pc \in {"read", "compare"} /\ ~ unheard =>
       \A j \in 1 .. Len(tmp) : tmp[j] = mem[Base][j - 1]
  /\ pc = "read" /\ ~ unheard /\ k > 0 => cursor = Own("read", k)

IInv == TypeOK /\ Place /\ ReadSoFar /\ Heard /\ HeardPassMeansProgrammed

-----------------------------------------------------------------------------
(* The words of the image fit in its length, and that in memory.           *)
LEMMA BytesFit ==
  ASSUME NEW l \in Loads
  PROVE  Bytes(l) \in Nat /\ Bytes(l) <= l.len /\ l.len <= Size /\ l \in Load
<1>1. l \in Load /\ l.len \in Nat /\ l.len <= Size
  BY LoadsAssumption, SizesAssumption DEF Load
<1>2. (l.len \div WordBytes) * WordBytes \in 0 .. l.len
  <2> DEFINE a == l.len
  <2>1. a \in Nat /\ WordBytes \in Nat \ {0}
    BY <1>1, SizesAssumption
  <2> HIDE DEF a
  <2>2. (a \div WordBytes) * WordBytes \in 0 .. a
    BY <2>1
  <2> QED BY <2>2 DEF a
<1> QED BY <1>1, <1>2 DEF Bytes

(* A packet of a transfer takes at least a byte, as long as there is one,  *)
(* and never more than are left.                                           *)
LEMMA PieceFits ==
  ASSUME TypeOK, load \in Loads, k > 0 => k < Bytes(load),
         NEW first \in Nat \ {0}
  PROVE  /\ Piece(first) \in Nat
         /\ k + Piece(first) <= Bytes(load)
         /\ Bytes(load) > 0 => Piece(first) > 0
<1>1. Bytes(load) \in Nat /\ k \in Nat /\ Pkt \in Nat \ {0}
  BY BytesFit, SizesAssumption DEF TypeOK
<1>2. CASE k = 0
  BY <1>1, <1>2 DEF Piece, Least
<1>3. CASE k > 0
  BY <1>1, <1>3 DEF Piece, Least
<1> QED BY <1>1, <1>2, <1>3

(* Storing bytes in a memory leaves a memory.                              *)
LEMMA PutType ==
  ASSUME NEW m \in Memories, NEW space \in {"flash", "sram"},
         NEW from \in Nat, NEW n \in Nat, NEW d \in [1 .. n -> Byte]
  PROVE  Put(m, space, from, d) \in Memories
<1>1. d \in Seq(Byte) /\ Len(d) = n
  OBVIOUS
<1>2. ASSUME NEW a \in Offset, a \in from .. from + Len(d) - 1
      PROVE  d[a - from + 1] \in Byte
  <2>1. a - from + 1 \in 1 .. n
    BY <1>1, <1>2
  <2> QED BY <2>1
<1>3. \A a \in Offset : m[space][a] \in Byte
  BY DEF Memories
<1>4. [a \in Offset |-> IF a \in from .. from + Len(d) - 1
                        THEN d[a - from + 1] ELSE m[space][a]]
        \in [Offset -> Byte]
  BY <1>2, <1>3
<1> QED BY <1>4 DEF Put, Memories

(* The invariant holds when the button is pressed.                         *)
LEMMA InitHolds == Init => IInv
<1> SUFFICES ASSUME Init PROVE IInv
  OBVIOUS
<1>1. TypeOK
  <2>1. mem \in Memories
    <3>1. PICK erased \in Byte :
            mem = [s \in {"flash", "sram"} |-> [a \in Offset |-> erased]]
      BY DEF Init
    <3>2. [a \in Offset |-> erased] \in [Offset -> Byte]
      OBVIOUS
    <3> QED BY <3>1, <3>2 DEF Memories
  <2>2. tmp \in Seq(Byte) /\ Len(tmp) = 0
    BY EmptySeq DEF Init
  <2>3. load \in Load /\ Bytes(load) \in Nat
    BY BytesFit DEF Init
  <2>4. failed \in 0 .. MaxFaults
    BY SizesAssumption DEF Init
  <2>5. tmp \in Seq(Byte) /\ Len(tmp) <= Bytes(load)
    BY <2>2, <2>3
  <2>6. /\ op \in {"cp1", "cp2"} /\ pc = "power" /\ k = 0
        /\ verdict = "none" /\ unheard = FALSE /\ powered \in BOOLEAN
        /\ regs = {} /\ cursor \in Transaction
    BY DEF Init, NoCursor, Transaction
  <2> QED BY <2>1, <2>3, <2>4, <2>5, <2>6 DEF TypeOK
<1>2. Place
  BY DEF Init, Place
<1>3. ReadSoFar /\ Heard /\ HeardPassMeansProgrammed
  BY DEF Init, ReadSoFar, Heard, HeardPassMeansProgrammed
<1> QED BY <1>1, <1>2, <1>3 DEF IInv

-----------------------------------------------------------------------------
(* A failed exchange is counted, within the bound.                         *)
LEMMA ExchangeType ==
  ASSUME TypeOK, NEW how, Exchange(how)
  PROVE  failed' \in 0 .. MaxFaults
BY SizesAssumption DEF TypeOK, Exchange

(* The transaction a packet belongs to, and what it is afterwards.         *)
LEMMA CursorType ==
  ASSUME TypeOK, NEW rw \in {"write", "read"}, NEW n \in Nat
  PROVE  Cursor(rw) \in Transaction /\ Moved(rw, n) \in Transaction
<1>1. Cursor(rw) \in Transaction
  BY DEF TypeOK, Cursor, Own, NoCursor, Base, Transaction
<1>2. [Cursor(rw) EXCEPT !.at = @ + n] \in Transaction
  BY <1>1 DEF Transaction
<1> QED BY <1>1, <1>2 DEF Moved, NoCursor, Transaction

Entries == {"power", "enable", "key", "halt", "clock", "mask", "reset", "check"}

(* A register access keeps the target's types and its memory.              *)
LEMMA AccessKeeps ==
  ASSUME TypeOK, NEW r \in Entries, Access(r)
  PROVE  /\ powered' \in BOOLEAN
         /\ regs' \subseteq {"enable", "key", "halt", "clock", "mask"}
         /\ mem' = mem
         /\ cursor' = IF r = "power" THEN cursor ELSE NoCursor
<1>1. /\ powered' \in BOOLEAN /\ mem' = mem
      /\ cursor' = IF r = "power" THEN cursor ELSE NoCursor
  BY DEF TypeOK, Access
<1>2. regs' \subseteq {"enable", "key", "halt", "clock", "mask"}
  BY DEF TypeOK, Access, Entries
<1> QED BY <1>1, <1>2

(* A script does nothing but its register accesses, in order.              *)
LEMMA ScriptStep ==
  ASSUME TypeOK, NEW s \in Seq(Entries), NEW next, k < Len(s), Script(s, next)
  PROVE  /\ failed' \in 0 .. MaxFaults
         /\ powered' \in BOOLEAN
         /\ regs' \subseteq {"enable", "key", "halt", "clock", "mask"}
         /\ mem' = mem
         /\ cursor' \in {NoCursor, cursor}
         /\ UNCHANGED <<op, load, tmp, verdict, unheard>>
         /\ k' \in Nat
         /\ \/ pc' = pc /\ k' < Len(s)
            \/ pc' = next /\ k' = 0
<1>1. k \in Nat /\ Len(s) \in Nat
  BY LenProperties DEF TypeOK
<1>2. s[k + 1] \in Entries
  <2>1. k + 1 \in 1 .. Len(s)
    BY <1>1
  <2> QED BY <2>1, ElementOfSeq
<1>3. PICK how \in Ends :
        /\ Exchange(how)
        /\ IF Acted(how) THEN Access(s[k + 1]) ELSE UNCHANGED target
  BY DEF Script
<1>4. failed' \in 0 .. MaxFaults
  BY <1>3, ExchangeType
<1>5. /\ powered' \in BOOLEAN
      /\ regs' \subseteq {"enable", "key", "halt", "clock", "mask"}
      /\ mem' = mem
      /\ cursor' \in {NoCursor, cursor}
  <2>1. CASE Acted(how)
    BY <1>2, <1>3, <2>1, AccessKeeps
  <2>2. CASE ~ Acted(how)
    BY <1>3, <2>2 DEF TypeOK, target
  <2> QED BY <2>1, <2>2
<1>6. /\ UNCHANGED <<op, load, tmp, verdict, unheard>>
      /\ k' \in Nat
      /\ \/ pc' = pc /\ k' < Len(s)
         \/ pc' = next /\ k' = 0
  <2>1. CASE k + 1 < Len(s)
    BY <1>1, <2>1 DEF Script
  <2>2. CASE ~ (k + 1 < Len(s))
    BY <1>1, <2>2 DEF Script
  <2> QED BY <2>1, <2>2
<1> QED BY <1>4, <1>5, <1>6

(* The scripts are sequences of known commands, as long as the phases count. *)
LEMMA ScriptTypes ==
  /\ Prologue \in Seq(Entries) /\ Len(Prologue) = 5
  /\ SysReset \in Seq(Entries) /\ Len(SysReset) = 8
  /\ <<"power">> \in Seq(Entries) /\ Len(<<"power">>) = 1
BY DEF Prologue, SysReset, Entries

-----------------------------------------------------------------------------
(* Switching on, unlocking, and the reset after a pass.                    *)
LEMMA ScriptPhases ==
  ASSUME IInv, PowerOn \/ Unlock \/ Reset
  PROVE  IInv'
<1>1. TypeOK /\ Place /\ ReadSoFar /\ HeardPassMeansProgrammed
  BY DEF IInv
<1>2. PICK s \in Seq(Entries), next \in {"load", "write", "over"} :
        /\ k < Len(s)
        /\ Script(s, next)
        /\ \/ s = <<"power">> /\ pc = "power" /\ next = "load"
           \/ s = Prologue /\ pc = "unlock" /\ next = "write"
           \/ s = SysReset /\ pc = "reset" /\ next = "over"
  <2>1. CASE PowerOn
    <3>1. pc = "power" /\ k = 0 /\ Script(<<"power">>, "load")
      BY <1>1, <2>1 DEF PowerOn, Place
    <3>2. k < Len(<<"power">>)
      BY <3>1, ScriptTypes
    <3> QED BY <3>1, <3>2, ScriptTypes
  <2>2. CASE Unlock
    <3>1. pc = "unlock" /\ k < Len(Prologue) /\ Script(Prologue, "write")
      BY <1>1, <2>2 DEF Unlock, Place
    <3> QED BY <3>1, ScriptTypes
  <2>3. CASE Reset
    <3>1. pc = "reset" /\ k < Len(SysReset) /\ Script(SysReset, "over")
      BY <1>1, <2>3 DEF Reset, Place
    <3> QED BY <3>1, ScriptTypes
  <2> QED BY <2>1, <2>2, <2>3
<1>3. /\ failed' \in 0 .. MaxFaults
      /\ powered' \in BOOLEAN
      /\ regs' \subseteq {"enable", "key", "halt", "clock", "mask"}
      /\ mem' = mem
      /\ cursor' \in {NoCursor, cursor}
      /\ UNCHANGED <<op, load, tmp, verdict, unheard>>
      /\ k' \in Nat
      /\ \/ pc' = pc /\ k' < Len(s)
         \/ pc' = next /\ k' = 0
  BY <1>1, <1>2, ScriptStep
<1>4. TypeOK'
  <2>1. cursor' \in Transaction
    BY <1>1, <1>3 DEF TypeOK, NoCursor, Transaction
  <2> QED BY <1>1, <1>2, <1>3, <2>1 DEF TypeOK, Bytes
<1>5. Place'
  <2>1. /\ load' \in Loads
        /\ verdict' = "pass" => pc' \in {"reset", "over"}
    BY <1>1, <1>2, <1>3 DEF Place
  <2>3. CASE pc' = pc /\ k' < Len(s)
    <3>1. s = <<"power">> => k' = 0
      BY <1>3, <2>3, ScriptTypes
    <3> QED BY <1>2, <2>1, <2>3, <3>1 DEF Place
  <2>4. CASE pc' = next /\ k' = 0
    BY <1>2, <2>1, <2>4, ScriptTypes DEF Place
  <2> QED BY <1>3, <2>3, <2>4
<1>6. ReadSoFar' /\ Heard'
  BY <1>1, <1>2, <1>3 DEF ReadSoFar, Heard
<1>7. HeardPassMeansProgrammed'
  BY <1>1, <1>3 DEF HeardPassMeansProgrammed, Programmed, Bytes, Base
<1> QED BY <1>4, <1>5, <1>6, <1>7 DEF IInv

(* Loading the file preserves the invariant.                               *)
LEMMA LoadFileStep ==
  ASSUME IInv, LoadFile
  PROVE  IInv'
<1>1. /\ TypeOK /\ Place /\ ReadSoFar /\ pc = "load" /\ k = 0 /\ tmp = <<>>
      /\ pc' \in {"over", "unlock"} /\ verdict' \in {"none", "fail"}
      /\ verdict' # "pass"
      /\ UNCHANGED <<op, load, k, tmp, failed, unheard, powered, regs, mem,
                     cursor>>
  BY DEF IInv, LoadFile, TypeOK, Place, ReadSoFar, target
<1>2. TypeOK'
  BY <1>1 DEF TypeOK, Bytes
<1>3. Place'
  BY <1>1, ScriptTypes DEF Place
<1>4. ReadSoFar' /\ Heard' /\ HeardPassMeansProgrammed'
  BY <1>1 DEF ReadSoFar, Heard, HeardPassMeansProgrammed
<1> QED BY <1>2, <1>3, <1>4 DEF IInv

(* Within a phase that moves the image, or into the next one.              *)
LEMMA TransferredStep ==
  ASSUME TypeOK, load \in Loads, load' = load, NEW n \in Nat, NEW next,
         k + n <= Bytes(load), Transferred(n, next)
  PROVE  /\ k' \in Nat
         /\ \/ pc' = pc /\ k' = k + n /\ k' < Bytes(load)
            \/ pc' = next /\ k' = 0 /\ k + n = Bytes(load)
<1>1. Bytes(load) \in Nat /\ k \in Nat
  BY BytesFit DEF TypeOK
<1> QED BY <1>1 DEF Transferred

(* So does every packet that writes the image.                             *)
LEMMA WriteImageStep ==
  ASSUME IInv, WriteImage
  PROVE  IInv'
<1> DEFINE n == Piece(WrFirst)
           d == [j \in 1 .. n |-> load.out[k + j - 1]]
<1>1. /\ TypeOK /\ load \in Loads /\ pc = "write" /\ k \in Nat
      /\ (k > 0 => k < Bytes(load))
      /\ tmp = <<>> /\ verdict # "pass"
      /\ UNCHANGED <<op, load, tmp, verdict, unheard>>
  BY DEF IInv, TypeOK, Place, ReadSoFar, WriteImage
<1>2. /\ n \in Nat /\ k + n <= Bytes(load)
      /\ Bytes(load) \in Nat /\ Bytes(load) <= Size /\ Size \in Nat
  <2>1. WrFirst \in Nat \ {0} /\ Size \in Nat
    BY SizesAssumption
  <2>2. /\ Bytes(load) \in Nat /\ Bytes(load) <= load.len
        /\ load.len <= Size /\ load.len \in Nat
    BY <1>1, BytesFit DEF Load
  <2>3. Bytes(load) <= Size
    BY <2>1, <2>2
  <2> QED BY <1>1, <2>1, <2>2, <2>3, PieceFits
<1>3. PICK how \in Ends :
        Exchange(how) /\ IF Acted(how) THEN Deliver(d) ELSE UNCHANGED target
  BY DEF WriteImage
<1>4. failed' \in 0 .. MaxFaults
  BY <1>1, <1>3, ExchangeType
<1>5. d \in [1 .. n -> Byte]
  <2>1. load.out \in [Offset -> Byte]
    BY <1>1 DEF TypeOK, Load
  <2>2. ASSUME NEW j \in 1 .. n PROVE load.out[k + j - 1] \in Byte
    <3>1. k + j - 1 \in Offset
      BY <1>1, <1>2 DEF Offset
    <3> QED BY <2>1, <3>1
  <2> QED BY <2>2
<1>6. Len(d) = n
  BY <1>2
<1>7. Cursor("write") \in Transaction /\ Moved("write", n) \in Transaction
  BY <1>1, <1>2, CursorType
<1> HIDE DEF n, d
<1>8. /\ powered' = powered /\ regs' = regs
      /\ mem' \in Memories
      /\ cursor' \in Transaction
  <2>1. CASE Acted(how)
    <3>1. /\ cursor' = Moved("write", n) /\ powered' = powered /\ regs' = regs
          /\ mem' = IF Addressed("write")
                    THEN Put(mem, Cursor("write").space, Cursor("write").at, d)
                    ELSE mem
      BY <1>3, <1>6, <2>1 DEF Deliver
    <3>2. Cursor("write").space \in {"flash", "sram"} /\ Cursor("write").at \in Nat
      BY <1>7 DEF Transaction
    <3>3. mem' \in Memories
      BY <1>1, <1>2, <1>5, <3>1, <3>2, PutType DEF TypeOK
    <3> QED BY <1>7, <3>1, <3>3
  <2>2. CASE ~ Acted(how)
    BY <1>1, <1>3, <2>2 DEF TypeOK, target
  <2> QED BY <2>1, <2>2
<1>9. /\ k' \in Nat
      /\ \/ pc' = pc /\ k' = k + n /\ k' < Bytes(load)
         \/ pc' = "flags" /\ k' = 0 /\ k + n = Bytes(load)
  BY <1>1, <1>2, TransferredStep DEF WriteImage, n
<1>10. TypeOK'
  BY <1>1, <1>4, <1>8, <1>9 DEF TypeOK, Bytes
<1>11. Place'
  <2>1. Len(Flags) \in Nat \ {0}
    BY FlagsAssumption, EmptySeq
  <2>2. CASE pc' = pc
    <3>1. k' = k + n /\ k' < Bytes(load)'
      BY <1>1, <1>9, <2>2 DEF Bytes
    <3> QED BY <1>1, <2>2, <3>1 DEF Place
  <2>3. CASE pc' = "flags" /\ k' = 0
    BY <1>1, <2>1, <2>3 DEF Place
  <2> QED BY <1>9, <2>2, <2>3
<1>12. ReadSoFar' /\ Heard' /\ HeardPassMeansProgrammed'
  BY <1>1, <1>9 DEF ReadSoFar, Heard, HeardPassMeansProgrammed
<1> QED BY <1>10, <1>11, <1>12 DEF IInv

(* So does every packet that writes the flag words.                        *)
LEMMA WriteFlagsStep ==
  ASSUME IInv, WriteFlags
  PROVE  IInv'
<1> DEFINE at == At(k + 1)
           d == Flags[k + 1][2]
<1>1. /\ TypeOK /\ load \in Loads /\ pc = "flags" /\ k \in Nat
      /\ k < Len(Flags) /\ tmp = <<>> /\ verdict # "pass"
      /\ UNCHANGED <<op, load, tmp, verdict, unheard, powered, regs>>
  BY DEF IInv, TypeOK, Place, ReadSoFar, WriteFlags
<1>2. PICK how \in Ends :
        /\ Exchange(how)
        /\ mem' = IF Acted(how) /\ Open THEN Put(mem, "flash", at, d) ELSE mem
        /\ cursor' = IF Acted(how) THEN NoCursor ELSE cursor
  BY DEF WriteFlags
<1>3. failed' \in 0 .. MaxFaults
  BY <1>1, <1>2, ExchangeType
<1>4. at \in Nat /\ d \in [1 .. WordBytes -> Byte] /\ WordBytes \in Nat
  <2>1. Flags \in Seq(Nat \X [1 .. WordBytes -> Byte]) /\ WordBytes \in Nat
    BY FlagsAssumption, SizesAssumption
  <2>2. Len(Flags) \in Nat
    BY <2>1, LenProperties
  <2>3. k + 1 \in 1 .. Len(Flags)
    BY <1>1, <2>2
  <2>4. Flags[k + 1] \in Nat \X [1 .. WordBytes -> Byte]
    BY <2>1, <2>3, ElementOfSeq
  <2>5. Flags[k + 1][1] \in Nat /\ d \in [1 .. WordBytes -> Byte]
    BY <2>4
  <2> QED BY <2>1, <2>5 DEF At
<1> HIDE DEF at, d
<1>5. mem' \in Memories
  BY <1>1, <1>2, <1>4, PutType DEF TypeOK
<1>6. /\ k' \in Nat
      /\ \/ pc' = pc /\ k' < Len(Flags)
         \/ pc' = "read" /\ k' = 0
  <2>1. CASE k + 1 < Len(Flags)
    BY <1>1, <2>1 DEF WriteFlags
  <2>2. CASE ~ (k + 1 < Len(Flags))
    BY <1>1, <2>2 DEF WriteFlags
  <2> QED BY <2>1, <2>2
<1>7. TypeOK'
  <2>1. cursor' \in Transaction
    BY <1>1, <1>2 DEF TypeOK, NoCursor, Transaction
  <2> QED BY <1>1, <1>3, <1>5, <1>6, <2>1 DEF TypeOK, Bytes
<1>8. Place'
  BY <1>1, <1>6 DEF Place
<1>9. ReadSoFar' /\ Heard' /\ HeardPassMeansProgrammed'
  <2>1. Len(tmp) = 0
    BY <1>1, EmptySeq
  <2> QED BY <1>1, <1>6, <2>1
          DEF ReadSoFar, Heard, HeardPassMeansProgrammed
<1> QED BY <1>7, <1>8, <1>9 DEF IInv

-----------------------------------------------------------------------------
(* What a failed exchange leaves in the buffer is bytes.                   *)
LEMMA LeftOverType ==
  ASSUME IInv, pc = "read", NEW n \in Nat, k + n <= Bytes(load),
         n <= Pkt \/ k = 0,
         NEW got \in LeftOver(n)
  PROVE  got \in [1 .. n -> Byte]
<1>1. /\ 0 \in Byte /\ Pkt \in Nat \ {0} /\ RdFirst \in Nat \ {0} /\ k \in Nat
      /\ Bytes(load) \in Nat /\ tmp \in Seq(Byte) /\ Len(tmp) = k
  BY BytesAssumption, SizesAssumption, BytesFit
  DEF IInv, TypeOK, Place, ReadSoFar
<1>2. Least(Bytes(load), RdFirst) \in Nat
  BY <1>1 DEF Least
<1>3. CASE k = 0 \/ k + n < Bytes(load)
  BY <1>1, <1>3 DEF LeftOver
<1>4. CASE ~ (k = 0 \/ k + n < Bytes(load)) /\ k = Least(Bytes(load), RdFirst)
  BY <1>4 DEF LeftOver
<1>5. CASE ~ (k = 0 \/ k + n < Bytes(load)) /\ k # Least(Bytes(load), RdFirst)
  <2>1. k >= Pkt + Least(Bytes(load), RdFirst) /\ n <= Pkt
    BY <1>1, <1>2, <1>5 DEF IInv, Place
  <2>2. ASSUME NEW j \in 1 .. n PROVE tmp[k - Pkt + j] \in Byte
    <3>1. k - Pkt + j \in 1 .. Len(tmp)
      BY <1>1, <1>2, <2>1
    <3> QED BY <1>1, <3>1, ElementOfSeq
  <2>3. got = [j \in 1 .. n |-> tmp[k - Pkt + j]]
    BY <1>5 DEF LeftOver
  <2> QED BY <2>2, <2>3
<1> QED BY <1>3, <1>4, <1>5

(* So does every packet that reads back: what was heard is the target's.   *)
LEMMA ReadBackStep ==
  ASSUME IInv, ReadBack
  PROVE  IInv'
<1> DEFINE n == Piece(RdFirst)
           first == Least(Bytes(load), RdFirst)
<1>1. /\ TypeOK /\ load \in Loads /\ pc = "read" /\ k \in Nat
      /\ Bytes(load) > 0 /\ Bytes(load) \in Nat
      /\ (k > 0 => k < Bytes(load))
      /\ (k > 0 => k = first \/ k >= Pkt + first)
      /\ tmp \in Seq(Byte) /\ Len(tmp) = k /\ verdict # "pass"
      /\ (~ unheard => \A j \in 1 .. k : tmp[j] = mem[Base][j - 1])
      /\ (~ unheard /\ k > 0 => cursor = Own("read", k))
      /\ UNCHANGED <<op, load, verdict, powered, regs, mem>>
  BY BytesFit DEF IInv, TypeOK, Place, ReadSoFar, Heard, ReadBack
<1>2. /\ Bytes(load) <= Size /\ Size \in Nat
      /\ Pkt \in Nat \ {0} /\ RdFirst \in Nat \ {0}
  BY <1>1, BytesFit, SizesAssumption DEF Load
<1>3. n \in Nat /\ k + n <= Bytes(load) /\ n > 0
  BY <1>1, <1>2, PieceFits
<1>4. /\ k = 0 => n = first
      /\ k > 0 => n <= Pkt /\ (k + n < Bytes(load) => n = Pkt)
  BY <1>1, <1>2 DEF Piece, Least
<1>5. PICK how \in Ends :
        /\ Exchange(how)
        /\ \E got \in Copied(how, n) : tmp' = tmp \o got
        /\ unheard' = (unheard \/ how # "done" \/ ~ Addressed("read"))
        /\ cursor' = IF Acted(how) THEN Moved("read", n) ELSE cursor
  BY DEF ReadBack
<1>6. PICK got \in Copied(how, n) : tmp' = tmp \o got
  BY <1>5
<1>7. failed' \in 0 .. MaxFaults
  BY <1>1, <1>5, ExchangeType
<1>8. Cursor("read") \in Transaction /\ Moved("read", n) \in Transaction
  BY <1>1, <1>3, CursorType
<1>9. /\ k' \in Nat
      /\ \/ pc' = pc /\ k' = k + n /\ k' < Bytes(load)
         \/ pc' = "compare" /\ k' = 0 /\ k + n = Bytes(load)
  BY <1>1, <1>3, TransferredStep DEF ReadBack
<1> HIDE DEF n
<1>10. got \in [1 .. n -> Byte]
  <2>1. CASE how = "done"
    <3>1. got = Fetched(n)
      BY <1>6, <2>1 DEF Copied
    <3> DEFINE from == Cursor("read").at
    <3>2. Cursor("read").space \in {"flash", "sram"}
      BY <1>8 DEF Transaction
    <3>3. ASSUME NEW j \in 1 .. n, from + j - 1 \in Offset
          PROVE  mem[Cursor("read").space][from + j - 1] \in Byte
      BY <1>1, <3>2, <3>3 DEF TypeOK, Memories
    <3> QED BY <3>1, <3>3, BytesAssumption DEF Fetched
  <2>2. CASE how # "done"
    <3>1. n <= Pkt \/ k = 0
      BY <1>1, <1>4
    <3>2. CASE how \in {"wrong", "stale"}
      BY <1>6, <2>2, <3>2 DEF Copied
    <3>3. CASE how \notin {"wrong", "stale"}
      <4>1. got \in LeftOver(n)
        BY <1>6, <2>2, <3>3 DEF Copied
      <4> QED BY <1>1, <1>3, <3>1, <4>1, LeftOverType
    <3> QED BY <3>2, <3>3
  <2> QED BY <2>1, <2>2
<1>11. /\ tmp' \in Seq(Byte) /\ Len(tmp') = k + n
       /\ \A j \in 1 .. k : tmp'[j] = tmp[j]
       /\ \A j \in 1 .. n : tmp'[k + j] = got[j]
  <2>1. got \in Seq(Byte) /\ Len(got) = n
    BY <1>3, <1>10
  <2>2. /\ tmp \o got \in Seq(Byte) /\ Len(tmp \o got) = k + n
        /\ \A i \in 1 .. k + n :
             (tmp \o got)[i] = IF i <= k THEN tmp[i] ELSE got[i - k]
    BY <1>1, <2>1, ConcatProperties
  <2>3. ASSUME NEW j \in 1 .. k PROVE tmp'[j] = tmp[j]
    <3>1. j \in 1 .. k + n /\ j <= k
      BY <1>1, <1>3
    <3> QED BY <1>6, <2>2, <3>1
  <2>4. ASSUME NEW j \in 1 .. n PROVE tmp'[k + j] = got[j]
    <3>1. k + j \in 1 .. k + n /\ ~ (k + j <= k) /\ (k + j) - k = j
      BY <1>1, <1>3
    <3> QED BY <1>6, <2>2, <3>1
  <2> QED BY <1>6, <2>2, <2>3, <2>4
<1>12. cursor' \in Transaction
  BY <1>1, <1>5, <1>8 DEF TypeOK
<1>13. TypeOK'
  <2>1. Len(tmp') <= Bytes(load)
    BY <1>3, <1>11
  <2>2. unheard' \in BOOLEAN
    BY <1>5
  <2> QED BY <1>1, <1>7, <1>9, <1>11, <1>12, <2>1, <2>2 DEF TypeOK, Bytes
<1>14. Place'
  <2>1. CASE pc' = pc
    <3>1. k' = k + n /\ k' < Bytes(load)' /\ k' > 0
      BY <1>1, <1>3, <1>9, <2>1 DEF Bytes
    <3>2. first \in Nat
      BY <1>1, <1>2 DEF Least
    <3>3. k' = first \/ k' >= Pkt + first
      <4> HIDE DEF first
      <4>1. CASE k = 0
        BY <1>3, <1>4, <3>1, <4>1
      <4>2. CASE k > 0
        <5>1. n = Pkt
          BY <1>4, <1>9, <2>1, <3>1, <4>2 DEF Bytes
        <5> QED BY <1>1, <1>2, <3>1, <3>2, <4>2, <5>1
      <4> QED BY <1>1, <4>1, <4>2
    <3>4. first = Least(Bytes(load)', RdFirst)
      BY <1>1 DEF Bytes
    <3> HIDE DEF first
    <3> QED BY <1>1, <2>1, <3>1, <3>3, <3>4 DEF Place
  <2>2. CASE pc' = "compare" /\ k' = 0
    BY <1>1, <2>2 DEF Place
  <2> QED BY <1>9, <2>1, <2>2
<1>15. ReadSoFar'
  BY <1>1, <1>9, <1>11 DEF ReadSoFar, Bytes
<1>16. Heard'
  <2>1. ASSUME ~ unheard'
        PROVE  /\ \A j \in 1 .. k + n : tmp'[j] = mem[Base][j - 1]
               /\ k + n < Bytes(load) => cursor' = Own("read", k + n)
    <3>1. /\ ~ unheard /\ how = "done" /\ Addressed("read") /\ got = Fetched(n)
          /\ Acted(how)
      BY <1>5, <1>6, <2>1 DEF Acted, Copied
    <3>2. Cursor("read") = Own("read", k)
      BY <1>1, <3>1 DEF Cursor, Addressed
    <3>3. \A j \in 1 .. n : got[j] = mem[Base][k + j - 1]
      <4>1. Cursor("read").at = k /\ Cursor("read").space = Base
        BY <3>2 DEF Own
      <4>2. ASSUME NEW j \in 1 .. n PROVE k + j - 1 \in Offset
        BY <1>1, <1>2, <1>3 DEF Offset
      <4> QED BY <3>1, <4>1, <4>2 DEF Fetched
    <3>4. ASSUME NEW j \in 1 .. k + n PROVE tmp'[j] = mem[Base][j - 1]
      <4>1. CASE j <= k
        BY <1>1, <1>11, <3>1, <4>1
      <4>2. CASE j > k
        <5>1. j - k \in 1 .. n /\ k + (j - k) = j /\ k + (j - k) - 1 = j - 1
          BY <1>1, <1>3, <4>2
        <5>2. tmp'[k + (j - k)] = mem[Base][k + (j - k) - 1]
          BY <1>11, <3>3, <5>1
        <5> QED BY <5>1, <5>2
      <4> QED BY <1>1, <1>3, <4>1, <4>2
    <3>5. ASSUME k + n < Bytes(load) PROVE cursor' = Own("read", k + n)
      <4>1. cursor' = [Own("read", k) EXCEPT !.at = @ + n]
        BY <1>1, <1>3, <1>5, <3>1, <3>2, <3>5 DEF Moved
      <4> QED BY <4>1 DEF Own
    <3> QED BY <3>4, <3>5
  <2>2. mem' = mem /\ Base' = Base
    BY <1>1 DEF Base
  <2> QED BY <1>9, <1>11, <2>1, <2>2 DEF Heard, Own
<1>17. HeardPassMeansProgrammed'
  BY <1>1 DEF HeardPassMeansProgrammed
<1> QED BY <1>13, <1>14, <1>15, <1>16, <1>17 DEF IInv

(* So does a read of no words.                                             *)
LEMMA ReadNothingStep ==
  ASSUME IInv, ReadNothing
  PROVE  IInv'
<1>1. /\ TypeOK /\ Place /\ pc = "read" /\ pc' = "crashed"
      /\ Bytes(load) = 0 /\ verdict # "pass"
      /\ UNCHANGED <<op, load, k, tmp, verdict, failed, unheard, powered, regs,
                     mem, cursor>>
  BY DEF IInv, ReadNothing, Place, target
<1>2. k = 0
  BY <1>1 DEF TypeOK, Place
<1>3. TypeOK'
  BY <1>1 DEF TypeOK, Bytes
<1>4. Place'
  BY <1>1, <1>2 DEF Place
<1>5. ReadSoFar' /\ Heard' /\ HeardPassMeansProgrammed'
  BY <1>1 DEF ReadSoFar, Heard, HeardPassMeansProgrammed
<1> QED BY <1>3, <1>4, <1>5 DEF IInv

(* So does the comparison, and a pass means what it should.                *)
LEMMA CompareStep ==
  ASSUME IInv, Compare
  PROVE  IInv'
<1>1. /\ TypeOK /\ Place /\ pc = "compare" /\ k = 0 /\ Len(tmp) = Bytes(load)
      /\ (~ unheard => \A j \in 1 .. Bytes(load) : tmp[j] = mem[Base][j - 1])
      /\ UNCHANGED <<op, load, k, tmp, failed, unheard, powered, regs, mem,
                     cursor>>
  BY DEF IInv, Place, ReadSoFar, Heard, Compare, target
<1>2. Bytes(load) \in Nat
  BY <1>1, BytesFit DEF Place
<1>3. \/ /\ verdict' = "pass" /\ pc' = "reset"
         /\ \A j \in 1 .. Bytes(load) : tmp[j] = load.out[j - 1]
      \/ verdict' = "fail" /\ pc' = "over"
  BY DEF Compare
<1>4. TypeOK'
  BY <1>1, <1>3 DEF TypeOK, Bytes
<1>5. Place'
  BY <1>1, <1>3, ScriptTypes DEF Place
<1>6. ReadSoFar' /\ Heard'
  BY <1>3 DEF ReadSoFar, Heard
<1>7. HeardPassMeansProgrammed'
  <2> SUFFICES ASSUME verdict' = "pass", ~ unheard PROVE Programmed'
    BY <1>1 DEF HeardPassMeansProgrammed
  <2>1. ASSUME NEW a \in 0 .. Bytes(load) - 1
        PROVE  mem[Base][a] = load.out[a]
    <3>1. a + 1 \in 1 .. Bytes(load) /\ (a + 1) - 1 = a
      BY <1>2
    <3>2. tmp[a + 1] = mem[Base][(a + 1) - 1]
      BY <1>1, <3>1
    <3>3. tmp[a + 1] = load.out[(a + 1) - 1]
      BY <1>3, <3>1
    <3> QED BY <3>1, <3>2, <3>3
  <2> QED BY <1>1, <2>1 DEF Programmed, Bytes, Base
<1> QED BY <1>4, <1>5, <1>6, <1>7 DEF IInv

(* So does a wait for a report that nobody sends.                          *)
LEMMA BlocksStep ==
  ASSUME IInv, Blocks
  PROVE  IInv'
<1>1. /\ TypeOK /\ Place /\ pc' = "blocked"
      /\ UNCHANGED <<op, load, k, tmp, verdict, unheard, powered, regs, mem,
                     cursor>>
  BY DEF IInv, Blocks, target
<1>2. failed' \in 0 .. MaxFaults
  BY <1>1, ExchangeType DEF Blocks
<1>3. TypeOK'
  BY <1>1, <1>2 DEF TypeOK, Bytes
<1>4. Place'
  BY <1>1 DEF Place
<1>5. ReadSoFar' /\ Heard'
  BY <1>1 DEF ReadSoFar, Heard
<1>6. HeardPassMeansProgrammed'
  BY <1>1 DEF IInv, HeardPassMeansProgrammed, Programmed, Bytes, Base
<1> QED BY <1>3, <1>4, <1>5, <1>6 DEF IInv

(* So does a step that changes nothing.                                    *)
LEMMA StutterStep ==
  ASSUME IInv, UNCHANGED vars
  PROVE  IInv'
<1>1. UNCHANGED <<op, load, pc, k, tmp, verdict, failed, unheard, powered, regs,
                  mem, cursor>>
  BY DEF vars, target
<1>2. TypeOK'
  BY <1>1 DEF IInv, TypeOK, Bytes
<1>3. Place' /\ ReadSoFar' /\ Heard'
  BY <1>1 DEF IInv, Place, ReadSoFar, Heard, Bytes, Base, Own
<1>4. HeardPassMeansProgrammed'
  BY <1>1 DEF IInv, HeardPassMeansProgrammed, Programmed, Bytes, Base
<1> QED BY <1>2, <1>3, <1>4 DEF IInv

(* The invariant is inductive.                                             *)
LEMMA EveryStep == IInv /\ [Next]_vars => IInv'
  BY ScriptPhases, LoadFileStep, WriteImageStep, WriteFlagsStep, ReadBackStep,
     ReadNothingStep, CompareStep, BlocksStep, StutterStep
  DEF Next, Over

-----------------------------------------------------------------------------
(* The state of a download keeps its types; what is read back never        *)
(* outgrows the words asked for.                                           *)
THEOREM TypeCorrect == Spec => []TypeOK
<1>1. IInv => TypeOK
  BY DEF IInv
<1> QED BY InitHolds, EveryStep, <1>1, PTL DEF Spec

(* For images and packets of any size and any number of failed exchanges:  *)
(* the comparison of a download finds whatever the writes lost, so that a  *)
(* pass on bytes the target delivered means the image is in place.         *)
THEOREM HeardPassHolds == Spec => []HeardPassMeansProgrammed
<1>1. IInv => HeardPassMeansProgrammed
  BY DEF IInv
<1> QED BY InitHolds, EveryStep, <1>1, PTL DEF Spec

-----------------------------------------------------------------------------
(* What is compared, or was, is a word at least.                           *)
SomeWords ==
  pc \in {"compare", "reset"} \/ verdict = "pass" => Bytes(load) > 0

LEMMA ReachesCompare ==
  ASSUME IInv, SomeWords, [Next]_vars
  PROVE  SomeWords'
<1>1. load' = load /\ Bytes(load)' = Bytes(load)
  BY DEF Next, PowerOn, LoadFile, Unlock, Script, WriteImage, WriteFlags, ReadBack,
         ReadNothing, Compare, Reset, Blocks, Over, vars, Bytes
<1>2. CASE ReadBack
  BY <1>1, <1>2 DEF ReadBack, SomeWords
<1>3. CASE Compare
  BY <1>1, <1>3 DEF Compare, SomeWords
<1>4. CASE Reset
  BY <1>1, <1>4 DEF Reset, SomeWords
<1>5. CASE PowerOn \/ Unlock
  BY <1>1, <1>5 DEF PowerOn, Unlock, Script, SomeWords
<1>6. CASE LoadFile
  BY <1>1, <1>6 DEF LoadFile, SomeWords
<1>7. CASE WriteImage \/ WriteFlags \/ ReadNothing \/ Blocks
  BY <1>1, <1>7
  DEF WriteImage, Transferred, WriteFlags, ReadNothing, Blocks, SomeWords
<1>8. CASE UNCHANGED vars
  BY <1>1, <1>8 DEF vars, SomeWords
<1> QED BY <1>2, <1>3, <1>4, <1>5, <1>6, <1>7, <1>8 DEF Next, Over

LEMMA WordsAreLong ==
  ASSUME load \in Loads, SomeWords
  PROVE  ShortNeverPasses
<1> SUFFICES ASSUME verdict = "pass", load.len < WordBytes PROVE FALSE
  <2>1. load.len \in Nat /\ WordBytes \in Nat
    BY BytesFit, SizesAssumption DEF Load
  <2> QED BY <2>1 DEF ShortNeverPasses
<1>1. load.len \in Nat /\ WordBytes \in Nat \ {0}
  BY BytesFit, SizesAssumption DEF Load
<1>2. load.len \div WordBytes = 0
  <2>1. \A x \in Nat, y \in Nat \ {0} : x < y => x \div y = 0
    OBVIOUS
  <2> QED BY <1>1, <2>1
<1>3. Bytes(load) = 0
  BY <1>1, <1>2 DEF Bytes
<1> QED BY <1>3 DEF SomeWords

-----------------------------------------------------------------------------
(* The procedure as it goes when every exchange goes well.                 *)

InFlag(f, a) == a \in At(f) .. At(f) + WordBytes - 1

(* The image with the first m flag words over it.                          *)
InPlace(m) ==
  /\ \A a \in 0 .. Bytes(load) - 1 :
       op = "cp2" \/ (\A f \in 1 .. m : ~ InFlag(f, a))
         => mem[Base][a] = load.out[a]
  /\ op = "cp1" => \A f \in 1 .. m : \A j \in 1 .. WordBytes :
       At(f) + j - 1 < Bytes(load) => mem["flash"][At(f) + j - 1] = Flags[f][2][j]

Clean ==
  /\ pc \in {"load", "unlock", "write", "flags", "read"} => powered
  /\ pc = "unlock" => (k >= 1 => "enable" \in regs) /\ (k >= 2 => "key" \in regs)
  /\ pc \in {"write", "flags", "read"} => {"enable", "key"} \subseteq regs
  /\ pc = "write" =>
       /\ k > 0 => cursor = Own("write", k)
       /\ \A a \in 0 .. k - 1 : mem[Base][a] = load.out[a]
  /\ pc = "flags" => InPlace(k)
  /\ pc \in {"read", "compare"} => InPlace(Len(Flags)) /\ ~ unheard

(* Nothing is heard, and no message box shown, before its time.            *)
Early ==
  /\ pc \in {"power", "load", "unlock", "write", "flags"} => ~ unheard
  /\ verdict # "none" => pc \in {"reset", "over", "blocked"}

CInv == IInv /\ Early /\ (failed = 0 => Clean) /\ CleanVerdict

(* An exchange that leaves failed at zero was done.                        *)
LEMMA DoneIsClean ==
  ASSUME TypeOK, NEW how, Exchange(how), failed' = 0
  PROVE  how = "done" /\ failed = 0 /\ Acted(how)
<1>1. failed \in Nat
  BY SizesAssumption DEF TypeOK
<1>2. how = "done"
  BY <1>1 DEF Exchange
<1> QED BY <1>1, <1>2 DEF Exchange, Acted

(* Two words that start at different places share no byte.                 *)
LEMMA WordsApart ==
  ASSUME NEW x \in Nat, NEW y \in Nat, x # y, NEW w \in Nat \ {0},
         NEW i \in 1 .. w, NEW j \in 1 .. w
  PROVE  x * w + i # y * w + j
<1>1. ASSUME NEW u \in Nat, NEW v \in Nat, u < v PROVE u * w + w <= v * w
  <2>1. v - u - 1 \in Nat
    BY <1>1
  <2>2. (v - u - 1) * w >= 0
    BY <2>1
  <2>3. v * w = u * w + w + (v - u - 1) * w
    OBVIOUS
  <2> QED BY <2>2, <2>3
<1>2. x * w \in Nat /\ y * w \in Nat
  OBVIOUS
<1>3. CASE x < y
  BY <1>1, <1>2, <1>3
<1>4. CASE y < x
  BY <1>1, <1>2, <1>4
<1> QED BY <1>3, <1>4

(* A flag word has a place and the bytes of a word.                        *)
LEMMA FlagType ==
  ASSUME NEW f \in 1 .. Len(Flags)
  PROVE  /\ Flags[f][1] \in Nat /\ At(f) \in Nat
         /\ Flags[f][2] \in [1 .. WordBytes -> Byte]
         /\ Len(Flags[f][2]) = WordBytes
         /\ At(f) + WordBytes <= Size
         /\ f \in DOMAIN Flags
<1>1. Flags \in Seq(Nat \X [1 .. WordBytes -> Byte]) /\ WordBytes \in Nat
  BY FlagsAssumption, SizesAssumption
<1>2. Flags[f] \in Nat \X [1 .. WordBytes -> Byte] /\ f \in DOMAIN Flags
  BY <1>1, ElementOfSeq
<1>3. Flags[f][1] \in Nat /\ Flags[f][2] \in [1 .. WordBytes -> Byte]
  BY <1>2
<1>4. At(f) \in Nat
  BY <1>1, <1>3 DEF At
<1>5. (Flags[f][1] + 1) * WordBytes <= Size
  BY <1>2, FlagsAssumption
<1>6. (Flags[f][1] + 1) * WordBytes = At(f) + WordBytes
  BY <1>1, <1>3 DEF At
<1>7. Len(Flags[f][2]) = WordBytes
  BY <1>1, <1>3
<1> QED BY <1>2, <1>3, <1>4, <1>5, <1>6, <1>7

(* Different flag words share no byte.                                     *)
LEMMA FlagsApart ==
  ASSUME NEW f \in 1 .. Len(Flags), NEW g \in 1 .. Len(Flags), f # g,
         NEW a, InFlag(f, a)
  PROVE  ~ InFlag(g, a)
<1>1. /\ Flags[f][1] \in Nat /\ Flags[g][1] \in Nat
      /\ Flags[f][1] # Flags[g][1] /\ WordBytes \in Nat \ {0}
  BY FlagType, FlagsAssumption, SizesAssumption
<1>2. At(f) \in Nat /\ At(g) \in Nat
  BY FlagType
<1> SUFFICES ASSUME InFlag(g, a) PROVE FALSE
  OBVIOUS
<1>3. /\ a \in Int /\ a - At(f) + 1 \in 1 .. WordBytes
      /\ a - At(g) + 1 \in 1 .. WordBytes
  BY <1>1, <1>2 DEF InFlag
<1>4. Flags[f][1] * WordBytes + (a - At(f) + 1)
        # Flags[g][1] * WordBytes + (a - At(g) + 1)
  BY <1>1, <1>3, WordsApart
<1>5. /\ At(f) + (a - At(f) + 1) = a + 1
      /\ At(g) + (a - At(g) + 1) = a + 1
  BY <1>2, <1>3
<1> QED BY <1>4, <1>5 DEF At

(* What Put does to each byte.                                             *)
LEMMA PutAt ==
  ASSUME NEW m \in Memories, NEW space, NEW from, NEW d,
         NEW s \in {"flash", "sram"}, NEW a \in Offset
  PROVE  Put(m, space, from, d)[s][a] =
           IF s = space /\ a \in from .. from + Len(d) - 1
           THEN d[a - from + 1] ELSE m[s][a]
<1>1. DOMAIN m = {"flash", "sram"}
  BY DEF Memories
<1> QED BY <1>1 DEF Put

(* Early is kept.                                                          *)
LEMMA EarlyKept ==
  ASSUME IInv, Early, [Next]_vars
  PROVE  Early'
<1>1. CASE PowerOn \/ Unlock \/ Reset
  <2>1. UNCHANGED <<verdict, unheard>>
    BY <1>1 DEF PowerOn, Unlock, Reset, Script
  <2>2. \/ pc \in {"power", "unlock"}
           /\ pc' \in {"power", "load", "unlock", "write"}
        \/ pc = "reset" /\ pc' \in {"reset", "over"}
    BY <1>1 DEF PowerOn, Unlock, Reset, Script
  <2> QED BY <2>1, <2>2 DEF Early
<1>2. CASE LoadFile
  BY <1>2 DEF LoadFile, Early
<1>3. CASE WriteImage \/ WriteFlags
  <2>1. UNCHANGED <<verdict, unheard>> /\ pc \in {"write", "flags"}
    BY <1>3 DEF WriteImage, WriteFlags
  <2>2. pc' \in {"write", "flags", "read"}
    BY <1>3 DEF WriteImage, WriteFlags, Transferred
  <2> QED BY <2>1, <2>2 DEF Early
<1>4. CASE ReadBack
  <2>1. pc = "read" /\ pc' \in {"read", "compare"} /\ verdict' = verdict
    BY <1>4 DEF ReadBack, Transferred
  <2> QED BY <2>1 DEF Early
<1>5. CASE ReadNothing \/ Compare
  BY <1>5 DEF ReadNothing, Compare, Early
<1>6. CASE Blocks \/ Over \/ UNCHANGED vars
  BY <1>6 DEF Blocks, Over, vars, Early
<1> QED BY <1>1, <1>2, <1>3, <1>4, <1>5, <1>6 DEF Next

(* A verdict that stands stays what it was.                                *)
LEMMA VerdictStands ==
  ASSUME TypeOK, CleanVerdict, UNCHANGED <<verdict, load, op>>,
         failed' = 0 => failed = 0
  PROVE  CleanVerdict'
BY DEF CleanVerdict, ClearOfFlags, Bytes

(* Switching on and unlocking without a fault do so.                       *)
LEMMA CleanScripts ==
  ASSUME CInv, PowerOn \/ Unlock \/ Reset, failed' = 0
  PROVE  Clean' /\ failed = 0
<1>1. TypeOK /\ k \in Nat
  BY DEF CInv, IInv, TypeOK
<1>2. CASE PowerOn
  <2>1. PICK how \in Ends :
          /\ Exchange(how)
          /\ IF Acted(how) THEN Access(<<"power">>[k + 1]) ELSE UNCHANGED target
    BY <1>2 DEF PowerOn, Script
  <2>2. Acted(how) /\ failed = 0
    BY <1>1, <2>1, DoneIsClean
  <2>3. k = 0
    BY <1>2 DEF PowerOn, CInv, IInv, Place
  <2>4. powered' = TRUE
    <3>1. <<"power">>[k + 1] = "power"
      BY <2>3
    <3>2. Access("power")
      BY <2>1, <2>2, <3>1
    <3> QED BY <3>2 DEF Access
  <2>5. pc' = "load"
    BY <1>2, <2>3, ScriptTypes DEF PowerOn, Script
  <2> QED BY <2>2, <2>4, <2>5 DEF Clean
<1>3. CASE Unlock
  <2>1. PICK how \in Ends :
          /\ Exchange(how)
          /\ IF Acted(how) THEN Access(Prologue[k + 1]) ELSE UNCHANGED target
    BY <1>3 DEF Unlock, Script
  <2>2. Acted(how) /\ failed = 0
    BY <1>1, <2>1, DoneIsClean
  <2>3. /\ pc = "unlock" /\ k \in 0 .. 4
        /\ powered
        /\ k >= 1 => "enable" \in regs
        /\ k >= 2 => "key" \in regs
    <3>1. pc = "unlock" /\ k < 5
      BY <1>3, ScriptTypes DEF Unlock, CInv, IInv, Place
    <3> QED BY <1>1, <2>2, <3>1 DEF CInv, Clean
  <2>4. /\ Prologue[k + 1] \in {"enable", "key", "halt", "clock", "mask"}
        /\ k = 0 => Prologue[k + 1] = "enable"
        /\ k = 1 => Prologue[k + 1] = "key"
    BY <2>3 DEF Prologue
  <2>5. /\ powered' = TRUE
        /\ regs' = regs \union {Prologue[k + 1]}
    BY <2>1, <2>2, <2>3, <2>4 DEF Access
  <2>6. "enable" \in regs' /\ (k >= 1 => "key" \in regs')
    BY <2>3, <2>4, <2>5
  <2>7. CASE k + 1 < 5
    <3>1. pc' = "unlock" /\ k' = k + 1
      BY <1>3, <2>3, <2>7, ScriptTypes DEF Unlock, Script
    <3>2. k' >= 2 => k >= 1
      BY <2>3, <3>1
    <3> QED BY <2>2, <2>5, <2>6, <3>1, <3>2 DEF Clean
  <2>8. CASE ~ (k + 1 < 5)
    <3>1. pc' = "write" /\ k' = 0 /\ k >= 1
      BY <1>3, <2>3, <2>8, ScriptTypes DEF Unlock, Script
    <3>2. {"enable", "key"} \subseteq regs'
      BY <2>6, <3>1
    <3>3. /\ ~ (k' > 0)
          /\ \A a \in 0 .. k' - 1 : mem'[Base'][a] = load'.out[a]
      BY <3>1
    <3> QED BY <2>2, <2>5, <3>1, <3>2, <3>3 DEF Clean
  <2> QED BY <2>7, <2>8
<1>4. CASE Reset
  <2>1. pc' \in {"reset", "over"}
    BY <1>4 DEF Reset, Script
  <2>2. PICK how \in Ends : Exchange(how)
    BY <1>4 DEF Reset, Script
  <2>3. failed = 0
    BY <1>1, <2>2, DoneIsClean
  <2> QED BY <2>1, <2>3 DEF Clean
<1> QED BY <1>2, <1>3, <1>4

(* A packet that arrives puts its bytes where they belong.                 *)
LEMMA CleanWriteImage ==
  ASSUME CInv, WriteImage, failed' = 0
  PROVE  Clean' /\ failed = 0
<1> DEFINE n == Piece(WrFirst)
           d == [j \in 1 .. n |-> load.out[k + j - 1]]
<1>1. /\ TypeOK /\ load \in Loads /\ pc = "write" /\ k \in Nat
      /\ mem \in Memories /\ op \in {"cp1", "cp2"}
      /\ (k > 0 => k < Bytes(load))
      /\ UNCHANGED <<op, load, unheard>>
  BY DEF CInv, IInv, TypeOK, Place, WriteImage
<1>2. /\ n \in Nat /\ k + n <= Bytes(load)
      /\ Bytes(load) \in Nat /\ Bytes(load) <= Size /\ Size \in Nat
  <2>1. WrFirst \in Nat \ {0} /\ Size \in Nat
    BY SizesAssumption
  <2>2. /\ Bytes(load) \in Nat /\ Bytes(load) <= load.len
        /\ load.len <= Size /\ load.len \in Nat
    BY <1>1, BytesFit DEF Load
  <2>3. Bytes(load) <= Size
    BY <2>1, <2>2
  <2> QED BY <1>1, <2>1, <2>2, <2>3, PieceFits
<1>3. PICK how \in Ends :
        Exchange(how) /\ IF Acted(how) THEN Deliver(d) ELSE UNCHANGED target
  BY DEF WriteImage
<1>4. Acted(how) /\ failed = 0
  BY <1>1, <1>3, DoneIsClean
<1>5. /\ powered /\ {"enable", "key"} \subseteq regs
      /\ k > 0 => cursor = Own("write", k)
      /\ \A a \in 0 .. k - 1 : mem[Base][a] = load.out[a]
  BY <1>1, <1>4 DEF CInv, Clean
<1>6. Cursor("write") = Own("write", k) /\ Addressed("write")
  <2>1. Cursor("write") = Own("write", k)
    BY <1>1, <1>5 DEF Cursor, Open
  <2> QED BY <1>5, <2>1 DEF Addressed, Open, Own
<1>7. d \in [1 .. n -> Byte] /\ Len(d) = n
  <2>1. load.out \in [Offset -> Byte]
    BY <1>1 DEF TypeOK, Load
  <2>2. ASSUME NEW j \in 1 .. n PROVE load.out[k + j - 1] \in Byte
    <3>1. k + j - 1 \in Offset
      BY <1>1, <1>2 DEF Offset
    <3> QED BY <2>1, <3>1
  <2>3. d \in [1 .. n -> Byte]
    BY <2>2
  <2>4. d \in Seq(Byte) /\ Len(d) = n
    BY <1>2, <2>3
  <2> QED BY <2>3, <2>4
<1>14. \A j \in 1 .. n : d[j] = load.out[k + j - 1]
  OBVIOUS
<1> HIDE DEF d
<1>8. /\ powered' = powered /\ regs' = regs
      /\ mem' = Put(mem, Base, k, d) /\ cursor' = Moved("write", n)
  <2>1. Cursor("write").space = Base /\ Cursor("write").at = k
    BY <1>6 DEF Own
  <2> QED BY <1>3, <1>4, <1>6, <1>7, <2>1 DEF Deliver
<1>9. ASSUME NEW a \in 0 .. k + n - 1
      PROVE  mem'[Base][a] = load.out[a]
  <2>1. a \in Offset /\ Base \in {"flash", "sram"}
    BY <1>1, <1>2 DEF Offset, Base
  <2>2. CASE a < k
    <3>1. a \notin k .. k + n - 1 /\ a \in 0 .. k - 1
      BY <1>1, <1>2, <2>2
    <3>2. Put(mem, Base, k, d)[Base][a] = mem[Base][a]
      BY <1>1, <1>2, <1>7, <2>1, <3>1, PutAt
    <3> QED BY <1>5, <1>8, <3>1, <3>2
  <2>3. CASE a >= k
    <3>1. a \in k .. k + n - 1 /\ a - k + 1 \in 1 .. n
          /\ k + (a - k + 1) - 1 = a
      BY <1>1, <1>2, <2>3
    <3>2. Put(mem, Base, k, d)[Base][a] = d[a - k + 1]
      BY <1>1, <1>2, <1>7, <2>1, <3>1, PutAt
    <3>3. d[a - k + 1] = load.out[k + (a - k + 1) - 1]
      BY <1>14, <3>1
    <3> QED BY <1>8, <3>1, <3>2, <3>3
  <2> QED BY <1>1, <1>2, <2>2, <2>3
<1> HIDE DEF n
<1>10. \/ pc' = pc /\ k' = k + n /\ k' < Bytes(load)
       \/ pc' = "flags" /\ k' = 0 /\ k + n = Bytes(load)
  BY <1>1, <1>2, TransferredStep DEF WriteImage, n
<1>11. Base' = Base /\ load' = load /\ Bytes(load') = Bytes(load) /\ op' = op
  BY <1>1 DEF Base, Bytes
<1>12. CASE pc' = pc /\ k' = k + n /\ k' < Bytes(load)
  <2>1. \A a \in 0 .. k' - 1 : mem'[Base'][a] = load'.out[a]
    <3>1. 0 .. k' - 1 = 0 .. k + n - 1
      BY <1>1, <1>2, <1>12
    <3> QED BY <1>9, <1>11, <3>1
  <2>2. cursor' = Own("write", k)'
    <3>1. cursor' = [Own("write", k) EXCEPT !.at = @ + n]
      BY <1>1, <1>2, <1>6, <1>8, <1>12 DEF Moved
    <3>2. Base' = Base /\ k' = k + n
      BY <1>11, <1>12
    <3> QED BY <3>1, <3>2 DEF Own
  <2>3. powered' /\ {"enable", "key"} \subseteq regs' /\ pc' = "write"
    BY <1>1, <1>5, <1>8, <1>12
  <2> QED BY <1>4, <2>1, <2>2, <2>3 DEF Clean
<1>13. CASE pc' = "flags" /\ k' = 0 /\ k + n = Bytes(load)
  <2>0. 0 .. Bytes(load') - 1 = 0 .. k + n - 1
    <3>1. Bytes(load') = k + n
      BY <1>11, <1>13
    <3> QED BY <1>1, <1>2, <3>1
  <2>1. \A a \in 0 .. Bytes(load') - 1 : mem'[Base'][a] = load'.out[a]
    BY <1>9, <1>11, <2>0
  <2>2. \A f \in 1 .. k' : FALSE
    BY <1>13
  <2>3. InPlace(k)'
    BY <2>1, <2>2 DEF InPlace
  <2> QED BY <1>4, <1>5, <1>8, <1>13, <2>3 DEF Clean
<1> QED BY <1>10, <1>12, <1>13

(* A flag word that arrives goes over the image, and over no other flag.   *)
LEMMA FlagGoesOver ==
  ASSUME TypeOK, load \in Loads, NEW m \in Nat, m + 1 \in 1 .. Len(Flags),
         InPlace(m), UNCHANGED <<op, load>>,
         mem' = Put(mem, "flash", At(m + 1), Flags[m + 1][2])
  PROVE  InPlace(m + 1)'
<1> DEFINE g == m + 1
<1>1. /\ At(g) \in Nat /\ Len(Flags[g][2]) = WordBytes
      /\ WordBytes \in Nat \ {0} /\ mem \in Memories
      /\ op \in {"cp1", "cp2"}
  BY FlagType, SizesAssumption DEF TypeOK
<1>2. /\ Bytes(load) \in Nat /\ Bytes(load) <= Size /\ Size \in Nat
      /\ Bytes(load') = Bytes(load) /\ Base' = Base
      /\ op' = op /\ load' = load
  <2>1. /\ Bytes(load) \in Nat /\ Bytes(load) <= load.len
        /\ load.len <= Size /\ load.len \in Nat /\ Size \in Nat
    BY BytesFit, SizesAssumption DEF Load
  <2> QED BY <2>1 DEF Bytes, Base
<1>3. ASSUME NEW s \in {"flash", "sram"}, NEW a \in Offset,
             s = "sram" \/ ~ InFlag(g, a)
      PROVE  mem'[s][a] = mem[s][a]
  <2>1. s # "flash" \/ a \notin At(g) .. At(g) + WordBytes - 1
    BY <1>3 DEF InFlag
  <2> QED BY <1>1, <2>1, PutAt
<1>4. ASSUME NEW a \in Offset, InFlag(g, a)
      PROVE  mem'["flash"][a] = Flags[g][2][a - At(g) + 1]
  <2>1. a \in At(g) .. At(g) + WordBytes - 1
    BY <1>4 DEF InFlag
  <2>2. Put(mem, "flash", At(g), Flags[g][2])["flash"][a]
          = Flags[g][2][a - At(g) + 1]
    BY <1>1, <2>1, PutAt
  <2> QED BY <2>2
<1>5. ASSUME NEW a \in 0 .. Bytes(load) - 1,
             op = "cp2" \/ (\A f \in 1 .. g : ~ InFlag(f, a))
      PROVE  mem'[Base][a] = load.out[a]
  <2>1. a \in Offset
    BY <1>2 DEF Offset
  <2>2. op = "cp2" \/ (\A f \in 1 .. m : ~ InFlag(f, a))
    BY <1>5
  <2>3. Base = "sram" \/ ~ InFlag(g, a)
    <3>1. g \in 1 .. g
      OBVIOUS
    <3> QED BY <1>5, <3>1 DEF Base
  <2>4. Base \in {"flash", "sram"}
    BY DEF Base
  <2>5. mem'[Base][a] = mem[Base][a]
    BY <1>3, <2>1, <2>3, <2>4
  <2>6. mem[Base][a] = load.out[a]
    BY <1>5, <2>2 DEF InPlace
  <2> QED BY <2>5, <2>6
<1>6. ASSUME op = "cp1", NEW f \in 1 .. g, NEW j \in 1 .. WordBytes,
             At(f) + j - 1 < Bytes(load)
      PROVE  mem'["flash"][At(f) + j - 1] = Flags[f][2][j]
  <2>1. f \in 1 .. Len(Flags)
    BY LenProperties, FlagsAssumption
  <2>2. At(f) \in Nat
    BY <2>1, FlagType
  <2>3. At(f) + j - 1 \in Offset /\ InFlag(f, At(f) + j - 1)
    BY <1>1, <1>2, <1>6, <2>2 DEF Offset, InFlag
  <2>4. CASE f = g
    <3> DEFINE b == At(f) + j - 1
    <3>2. InFlag(g, b)
      BY <2>3, <2>4
    <3>3. b \in Offset /\ b - At(g) + 1 = j
      BY <2>2, <2>3, <2>4
    <3> HIDE DEF b
    <3>4. mem'["flash"][b] = Flags[g][2][b - At(g) + 1]
      BY <1>4, <3>2, <3>3
    <3>5. mem'["flash"][b] = Flags[f][2][j]
      BY <2>4, <3>3, <3>4
    <3> QED BY <3>5 DEF b
  <2>5. CASE f # g
    <3>1. f \in 1 .. m
      BY <2>5
    <3>2. ~ InFlag(g, At(f) + j - 1)
      BY <2>1, <2>3, <2>5, FlagsApart
    <3>3. mem'["flash"][At(f) + j - 1] = mem["flash"][At(f) + j - 1]
      BY <1>3, <2>3, <3>2
    <3>4. mem["flash"][At(f) + j - 1] = Flags[f][2][j]
      BY <1>6, <3>1 DEF InPlace
    <3> QED BY <3>3, <3>4
  <2> QED BY <2>4, <2>5
<1> QED BY <1>2, <1>5, <1>6 DEF InPlace

(* The flag words, one after the other.                                    *)
LEMMA CleanWriteFlags ==
  ASSUME CInv, WriteFlags, failed' = 0
  PROVE  Clean' /\ failed = 0
<1>1. /\ TypeOK /\ load \in Loads /\ pc = "flags" /\ k \in Nat
      /\ k < Len(Flags) /\ ~ unheard /\ Len(Flags) \in Nat
      /\ UNCHANGED <<op, load, unheard, powered, regs>>
  BY LenProperties, FlagsAssumption
  DEF CInv, IInv, Early, TypeOK, Place, WriteFlags
<1>2. PICK how \in Ends :
        /\ Exchange(how)
        /\ mem' = IF Acted(how) /\ Open
                  THEN Put(mem, "flash", At(k + 1), Flags[k + 1][2]) ELSE mem
  BY DEF WriteFlags
<1>3. Acted(how) /\ failed = 0
  BY <1>1, <1>2, DoneIsClean
<1>4. /\ powered /\ {"enable", "key"} \subseteq regs /\ InPlace(k)
  BY <1>1, <1>3 DEF CInv, Clean
<1>5. mem' = Put(mem, "flash", At(k + 1), Flags[k + 1][2])
  BY <1>2, <1>3, <1>4 DEF Open
<1> SUFFICES ASSUME NEW m \in Nat, m = k PROVE Clean' /\ failed = 0
  BY <1>1
<1>6. m + 1 \in 1 .. Len(Flags)
  BY <1>1
<1>7. InPlace(m + 1)'
  BY <1>1, <1>4, <1>5, <1>6, FlagGoesOver
<1>8. CASE k + 1 < Len(Flags)
  <2>1. pc' = "flags" /\ k' = k + 1
    BY <1>1, <1>8 DEF WriteFlags
  <2>2. InPlace(k)'
    BY <1>7, <2>1 DEF InPlace
  <2> QED BY <1>1, <1>3, <1>4, <2>1, <2>2 DEF Clean
<1>9. CASE ~ (k + 1 < Len(Flags))
  <2>1. pc' = "read" /\ k + 1 = Len(Flags)
    BY <1>1, <1>9 DEF WriteFlags
  <2>2. InPlace(Len(Flags))'
    BY <1>7, <2>1 DEF InPlace
  <2> QED BY <1>1, <1>3, <1>4, <2>1, <2>2 DEF Clean
<1> QED BY <1>8, <1>9

(* Every byte read back is heard.                                          *)
LEMMA CleanReadBack ==
  ASSUME CInv, ReadBack, failed' = 0
  PROVE  Clean' /\ failed = 0
<1>1. /\ TypeOK /\ pc = "read" /\ k \in Nat
      /\ UNCHANGED <<op, load, powered, regs, mem>>
      /\ pc' \in {"read", "compare"}
  BY DEF CInv, IInv, TypeOK, ReadBack, Transferred
<1>2. PICK how \in Ends :
        /\ Exchange(how)
        /\ unheard' = (unheard \/ how # "done" \/ ~ Addressed("read"))
  BY DEF ReadBack
<1>3. how = "done" /\ failed = 0
  BY <1>1, <1>2, DoneIsClean
<1>4. /\ powered /\ {"enable", "key"} \subseteq regs /\ ~ unheard
      /\ InPlace(Len(Flags))
  BY <1>1, <1>3 DEF CInv, Clean
<1>5. k > 0 => cursor = Own("read", k)
  BY <1>1, <1>4 DEF CInv, IInv, Heard
<1>6. Cursor("read").rw = "read"
  BY <1>1, <1>4, <1>5 DEF Cursor, Open, Own
<1>7. ~ unheard'
  BY <1>2, <1>3, <1>4, <1>6 DEF Addressed, Open
<1>8. InPlace(Len(Flags))'
  BY <1>1, <1>4 DEF InPlace, Bytes, Base
<1> QED BY <1>1, <1>3, <1>4, <1>7, <1>8 DEF Clean

(* The comparison finds the image unless the flag words contradict it.     *)
LEMMA CleanCompare ==
  ASSUME CInv, Compare
  PROVE  CleanVerdict'
<1>1. /\ TypeOK /\ load \in Loads /\ pc = "compare"
      /\ Len(tmp) = Bytes(load) /\ op \in {"cp1", "cp2"}
      /\ (~ unheard => \A j \in 1 .. Bytes(load) : tmp[j] = mem[Base][j - 1])
      /\ UNCHANGED <<op, load, failed>>
  BY DEF CInv, IInv, TypeOK, Place, ReadSoFar, Heard, Compare
<1>2. Bytes(load) \in Nat /\ WordBytes \in Nat /\ Len(Flags) \in Nat
      /\ DOMAIN Flags = 1 .. Len(Flags)
  BY <1>1, BytesFit, SizesAssumption, FlagsAssumption, LenProperties
<1>3. verdict' = "pass" <=> \A j \in 1 .. Bytes(load) : tmp[j] = load.out[j - 1]
  BY DEF Compare
<1> SUFFICES ASSUME failed = 0
             PROVE  verdict' = "pass" <=> (op = "cp1" => ClearOfFlags)
  BY <1>1 DEF CleanVerdict, ClearOfFlags, Bytes
<1>4. InPlace(Len(Flags)) /\ ~ unheard
  BY <1>1 DEF CInv, Clean
<1>5. verdict' = "pass"
        <=> \A a \in 0 .. Bytes(load) - 1 : mem[Base][a] = load.out[a]
  <2>1. ASSUME verdict' = "pass", NEW a \in 0 .. Bytes(load) - 1
        PROVE  mem[Base][a] = load.out[a]
    <3>1. a + 1 \in 1 .. Bytes(load) /\ (a + 1) - 1 = a
      BY <1>2
    <3> QED BY <1>1, <1>3, <1>4, <2>1, <3>1
  <2>2. ASSUME \A a \in 0 .. Bytes(load) - 1 : mem[Base][a] = load.out[a],
               NEW j \in 1 .. Bytes(load)
        PROVE  tmp[j] = load.out[j - 1]
    <3>1. j - 1 \in 0 .. Bytes(load) - 1
      BY <1>2
    <3> QED BY <1>1, <1>4, <2>2, <3>1
  <2> QED BY <1>3, <2>1, <2>2
<1>6. ASSUME verdict' = "pass", op = "cp1" PROVE ClearOfFlags
  <2> SUFFICES ASSUME NEW f \in DOMAIN Flags, NEW j \in 1 .. WordBytes,
                      At(f) + j - 1 < Bytes(load)
               PROVE  load.out[At(f) + j - 1] = Flags[f][2][j]
    BY DEF ClearOfFlags
  <2>1. f \in 1 .. Len(Flags) /\ At(f) \in Nat
    BY <1>2, FlagType
  <2>2. mem["flash"][At(f) + j - 1] = Flags[f][2][j]
    BY <1>4, <1>6, <2>1 DEF InPlace
  <2>3. At(f) + j - 1 \in 0 .. Bytes(load) - 1
    BY <1>2, <2>1
  <2>4. mem["flash"][At(f) + j - 1] = load.out[At(f) + j - 1]
    BY <1>5, <1>6, <2>3 DEF Base
  <2> QED BY <2>2, <2>4
<1>7. ASSUME op = "cp1" => ClearOfFlags PROVE verdict' = "pass"
  <2> SUFFICES ASSUME NEW a \in 0 .. Bytes(load) - 1
               PROVE  mem[Base][a] = load.out[a]
    BY <1>5
  <2>1. CASE op = "cp2" \/ \A f \in 1 .. Len(Flags) : ~ InFlag(f, a)
    BY <1>4, <2>1 DEF InPlace
  <2>2. CASE op = "cp1" /\ \E f \in 1 .. Len(Flags) : InFlag(f, a)
    <3>1. PICK f \in 1 .. Len(Flags) : InFlag(f, a)
      BY <2>2
    <3>2. At(f) \in Nat
      BY FlagType
    <3>3. PICK j \in 1 .. WordBytes : At(f) + j - 1 = a
      <4>1. a - At(f) + 1 \in 1 .. WordBytes /\ At(f) + (a - At(f) + 1) - 1 = a
        BY <1>2, <3>1, <3>2 DEF InFlag
      <4> QED BY <4>1
    <3>4. At(f) + j - 1 < Bytes(load)
      BY <1>2, <3>3
    <3>5. mem["flash"][a] = Flags[f][2][j]
      BY <1>4, <2>2, <3>3, <3>4 DEF InPlace
    <3>6. load.out[a] = Flags[f][2][j]
      BY <1>2, <1>7, <2>2, <3>3, <3>4 DEF ClearOfFlags
    <3> QED BY <2>2, <3>5, <3>6 DEF Base
  <2> QED BY <1>1, <2>1, <2>2
<1> QED BY <1>6, <1>7

(* What CleanVerdict relies on is kept by every step of a download.        *)
LEMMA CleanStep == CInv /\ [Next]_vars => CInv'
<1> SUFFICES ASSUME CInv, [Next]_vars PROVE CInv'
  OBVIOUS
<1>1. IInv' /\ Early' /\ IInv /\ TypeOK /\ CleanVerdict
  BY EveryStep, EarlyKept DEF CInv, IInv
<1>2. CASE PowerOn \/ Unlock \/ Reset \/ WriteImage \/ WriteFlags \/ ReadBack
  <2>1. failed' = 0 => Clean' /\ failed = 0
    BY <1>2, CleanScripts, CleanWriteImage, CleanWriteFlags, CleanReadBack
  <2>2. UNCHANGED <<verdict, load, op>>
    BY <1>2
    DEF PowerOn, Unlock, Reset, Script, WriteImage, WriteFlags, ReadBack
  <2> QED BY <1>1, <2>1, <2>2, VerdictStands DEF CInv
<1>3. CASE LoadFile
  <2>1. pc = "load" /\ UNCHANGED <<op, load, k, failed, powered>>
        /\ pc' \in {"over", "unlock"} /\ k = 0
    BY <1>3 DEF LoadFile, target, CInv, IInv, Place
  <2>2. (failed' = 0 => Clean')
    BY <2>1 DEF CInv, Clean
  <2>3. CleanVerdict'
    <3>1. CASE load.len = 0
      BY <2>1, <3>1 DEF CleanVerdict
    <3>2. CASE load.len # 0
      BY <1>1, <1>3, <2>1, <3>2, VerdictStands DEF LoadFile
    <3> QED BY <3>1, <3>2
  <2> QED BY <1>1, <2>2, <2>3 DEF CInv
<1>4. CASE ReadNothing
  <2>1. pc' = "crashed" /\ UNCHANGED <<verdict, load, op, failed>>
    BY <1>4 DEF ReadNothing
  <2> QED BY <1>1, <2>1, VerdictStands DEF CInv, Clean
<1>5. CASE Compare
  <2>1. pc' \in {"reset", "over"}
    BY <1>5 DEF Compare
  <2> QED BY <1>1, <1>5, <2>1, CleanCompare DEF CInv, Clean
<1>6. CASE Over \/ UNCHANGED vars
  <2>1. UNCHANGED <<op, load, pc, k, verdict, failed, unheard, powered, regs,
                    mem, cursor>>
    BY <1>6 DEF Over, vars, target
  <2>2. Clean => Clean'
    BY <2>1 DEF Clean, InPlace, Bytes, Base, Own
  <2> QED BY <1>1, <2>1, <2>2, VerdictStands DEF CInv
<1>7. CASE Blocks
  <2>1. pc' = "blocked" /\ UNCHANGED <<verdict, load, op>>
    BY <1>7 DEF Blocks
  <2>2. failed' # 0
    BY <1>1, <1>7, DoneIsClean DEF Blocks
  <2> QED BY <1>1, <2>1, <2>2, VerdictStands DEF CInv
<1> QED BY <1>2, <1>3, <1>4, <1>5, <1>6, <1>7 DEF Next

(* What CleanVerdict relies on holds when the button is pressed.           *)
LEMMA CleanInit == Init => CInv
<1> SUFFICES ASSUME Init PROVE CInv
  OBVIOUS
<1>1. IInv
  BY InitHolds
<1>2. pc = "power" /\ verdict = "none" /\ unheard = FALSE
  BY DEF Init
<1> QED BY <1>1, <1>2 DEF CInv, Early, Clean, CleanVerdict

(* For images, packets and flag words of any size: on a link without       *)
(* faults a download passes exactly when its image does not contradict the *)
(* flag words written over it.                                             *)
THEOREM CleanVerdictHolds == Spec => []CleanVerdict
<1>1. CInv => CleanVerdict
  BY DEF CInv
<1> QED BY CleanInit, CleanStep, <1>1, PTL DEF Spec

-----------------------------------------------------------------------------
(* The window around the download buttons.                                 *)

(* A file that cannot be loaded has no bytes.                              *)
Unloadable ==
  file_name # "path" =>
    /\ pc \in {"power", "load", "over", "blocked"}
    /\ pc \in {"power", "load"} => load.len = 0

(* What it takes to leave a transaction of another download open: the loss *)
(* of every access of the prologue, and to go on with it the loss of the   *)
(* first packet too.                                                       *)
Along ==
  /\ pc = "unlock" /\ cursor # NoCursor => failed >= k
  /\ pc = "write" /\ k = 0 /\ cursor # NoCursor => failed >= Len(Prologue)
  /\ pc = "write" /\ k > 0 /\ cursor.rw = "write" =>
       failed > Len(Prologue) \/ (cursor.space = Base /\ cursor.at <= k)

DInv == CInv /\ DialogTypeOK /\ Unloadable /\ Along

(* Between downloads, and when one starts, there is nothing to keep.       *)
LEMMA Afresh ==
  ASSUME TypeOK', load' \in Loads, pc' \in {"power", "over", "blocked"},
         k' = 0, verdict' = "none",
         pc' = "power" => tmp' = <<>> /\ ~ unheard'
  PROVE  CInv' /\ Along'
<1>1. Place'
  BY DEF Place
<1>2. ReadSoFar' /\ Heard' /\ HeardPassMeansProgrammed'
  BY DEF ReadSoFar, Heard, HeardPassMeansProgrammed
<1>3. Early' /\ Clean' /\ CleanVerdict'
  BY DEF Early, Clean, CleanVerdict
<1>4. Along'
  BY DEF Along
<1> QED BY <1>1, <1>2, <1>3, <1>4 DEF CInv, IInv

(* A chip's memory when it comes new, or loses its power.                  *)
LEMMA ErasedType ==
  /\ \A e \in Erased : [s \in {"flash", "sram"} |-> e] \in Memories
  /\ \A m \in Memories, e \in Erased : [m EXCEPT !["sram"] = e] \in Memories
<1>1. \A e \in Erased : e \in [Offset -> Byte]
  BY DEF Erased
<1> QED BY <1>1 DEF Memories

(* The window opens.                                                       *)
LEMMA DialogInitHolds == DialogInit => DInv
<1> SUFFICES ASSUME DialogInit PROVE DInv
  OBVIOUS
<1>1. load \in Loads /\ load \in Load /\ Bytes(load) \in Nat
  BY BytesFit DEF DialogInit, Opened
<1>2. tmp \in Seq(Byte) /\ Len(tmp) <= Bytes(load)
  <2>1. tmp \in Seq(Byte) /\ Len(tmp) = 0
    BY EmptySeq DEF DialogInit
  <2> QED BY <1>1, <2>1
<1>3. mem \in Memories
  BY ErasedType DEF DialogInit
<1>4. /\ op \in {"cp1", "cp2"} /\ pc = "over" /\ k = 0 /\ verdict = "none"
      /\ failed = 0 /\ unheard = FALSE /\ powered \in BOOLEAN /\ regs = {}
      /\ cursor = NoCursor /\ file_name = "NULL" /\ presses = 0
  BY DEF DialogInit
<1>5. 0 \in 0 .. MaxFaults /\ 0 \in 0 .. MaxPresses
  BY SizesAssumption, PressesAssumption
<1>6. TypeOK
  <2>1. cursor \in Transaction
    BY <1>4 DEF NoCursor, Transaction
  <2> QED BY <1>1, <1>2, <1>3, <1>4, <1>5, <2>1 DEF TypeOK
<1>7. CInv
  <2>1. Place
    BY <1>1, <1>4 DEF Place
  <2>2. ReadSoFar /\ Heard /\ HeardPassMeansProgrammed
    BY <1>4 DEF ReadSoFar, Heard, HeardPassMeansProgrammed
  <2>3. Early /\ Clean /\ CleanVerdict
    BY <1>4 DEF Early, Clean, CleanVerdict
  <2> QED BY <1>6, <2>1, <2>2, <2>3 DEF CInv, IInv
<1>8. Along
  BY <1>4 DEF Along
<1> QED BY <1>4, <1>5, <1>6, <1>7, <1>8 DEF DInv, DialogTypeOK, Unloadable

(* What the names say of the files.                                        *)
LEMMA OpenedType ==
  ASSUME NEW name \in {"NULL", "empty", "path"}, NEW l \in Opened(name)
  PROVE  l \in Loads /\ (name # "path" => l.len = 0)
<1>1. l \in Loads
  BY DEF Opened
<1>2. CASE name = "NULL"
  BY <1>2, LoadsAssumption DEF Opened
<1>3. CASE name = "empty"
  BY <1>3, LoadsAssumption DEF Opened
<1> QED BY <1>1, <1>2, <1>3

(* The file dialog preserves the invariant.                                *)
LEMMA LoadHexStep ==
  ASSUME DInv, load_hex
  PROVE  DInv'
<1>1. /\ TypeOK /\ DialogTypeOK /\ load \in Loads /\ pc = "over" /\ k = 0
      /\ pc' = "over" /\ verdict' = "none" /\ file_name' \in {"empty", "path"}
      /\ UNCHANGED <<op, load, k, tmp, failed, unheard, powered, regs, mem,
                     cursor, presses>>
  BY DEF DInv, CInv, IInv, Place, load_hex, target
<1>2. TypeOK'
  BY <1>1 DEF TypeOK, Bytes
<1>3. CInv' /\ Along'
  BY <1>1, <1>2, Afresh
<1> QED BY <1>1, <1>2, <1>3 DEF DInv, DialogTypeOK, Unloadable

(* So does a press of a download button.                                   *)
LEMMA PressStep ==
  ASSUME DInv, Press
  PROVE  DInv'
<1>1. /\ TypeOK /\ DialogTypeOK /\ k = 0 /\ k' = 0 /\ pc' = "power"
      /\ op' \in {"cp1", "cp2"} /\ load' \in Opened(file_name)
      /\ tmp' = <<>> /\ verdict' = "none" /\ failed' = 0 /\ unheard' = FALSE
      /\ UNCHANGED <<powered, regs, mem, cursor, file_name>>
  BY DEF DInv, CInv, IInv, Place, Press, target
<1>2. load' \in Loads /\ (file_name # "path" => load'.len = 0)
  BY <1>1, OpenedType DEF DialogTypeOK
<1>3. load' \in Load /\ Bytes(load') \in Nat
  BY <1>2, BytesFit
<1>4. tmp' \in Seq(Byte) /\ Len(tmp') <= Bytes(load')
  <2>1. tmp' \in Seq(Byte) /\ Len(tmp') = 0
    BY <1>1, EmptySeq
  <2> QED BY <1>3, <2>1
<1>5. TypeOK'
  <2>1. failed' \in 0 .. MaxFaults
    BY <1>1, SizesAssumption
  <2>2. Bytes(load)' = Bytes(load')
    BY DEF Bytes
  <2> QED BY <1>1, <1>3, <1>4, <2>1, <2>2 DEF TypeOK
<1>6. CInv' /\ Along'
  BY <1>1, <1>2, <1>5, Afresh
<1>7. presses' \in 0 .. MaxPresses
  <2>1. presses \in 0 .. MaxPresses /\ presses < MaxPresses
        /\ presses' = presses + 1
    BY DEF DInv, DialogTypeOK, Press
  <2> QED BY <2>1, PressesAssumption
<1> QED BY <1>1, <1>2, <1>5, <1>6, <1>7 DEF DInv, DialogTypeOK, Unloadable

(* So does another chip.                                                   *)
LEMMA SwapStep ==
  ASSUME DInv, Swap
  PROVE  DInv'
<1>1. /\ TypeOK /\ DialogTypeOK /\ load \in Loads /\ pc = "over" /\ k = 0
      /\ pc' = "over" /\ verdict' = "none" /\ regs' = {} /\ cursor' = NoCursor
      /\ UNCHANGED <<op, load, k, tmp, failed, unheard, powered, file_name,
                     presses>>
  BY DEF DInv, CInv, IInv, Place, Swap
<1>2. mem' \in Memories
  BY ErasedType DEF Swap
<1>3. TypeOK'
  <2>1. cursor' \in Transaction
    BY <1>1 DEF NoCursor, Transaction
  <2> QED BY <1>1, <1>2, <2>1 DEF TypeOK, Bytes
<1>4. CInv' /\ Along'
  BY <1>1, <1>3, Afresh
<1> QED BY <1>1, <1>3, <1>4 DEF DInv, DialogTypeOK, Unloadable

(* So does the end of the program, wherever it strikes, and its new start. *)
LEMMA RestartStep ==
  ASSUME DInv, Restart
  PROVE  DInv'
<1>1. /\ TypeOK /\ DialogTypeOK /\ load \in Loads
      /\ k' = 0 /\ tmp' = <<>> /\ verdict' = "none"
      /\ failed' = 0 /\ unheard' = FALSE /\ file_name' = "NULL"
      /\ UNCHANGED <<op, load, presses>>
  BY DEF DInv, CInv, IInv, Place, Restart
<1>2. PICK how \in {"done"} \union Faults :
        /\ IF Acted(how) THEN PowerOff ELSE UNCHANGED target
        /\ pc' = IF how = "blocked" THEN "blocked" ELSE "over"
  BY DEF Restart
<1>3. /\ powered' \in BOOLEAN
      /\ regs' \subseteq {"enable", "key", "halt", "clock", "mask"}
      /\ mem' \in Memories
      /\ cursor' \in Transaction
  <2>1. CASE Acted(how)
    <3>1. PICK e \in Erased : mem' = [mem EXCEPT !["sram"] = e]
      BY <1>2, <2>1 DEF PowerOff
    <3>2. mem' \in Memories
      BY <1>1, <3>1, ErasedType DEF TypeOK
    <3>3. powered' = FALSE /\ regs' = {} /\ cursor' = NoCursor
      BY <1>2, <2>1 DEF PowerOff
    <3> QED BY <3>2, <3>3 DEF NoCursor, Transaction
  <2>2. CASE ~ Acted(how)
    BY <1>1, <1>2, <2>2 DEF TypeOK, target
  <2> QED BY <2>1, <2>2
<1>4. tmp' \in Seq(Byte) /\ Len(tmp') <= Bytes(load)
  <2>1. tmp' \in Seq(Byte) /\ Len(tmp') = 0
    BY <1>1, EmptySeq
  <2> QED BY <1>1, <2>1, BytesFit
<1>5. TypeOK'
  <2>1. failed' \in 0 .. MaxFaults
    BY <1>1, SizesAssumption
  <2>2. Bytes(load)' = Bytes(load)
    BY <1>1 DEF Bytes
  <2> QED BY <1>1, <1>2, <1>3, <1>4, <2>1, <2>2 DEF TypeOK
<1>6. CInv' /\ Along'
  BY <1>1, <1>2, <1>5, Afresh
<1>7. Unloadable'
  BY <1>2 DEF Unloadable
<1> QED BY <1>1, <1>5, <1>6, <1>7 DEF DInv, DialogTypeOK

(* An access of the prologue ends what is open on the bus, or is lost.     *)
LEMMA UnlockKeepsAlong ==
  ASSUME IInv, Along, Unlock
  PROVE  Along'
<1>1. pc = "unlock" /\ k \in 0 .. 4 /\ failed \in Nat
  BY ScriptTypes, SizesAssumption DEF IInv, TypeOK, Place, Unlock
<1>2. PICK how \in Ends :
        /\ Exchange(how)
        /\ IF Acted(how) THEN Access(Prologue[k + 1]) ELSE UNCHANGED target
  BY DEF Unlock, Script
<1>3. Prologue[k + 1] # "power"
  BY <1>1 DEF Prologue
<1>4. cursor' = NoCursor \/ (cursor' = cursor /\ failed' = failed + 1)
  BY <1>2, <1>3 DEF Access, Acted, Exchange, target
<1>5. cursor' # NoCursor => failed' >= k + 1
  BY <1>1, <1>4 DEF Along
<1>6. \/ pc' = "unlock" /\ k' = k + 1
      \/ pc' = "write" /\ k' = 0 /\ k + 1 = Len(Prologue)
  BY <1>1, ScriptTypes DEF Unlock, Script
<1> QED BY <1>5, <1>6 DEF Along

(* A packet that arrives goes on with its own transaction, unless the      *)
(* first one was lost.                                                     *)
LEMMA WriteImageKeepsAlong ==
  ASSUME IInv, Along, WriteImage
  PROVE  Along'
<1> DEFINE n == Piece(WrFirst)
           d == [j \in 1 .. n |-> load.out[k + j - 1]]
<1>1. /\ TypeOK /\ load \in Loads /\ pc = "write" /\ k \in Nat
      /\ (k > 0 => k < Bytes(load)) /\ failed \in Nat /\ cursor \in Transaction
      /\ UNCHANGED <<op, load>>
  BY SizesAssumption DEF IInv, TypeOK, Place, WriteImage
<1>2. n \in Nat /\ k + n <= Bytes(load) /\ Bytes(load) \in Nat
  BY <1>1, PieceFits, BytesFit, SizesAssumption
<1>3. PICK how \in Ends :
        Exchange(how) /\ IF Acted(how) THEN Deliver(d) ELSE UNCHANGED target
  BY DEF WriteImage
<1>4. Len(d) = n
  BY <1>2
<1>5. Len(Prologue) = 5
  BY ScriptTypes
<1> HIDE DEF n, d
<1>6. \/ pc' = pc /\ k' = k + n /\ k' < Bytes(load)
      \/ pc' = "flags" /\ k' = 0
  BY <1>1, <1>2, TransferredStep DEF WriteImage, n
<1>7. failed' \in Nat /\ failed' >= failed
      /\ (~ Acted(how) => failed' = failed + 1)
  BY <1>1, <1>3 DEF Exchange, Acted
<1> SUFFICES ASSUME pc' = pc, k' = k + n, k' < Bytes(load)
             PROVE  Along'
  BY <1>6 DEF Along
<1>8. Base' = Base
  BY <1>1 DEF Base
<1>9. k' = 0 => k = 0 /\ n = 0
  BY <1>1, <1>2
<1>10. k = 0 => n > 0
  <2>1. Bytes(load) > 0 /\ WrFirst \in Nat \ {0}
    BY <1>1, <1>2, SizesAssumption
  <2> QED BY <1>1, <2>1, PieceFits DEF n
<1>11. CASE ~ Acted(how)
  <2>1. cursor' = cursor /\ failed' = failed + 1
    BY <1>3, <1>7, <1>11 DEF target
  <2>2. k = 0 /\ cursor.rw = "write" => failed' > 5
    BY <1>1, <1>5, <2>1 DEF Along, NoCursor
  <2>3. k > 0 /\ cursor.rw = "write" =>
          failed' > 5 \/ (cursor.space = Base /\ cursor.at <= k + n)
    <3>1. cursor.at \in Nat
      BY <1>1 DEF Transaction
    <3> QED BY <1>1, <1>2, <1>5, <2>1, <3>1 DEF Along
  <2> QED BY <1>1, <1>5, <1>8, <1>9, <1>10, <2>1, <2>2, <2>3 DEF Along
<1>12. CASE Acted(how)
  <2>1. cursor' = Moved("write", n)
    BY <1>3, <1>4, <1>12 DEF Deliver
  <2>2. cursor' = IF Addressed("write")
                  THEN [Cursor("write") EXCEPT !.at = @ + n] ELSE Cursor("write")
    BY <1>1, <1>2, <2>1 DEF Moved
  <2>3. CASE k = 0
    <3>1. Cursor("write") \in {Own("write", 0), NoCursor}
      BY <2>3 DEF Cursor
    <3>2. cursor'.rw = "write" => cursor'.space = Base /\ cursor'.at <= k + n
      <4>1. CASE Addressed("write")
        <5>1. cursor' = [Own("write", 0) EXCEPT !.at = @ + n]
          BY <2>2, <3>1, <4>1 DEF Addressed, NoCursor
        <5> QED BY <1>2, <2>3, <5>1 DEF Own
      <4>2. CASE ~ Addressed("write")
        BY <1>2, <2>2, <2>3, <3>1, <4>2 DEF Own, NoCursor
      <4> QED BY <4>1, <4>2
    <3> QED BY <1>1, <1>8, <1>9, <1>10, <3>2 DEF Along
  <2>4. CASE k > 0
    <3>1. Cursor("write") = cursor /\ cursor.at \in Nat
      BY <1>1, <2>4 DEF Cursor, Transaction
    <3>2. cursor'.rw = cursor.rw /\ cursor'.space = cursor.space
          /\ cursor'.at \in {cursor.at, cursor.at + n}
      BY <1>1, <2>2, <3>1 DEF Transaction
    <3>3. cursor.rw = "write" =>
            failed' > 5 \/ (cursor.space = Base /\ cursor.at <= k)
      BY <1>1, <1>5, <1>7, <2>4 DEF Along
    <3>4. cursor'.rw = "write" =>
            failed' > 5 \/ (cursor'.space = Base /\ cursor'.at <= k + n)
      BY <1>1, <1>2, <3>1, <3>2, <3>3
    <3>5. k' > 0
      BY <1>1, <1>2, <2>4
    <3> QED BY <1>1, <1>5, <1>8, <3>4, <3>5 DEF Along
  <2> QED BY <1>1, <2>3, <2>4
<1> QED BY <1>11, <1>12

(* Nothing else gets to a packet of an image.                              *)
LEMMA AlongKept ==
  ASSUME IInv, Along, [Next]_vars
  PROVE  Along'
<1>1. CASE Unlock
  BY <1>1, UnlockKeepsAlong
<1>2. CASE WriteImage
  BY <1>2, WriteImageKeepsAlong
<1>3. CASE LoadFile
  <2>1. k' = 0 /\ failed' = failed /\ failed \in Nat
        /\ pc' \in {"over", "unlock"}
    BY <1>3, SizesAssumption DEF LoadFile, IInv, TypeOK, Place
  <2> QED BY <2>1 DEF Along
<1>4. CASE PowerOn \/ WriteFlags \/ ReadBack \/ ReadNothing \/ Compare \/ Reset
           \/ Blocks
  <2>1. pc' \notin {"unlock", "write"}
    BY <1>4 DEF PowerOn, WriteFlags, ReadBack, Transferred, ReadNothing, Compare,
                Reset, Script, Blocks
  <2> QED BY <2>1 DEF Along
<1>5. CASE UNCHANGED vars
  BY <1>5 DEF vars, target, Along, Base
<1> QED BY <1>1, <1>2, <1>3, <1>4, <1>5 DEF Next, Over

(* So does every step of a download.                                       *)
LEMMA DownloadStep ==
  ASSUME DInv, Download
  PROVE  DInv'
<1>1. CInv /\ Next /\ UNCHANGED <<file_name, presses>>
  BY DEF DInv, Download
<1>2. CInv'
  BY <1>1, CleanStep
<1>3. DialogTypeOK'
  BY <1>1, <1>2 DEF DInv, DialogTypeOK, CInv, IInv
<1>4. Unloadable'
  <2> SUFFICES ASSUME file_name # "path"
               PROVE  /\ pc' \in {"power", "load", "over", "blocked"}
                      /\ pc' \in {"power", "load"} => load'.len = 0
    BY <1>1 DEF Unloadable
  <2>1. /\ pc \in {"power", "load", "over", "blocked"}
        /\ pc \in {"power", "load"} => load.len = 0
    BY DEF DInv, Unloadable
  <2>2. CASE PowerOn
    BY <2>1, <2>2 DEF PowerOn, Script
  <2>3. CASE LoadFile
    BY <2>1, <2>3 DEF LoadFile
  <2>4. CASE Over
    BY <2>1, <2>4 DEF Over, vars
  <2>5. CASE Blocks
    BY <2>5 DEF Blocks
  <2> QED
    BY <1>1, <2>1, <2>2, <2>3, <2>4, <2>5
    DEF Next, Unlock, WriteImage, WriteFlags, ReadBack, ReadNothing, Compare,
        Reset
<1>5. Along'
  BY <1>1, AlongKept DEF DInv, CInv
<1> QED BY <1>2, <1>3, <1>4, <1>5 DEF DInv

(* The window's invariant is inductive.                                    *)
LEMMA DialogStep == DInv /\ [DialogNext]_dialogVars => DInv'
<1> SUFFICES ASSUME DInv, [DialogNext]_dialogVars PROVE DInv'
  OBVIOUS
<1>1. CASE UNCHANGED dialogVars
  <2>1. UNCHANGED vars /\ UNCHANGED <<file_name, presses>>
    BY <1>1 DEF dialogVars
  <2>2. CInv'
    BY <2>1, CleanStep DEF DInv
  <2>3. UNCHANGED <<pc, load>>
    BY <2>1 DEF vars
  <2>4. Along'
    BY <2>1, AlongKept DEF DInv, CInv
  <2> QED BY <2>1, <2>2, <2>3, <2>4 DEF DInv, DialogTypeOK, Unloadable, CInv, IInv
<1> QED
  BY <1>1, LoadHexStep, PressStep, SwapStep, RestartStep, DownloadStep
  DEF DialogNext

(* The invariant holds of every session with the window.                   *)
LEMMA DInvHolds == DialogSpec => []DInv
BY DialogInitHolds, DialogStep, PTL DEF DialogSpec

(* The window's state keeps its types.                                     *)
THEOREM DialogTypeCorrect == DialogSpec => []DialogTypeOK
<1>1. DInv => DialogTypeOK
  BY DEF DInv
<1> QED BY <1>1, DInvHolds, PTL

(* Whatever the downloads before it left in the target, and wherever the   *)
(* program was killed: a download without faults does its work and says so.*)
THEOREM RetryRecoversHolds == DialogSpec => []RetryRecovers
<1>1. DInv => RetryRecovers
  BY DEF DInv, CInv, RetryRecovers
<1> QED BY <1>1, DInvHolds, PTL

(* A pass on what the target was heard to say is about this chip and this  *)
(* image, in any sequence of downloads.                                    *)
THEOREM FreshPassHolds == DialogSpec => []FreshPassMeansProgrammed
<1>1. DInv => FreshPassMeansProgrammed
  BY DEF DInv, CInv, IInv, FreshPassMeansProgrammed
<1> QED BY <1>1, DInvHolds, PTL

(* Without a file a download only switches the target on.                  *)
THEOREM CancelledTouchesNothingHolds == DialogSpec => CancelledTouchesNothing
<1>1. DInv /\ [DialogNext]_dialogVars => [NothingTouched]_dialogVars
  <2> SUFFICES ASSUME DInv, file_name # "path", Download
               PROVE  UNCHANGED <<regs, mem>>
    BY DEF NothingTouched
  <2>1. pc \in {"power", "load", "over", "blocked"} /\ Next /\ k \in Nat
    BY DEF DInv, Unloadable, Download, CInv, IInv, TypeOK
  <2>2. CASE PowerOn
    <3>1. k = 0
      BY <2>2 DEF PowerOn, DInv, CInv, IInv, Place
    <3>2. <<"power">>[k + 1] = "power"
      BY <3>1
    <3>3. PICK how \in Ends :
            IF Acted(how) THEN Access(<<"power">>[k + 1]) ELSE UNCHANGED target
      BY <2>2 DEF PowerOn, Script
    <3>4. Access("power") \/ UNCHANGED target
      BY <3>2, <3>3
    <3> QED BY <3>4 DEF Access, target
  <2>3. CASE LoadFile \/ Blocks \/ Over
    BY <2>3 DEF LoadFile, Blocks, Over, vars, target
  <2> QED
    BY <2>1, <2>2, <2>3
    DEF Next, Unlock, WriteImage, WriteFlags, ReadBack, ReadNothing, Compare,
        Reset
<1> QED BY <1>1, DInvHolds, PTL DEF DialogSpec, CancelledTouchesNothing

(* An image packet lands inside the image, a flag word on its own word.    *)
LEMMA StoredInsideStep ==
  ASSUME IInv, Along, Download, mem' # mem, failed <= Len(Prologue),
         NEW s \in {"flash", "sram"}, NEW a \in Offset, mem'[s][a] # mem[s][a]
  PROVE  \/ s = Base /\ a < Bytes(load)
         \/ /\ s = "flash"
            /\ \E f \in DOMAIN Flags : a \in At(f) .. At(f) + WordBytes - 1
<1>1. /\ TypeOK /\ load \in Loads /\ mem \in Memories /\ k \in Nat /\ Next
      /\ Base \in {"flash", "sram"} /\ a \in Nat
  BY SizesAssumption DEF IInv, TypeOK, Place, Download, Base, Offset
<1>2. CASE WriteImage
  <2> DEFINE n == Piece(WrFirst)
             d == [j \in 1 .. n |-> load.out[k + j - 1]]
  <2>1. pc = "write" /\ (k > 0 => k < Bytes(load))
    BY <1>2 DEF IInv, Place, WriteImage
  <2>2. n \in Nat /\ k + n <= Bytes(load) /\ Bytes(load) \in Nat
    BY <1>1, <2>1, PieceFits, BytesFit, SizesAssumption
  <2>3. Len(d) = n
    BY <2>2
  <2>4. PICK how \in Ends :
          IF Acted(how) THEN Deliver(d) ELSE UNCHANGED target
    BY <1>2 DEF WriteImage
  <2> HIDE DEF d
  <2> DEFINE from == Cursor("write").at
  <2>5. /\ Addressed("write")
        /\ mem' = Put(mem, Cursor("write").space, from, d)
    BY <2>4 DEF Deliver, target
  <2>6. Cursor("write").space = Base /\ from \in 0 .. k
    <3>1. CASE k = 0
      <4>1. Cursor("write") = Own("write", 0)
        BY <2>5, <3>1 DEF Addressed, Cursor
      <4> QED BY <3>1, <4>1 DEF Own
    <3>2. CASE k > 0
      <4>1. Cursor("write") = cursor /\ cursor.rw = "write" /\ cursor.at \in Nat
        BY <1>1, <2>5, <3>2 DEF Addressed, Cursor, TypeOK, Transaction
      <4>2. ~ (failed > Len(Prologue))
        BY ScriptTypes, SizesAssumption, <1>1 DEF TypeOK
      <4> QED BY <1>1, <2>1, <3>2, <4>1, <4>2 DEF Along
    <3> QED BY <1>1, <3>1, <3>2
  <2> HIDE DEF from
  <2>7. s = Base /\ a \in from .. from + Len(d) - 1
    BY <1>1, <2>5, <2>6, PutAt
  <2> HIDE DEF n
  <2>8. a < Bytes(load)
    BY <1>1, <2>2, <2>3, <2>6, <2>7
  <2> QED BY <2>7, <2>8
<1>3. CASE WriteFlags
  <2>1. k + 1 \in 1 .. Len(Flags)
    <3>1. k < Len(Flags) /\ Len(Flags) \in Nat
      BY <1>3, LenProperties, FlagsAssumption DEF IInv, Place, WriteFlags
    <3> QED BY <1>1, <3>1
  <2>2. k + 1 \in DOMAIN Flags /\ Len(Flags[k + 1][2]) = WordBytes
    BY <2>1, FlagType
  <2>3. mem' = Put(mem, "flash", At(k + 1), Flags[k + 1][2])
    BY <1>3 DEF WriteFlags
  <2>4. s = "flash" /\ a \in At(k + 1) .. At(k + 1) + Len(Flags[k + 1][2]) - 1
    BY <1>1, <2>3, PutAt
  <2> QED BY <2>2, <2>4
<1>4. CASE ~ (WriteImage \/ WriteFlags)
  <2>1. mem' = mem
    BY <1>1, <1>4
    DEF Next, PowerOn, Unlock, Reset, Script, Access, target, LoadFile,
        ReadBack, ReadNothing, Compare, Blocks, Over, vars
  <2> QED BY <2>1
<1> QED BY <1>2, <1>3, <1>4

(* For words, images, packets and flag words of any size, and any number   *)
(* of failed exchanges: no byte of the target outside the image's words    *)
(* and the flag words is changed by a download of which not the whole      *)
(* beginning was lost.                                                     *)
THEOREM WritesStayInsideHolds == DialogSpec => WritesStayInside
<1>1. DInv /\ [DialogNext]_dialogVars => [StoredInside]_dialogVars
  BY StoredInsideStep DEF StoredInside, DInv, CInv
<1> QED BY <1>1, DInvHolds, PTL DEF DialogSpec, WritesStayInside

-----------------------------------------------------------------------------
(* For words, images and packets of any size: no download of a file of     *)
(* less than a word ends in a pass, and so none of a rejected file.        *)
THEOREM ShortNeverPassesHolds == DialogSpec => []ShortNeverPasses
<1>1. DialogInit => DInv /\ SomeWords
  BY DialogInitHolds DEF DialogInit, SomeWords
<1>2. DInv /\ SomeWords /\ [DialogNext]_dialogVars => (DInv /\ SomeWords)'
  <2> SUFFICES ASSUME DInv, SomeWords, [DialogNext]_dialogVars
               PROVE  SomeWords'
    BY DialogStep
  <2>1. CASE load_hex \/ Press \/ Swap \/ Restart
    <3>1. pc' \notin {"compare", "reset"} /\ verdict' # "pass"
      BY <2>1 DEF load_hex, Press, Swap, Restart
    <3> QED BY <3>1 DEF SomeWords
  <2>2. CASE Download \/ UNCHANGED dialogVars
    BY <2>2, ReachesCompare DEF Download, dialogVars, DInv, CInv
  <2> QED BY <2>1, <2>2 DEF DialogNext
<1>3. DInv /\ SomeWords => ShortNeverPasses
  BY WordsAreLong DEF DInv, CInv, IInv, Place
<1> QED BY <1>1, <1>2, <1>3, PTL DEF DialogSpec
=============================================================================
