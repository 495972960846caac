------------------------------ MODULE HexLoader ------------------------------
(***************************************************************************)
(* hex2bin (user_inc/hex_lib.h): an Intel-HEX file is read token by token  *)
(* into a 64K image.                                                       *)
(*                                                                         *)
(* A token is abstracted to what the loop makes of it.  It is `bad` when   *)
(* it does not start with a colon, holds a character that is not a hex     *)
(* digit, or does not sum to zero; otherwise its type byte says data (0),  *)
(* eof (1) or other (everything else, the extended addresses included).    *)
(* A data token has its address, its count, and `tail`: all the bytes that *)
(* follow the type byte, the check sum last.  The count is the token's own *)
(* claim and need not agree with the tail; dat[] is cleared for every      *)
(* token, so a byte the tail does not have is zero.  HexText says how a    *)
(* token's characters come to that.                                        *)
(*                                                                         *)
(* Tokens are shorter than buf[1024].                                      *)
(***************************************************************************)
EXTENDS Integers, Sequences

CONSTANTS
  MemSize,       (* bytes in out: 65536                                     *)
  Byte,          (* byte values, zero among them                            *)
  Files          (* the files that may be chosen                            *)

Address == 0 .. MemSize - 1

Token ==
  [kind : {"data", "eof", "other", "bad"}, addr : Address, cnt : Nat,
   tail : Seq(Byte)]

ASSUME MemSizeAssumption == MemSize \in Nat \ {0}
ASSUME ByteAssumption    == 0 \in Byte
ASSUME FilesAssumption   == Files \subseteq Seq(Token)

VARIABLES
  file,          (* the file's tokens                                       *)
  pc,            (* "open", "loop", "close", "returned", "overrun"          *)
  i,             (* tokens read so far                                      *)
  out,           (* the image                                               *)
  max,           (* highest address stored to                               *)
  flag,          (* 1: the file was rejected                                *)
  ret            (* the result, once returned                               *)

vars == <<file, pc, i, out, max, flag, ret>>

-----------------------------------------------------------------------------
(* The addresses a data token stores to.                                   *)
Span(t) == t.addr .. t.addr + t.cnt - 1

(* What it stores at address a of its span: dat[i+4].                      *)
ByteAt(t, a) ==
  LET k == a - t.addr + 1
  IN  IF k \in DOMAIN t.tail THEN t.tail[k] ELSE 0

Blank == [a \in Address |-> 0]

Init ==
  /\ file \in Files
  /\ pc = "open"
  /\ i = 0
  /\ out = Blank
  /\ max = 0
  /\ flag = 0
  /\ ret = 0

(* fopen                                                                   *)
Open ==
  /\ pc = "open"
  /\ \/ pc' = "loop"
     \/ pc' = "returned"                  (* it fails: return 0             *)
  /\ UNCHANGED <<file, i, out, max, flag, ret>>

(* fscanf delivers the next token, and it is of this kind.                 *)
Read(kind) ==
  /\ pc = "loop"
  /\ i < Len(file)
  /\ file[i + 1].kind = kind
  /\ i' = i + 1
  /\ UNCHANGED <<file, ret>>

Store_AllButLast(t) ==
  out' = [a \in Address |->
            IF a \in Span(t) \ {t.addr + t.cnt - 1} THEN ByteAt(t, a) ELSE out[a]]

(* The byte loop over a span within out.                                   *)
Store(t) ==
  out' = [a \in Address |-> IF a \in Span(t) THEN ByteAt(t, a) ELSE out[a]]

Highest_PastEnd(t) ==
  IF t.cnt > 0 /\ t.addr + t.cnt > max THEN t.addr + t.cnt ELSE max

Highest_LastStored(t) ==
  IF t.cnt > 0 THEN t.addr + t.cnt - 1 ELSE max

(* if (idx >= max) max = idx                                               *)
Highest(t) ==
  IF t.cnt > 0 /\ t.addr + t.cnt - 1 >= max THEN t.addr + t.cnt - 1 ELSE max

ReadData ==
  /\ Read("data")
  /\ Span(file[i + 1]) \subseteq Address
  /\ Store(file[i + 1])
  /\ max' = Highest(file[i + 1])
  /\ UNCHANGED <<pc, flag>>

(* A span that crosses the end of out: there is no bound check, and the    *)
(* stores go on into the caller's stack frame.  The model ends here.       *)
ReadPastEnd ==
  /\ Read("data")
  /\ ~ (Span(file[i + 1]) \subseteq Address)
  /\ pc' = "overrun"
  /\ UNCHANGED <<out, max, flag>>

ReadOther ==
  /\ Read("other")
  /\ UNCHANGED <<pc, out, max, flag>>

ReadEof ==
  /\ Read("eof")
  /\ pc' = "close"
  /\ UNCHANGED <<out, max, flag>>

ReadBad_Skips ==
  /\ Read("bad")
  /\ UNCHANGED <<pc, out, max, flag>>

ReadBad ==
  /\ Read("bad")
  /\ flag' = 1
  /\ pc' = "close"
  /\ UNCHANGED <<out, max>>

(* EOF from fscanf: a file without an end record is as good as one with.   *)
FileEnds ==
  /\ pc = "loop"
  /\ i = Len(file)
  /\ pc' = "close"
  /\ UNCHANGED <<file, i, out, max, flag, ret>>

Return_KeepsMax ==
  /\ pc = "close"
  /\ ret' = max + 1
  /\ pc' = "returned"
  /\ UNCHANGED <<file, i, out, max, flag>>

(* if (flag) max = 0; return max + 1                                       *)
Return ==
  /\ pc = "close"
  /\ max' = IF flag = 1 THEN 0 ELSE max
  /\ ret' = max' + 1
  /\ pc' = "returned"
  /\ UNCHANGED <<file, i, out, flag>>

Over == pc \in {"returned", "overrun"} /\ UNCHANGED vars

Next ==
  \/ Open \/ ReadData \/ ReadPastEnd \/ ReadOther \/ ReadEof \/ ReadBad
  \/ FileEnds \/ Return \/ Over

Spec == Init /\ [][Next]_vars

-----------------------------------------------------------------------------
(* Types of the loader's state.                                            *)
TypeOK ==
  /\ file \in Files
  /\ pc \in {"open", "loop", "close", "returned", "overrun"}
  /\ i \in 0 .. Len(file)
  /\ out \in [Address -> Byte]
  /\ max \in Address
  /\ flag \in {0, 1}
  /\ ret \in 0 .. MemSize

(* The file was opened and read to its end, and not rejected.              *)
Accepted == pc = "returned" /\ ret > 0 /\ flag = 0

(* The tokens that count: those before the first end record.               *)
Body == {j \in 1 .. Len(file) : \A k \in 1 .. j : file[k].kind # "eof"}

(* The data tokens among them that store to address a.                     *)
Writers(a) == {j \in Body : file[j].kind = "data" /\ a \in Span(file[j])}

(* The image of an accepted file: at every address the byte of the last    *)
(* data record that covers it, and zero where none does.                   *)
ImageIsFile ==
  Accepted =>
    \A a \in Address :
      \/ Writers(a) = {} /\ out[a] = 0
      \/ \E j \in Writers(a) : /\ \A k \in Writers(a) : k <= j
                               /\ out[a] = ByteAt(file[j], a)

(* The length of an accepted file reaches to the highest address any of    *)
(* its records covers, and no further.                                     *)
LengthIsEnd ==
  Accepted =>
    /\ \A a \in Address : Writers(a) # {} => a < ret
    /\ ret > 1 => Writers(ret - 1) # {}

(* A file is rejected exactly when a bad token stands before its end       *)
(* record, wherever the good ones are.                                     *)
RejectsBadFiles ==
  pc = "returned" /\ ret > 0 =>
    (flag = 1 <=> \E j \in Body : file[j].kind = "bad")

(* What the download buttons take the result for, who see nothing else of  *)
(* it: 0 is a file that could not be opened, whose image is blank; 1 is    *)
(* what every rejected file gives, whatever was stored before the bad      *)
(* token; and an accepted file never gives 0 and fits the image.           *)
ResultIsLoad ==
  pc = "returned" =>
    \/ ret = 0 /\ flag = 0 /\ i = 0 /\ out = Blank
    \/ ret = 1 /\ flag = 1
    \/ ret \in 1 .. MemSize /\ flag = 0
=============================================================================
