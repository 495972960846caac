------------------------------- MODULE HexText -------------------------------
(***************************************************************************)
(* What the characters of a HEX file are to hex2bin (user_inc/hex_lib.h),  *)
(* and what becomes of a file between the assembler that wrote it and the  *)
(* loader: HexLoader takes a token for what the loop makes of it, and here *)
(* is what that is.                                                        *)
(*                                                                         *)
(* A file was written as a list of records, each with the count of its     *)
(* bytes and a sum that makes all of them add up to zero.  It is read as   *)
(* it was written, or with one character changed; or it was not written by *)
(* an assembler, and its tokens are whatever they are.  A wrong character  *)
(* is a visible one or one of the two that end a string or a text file;    *)
(* white space, which would split a token, is left out.                    *)
(*                                                                         *)
(* A digit is a number below Radix; upper and lower case are the same.  A  *)
(* byte has two digits, and an address two bytes.                          *)
(***************************************************************************)
EXTENDS HexLoader

CONSTANTS
  Radix,         (* 16                                                      *)
  Written,       (* the lists of records that may be written                *)
  Found          (* the lists of tokens that may be found instead           *)

Digit == 0 .. Radix - 1
Colon == Radix
Blot  == Radix + 1           (* any other visible character                *)
Nul   == Radix + 2           (* '\0': strlen counts up to it               *)
Sub   == Radix + 3           (* 0x1A: a file opened with "r" ends at it    *)

Visible == Digit \union {Colon, Blot}
Char    == Visible \union {Nul, Sub}
Modulus == Radix * Radix

Record ==
  [type : 0 .. Modulus - 1, addr : 0 .. Modulus * Modulus - 1,
   data : Seq(0 .. Modulus - 1)]

ASSUME RadixAssumption ==
  /\ Radix \in Nat /\ Radix > 1
  /\ MemSize = Modulus * Modulus /\ Byte = 0 .. Modulus - 1
ASSUME WrittenAssumption ==
  /\ Written \subseteq Seq(Record)
  /\ \A w \in Written : \A r \in DOMAIN w :
       /\ Len(w[r].data) < Modulus
       /\ w[r].addr + Len(w[r].data) <= MemSize
ASSUME FoundAssumption ==
  Found \subseteq Seq(Seq(Char)) /\ \A f \in Found : \A t \in DOMAIN f : f[t] # <<>>

VARIABLES
  written,       (* the records written, if an assembler wrote the file     *)
  text,          (* the tokens in the file                                  *)
  damage         (* "none"; one character is wrong: "visible" or "control"; *)
                 (* or "found"                                              *)

textVars == <<vars, written, text, damage>>

-----------------------------------------------------------------------------
(* The sums of the first n numbers of a sequence, as a loop adds them up.  *)
Sums(b) ==
  LET upTo[n \in 0 .. Len(b)] == IF n = 0 THEN 0 ELSE upTo[n - 1] + b[n]
  IN  upTo

Sum(b) == Sums(b)[Len(b)]

(* A record as an assembler writes it.                                     *)
Summed(b) == Append(b, (-Sum(b)) % Modulus)

Spelt(b) ==
  <<Colon>> \o [c \in 1 .. 2 * Len(b) |->
                  IF c % 2 = 1 THEN b[(c + 1) \div 2] \div Radix
                  ELSE b[c \div 2] % Radix]

Line(r) ==
  Spelt(Summed(<<Len(r.data), r.addr \div Modulus, r.addr % Modulus, r.type>>
               \o r.data))

Lines(w) == [r \in DOMAIN w |-> Line(w[r])]

-----------------------------------------------------------------------------
(* hex2bin's reading of a token; p is what stands behind its first         *)
(* character.                                                              *)

(* strtol of two characters, or of the one that is left.                   *)
str2int8_Swapped(p, k) ==
  IF 2 * k + 2 <= Len(p) THEN p[2 * k + 2] * Radix + p[2 * k + 1]
  ELSE p[2 * k + 1]

str2int8(p, k) ==
  IF 2 * k + 2 <= Len(p) THEN p[2 * k + 1] * Radix + p[2 * k + 2]
  ELSE p[2 * k + 1]

(* dat[k], which is cleared for every token.                               *)
dat(p, k) == IF 2 * k < Len(p) THEN str2int8(p, k) ELSE 0

check_sum_NotTheCount(p) ==
  Sum([k \in 1 .. Len(p) \div 2 |-> IF k = 1 THEN 0 ELSE dat(p, k - 1)])
    % Modulus

(* A digit without a partner has its place in dat and is not summed up.    *)
check_sum(p) == Sum([k \in 1 .. Len(p) \div 2 |-> dat(p, k - 1)]) % Modulus

(* A string up to the first x in it.                                      *)
CutAt(t, x) ==
  LET at == {c \in DOMAIN t : t[c] = x}
  IN  IF at = {} THEN t
      ELSE SubSeq(t, 1, (CHOOSE c \in at : \A b \in at : c <= b) - 1)

Refused(t) ==
  LET p == CutAt(Tail(t), Nul)
  IN  \/ t[1] # Colon
      \/ p \notin Seq(Digit)
      \/ check_sum(p) # 0

(* The token that HexLoader reads.                                         *)
Parsed(t) ==
  LET p     == CutAt(Tail(t), Nul)
      bytes == [k \in 1 .. (Len(p) + 1) \div 2 |-> dat(p, k - 1)]
  IN  IF Refused(t)
      THEN [kind |-> "bad", addr |-> 0, cnt |-> 0, tail |-> <<>>]
      ELSE [kind |-> CASE dat(p, 3) = 0 -> "data"
                       [] dat(p, 3) = 1 -> "eof"
                       [] OTHER -> "other",
            addr |-> dat(p, 1) * Modulus + dat(p, 2),
            cnt  |-> dat(p, 0),
            tail |-> SubSeq(bytes, 5, Len(bytes))]

(* What fscanf delivers: the tokens ahead of the first Sub, and what       *)
(* stands before it in its own.                                            *)
AsRead(f) ==
  LET ended == {t \in DOMAIN f : CutAt(f[t], Sub) # f[t]}
      last  == CHOOSE t \in ended : \A u \in ended : t <= u
      cut   == CutAt(f[last], Sub)
  IN  IF ended = {} THEN f
      ELSE SubSeq(f, 1, last - 1) \o (IF cut = <<>> THEN <<>> ELSE <<cut>>)

(* A token with one character changed into one of these.                   *)
Changed(t, chars) == {[t EXCEPT ![c] = x] : c \in DOMAIN t, x \in chars} \ {t}

-----------------------------------------------------------------------------
TextInit ==
  /\ \/ /\ written \in Written
        /\ damage = "none"
        /\ text = Lines(written)
     \/ /\ written \in Written
        /\ damage \in {"visible", "control"}
        /\ \E r \in DOMAIN written :
             \E t \in Changed(Line(written[r]),
                             IF damage = "visible" THEN Visible ELSE {Nul, Sub}) :
               text = [Lines(written) EXCEPT ![r] = t]
     \/ /\ written = <<>>
        /\ damage = "found"
        /\ text \in Found
  /\ file = [t \in DOMAIN AsRead(text) |-> Parsed(AsRead(text)[t])]
  /\ Init

TextNext == Next /\ UNCHANGED <<written, text, damage>>

TextSpec == TextInit /\ [][TextNext]_textVars

-----------------------------------------------------------------------------
(* Records of w that count.                                                *)
Before(w) == {r \in DOMAIN w : \A q \in 1 .. r : w[q].type # 1}

Covers(r, a) ==
  r.type = 0 /\ a \in r.addr .. r.addr + Len(r.data) - 1

(* What an assembler wrote is what is loaded: every byte of every data     *)
(* record, the later one where two overlap, and nothing else; and no file  *)
(* of its making is refused.                                               *)
WrittenIsLoaded ==
  damage = "none" /\ pc = "returned" /\ ret > 0 =>
    LET at(a) == {r \in Before(written) : Covers(written[r], a)}
    IN  /\ flag = 0
        /\ \A a \in Address :
             \/ at(a) = {} /\ out[a] = 0
             \/ \E r \in at(a) :
                  /\ \A q \in at(a) : q <= r
                  /\ out[a] = written[r].data[a - written[r].addr + 1]

(* One wrong visible character anywhere in a file, in a digit, a colon or  *)
(* a check sum, is noticed when its record is read: the file is rejected,  *)
(* and no byte is stored outside the image.  It takes a control character  *)
(* to get past: at a Nul the record ends before its check sum, and at a    *)
(* Sub the file does.                                                      *)
OneWrongCharacterIsSeen ==
  damage = "visible" /\ pc \in {"returned", "overrun"} =>
    \A t \in 1 .. i : text[t] # Line(written[t]) => flag = 1 /\ ret = 1
=============================================================================
