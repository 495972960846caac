--------------------------- MODULE HexLoader_proofs ---------------------------
(***************************************************************************)
(* What hex2bin returns is the file, for files of any length and images of *)
(* any size; and what the file's tokens are, for digits of any radix.      *)
(*                                                                         *)
(* The first part is about tokens.  The second is about their characters:  *)
(* the bytes of a record and its sum, by induction on the bytes; that      *)
(* hex2bin reads what an assembler spelt (LineIsRead), and takes no record *)
(* with one wrong character for a record (ChangedIsBad).  The third puts   *)
(* them together: the file hex2bin reads is the records that were written. *)
(***************************************************************************)
EXTENDS HexText, FiniteSetTheorems, SequenceTheorems, TLAPS

(* The data tokens read so far that store to address a.                    *)
Stored(a) == {j \in 1 .. i : file[j].kind = "data" /\ a \in Span(file[j])}

(* The last of a set of tokens decides what an address holds.              *)
HeldBy(W, a) ==
  \/ W = {} /\ out[a] = 0
  \/ \E j \in W : (\A k \in W : k <= j) /\ out[a] = ByteAt(file[j], a)

ImageSoFar == pc # "overrun" => \A a \in Address : HeldBy(Stored(a), a)

MaxSoFar ==
  pc # "overrun" /\ flag = 0 =>
    /\ \A a \in Address : Stored(a) # {} => a <= max
    /\ max > 0 => Stored(max) # {}

Ended == pc = "close" \/ (pc = "returned" /\ ret > 0)

(* Reading stops at the first token that ends the body, and nowhere else.  *)
Progress ==
  /\ pc = "open" => i = 0
  /\ pc \in {"open", "loop"} => flag = 0
  /\ pc \in {"open", "loop", "close", "overrun"} => ret = 0
  /\ pc = "loop" => \A j \in 1 .. i : file[j].kind \in {"data", "other"}
  /\ Ended /\ flag = 0 =>
       /\ \A a \in Address : Writers(a) = Stored(a)
       /\ \A j \in Body : file[j].kind # "bad"
  /\ Ended /\ flag = 1 => \E j \in Body : file[j].kind = "bad"
  /\ Accepted => ret = max + 1

IInv == TypeOK /\ ImageSoFar /\ MaxSoFar /\ Progress

-----------------------------------------------------------------------------
(* A file is a sequence of tokens, so a token read is a token.             *)
LEMMA TokenAt ==
  ASSUME TypeOK, NEW j \in 1 .. Len(file)
  PROVE  file[j] \in Token
<1>1. file \in Seq(Token)
  BY FilesAssumption DEF TypeOK
<1> QED BY <1>1, ElementOfSeq

(* A file is a sequence of tokens.                                         *)
LEMMA FileIsSequence ==
  ASSUME TypeOK
  PROVE  file \in Seq(Token) /\ Len(file) \in Nat
<1>1. file \in Seq(Token)
  BY FilesAssumption DEF TypeOK
<1> QED BY <1>1, LenProperties

(* A byte stored is a byte: the tail's, or the zero dat[] was cleared to.  *)
LEMMA ByteAtType ==
  ASSUME NEW t \in Token, NEW a \in Address
  PROVE  ByteAt(t, a) \in Byte
<1> DEFINE k == a - t.addr + 1
<1>1. t.tail \in Seq(Byte)
  BY DEF Token
<1>2. CASE k \in DOMAIN t.tail
  <2>1. t.tail[k] \in Byte
    <3>1. DOMAIN t.tail = 1 .. Len(t.tail)
      BY <1>1, LenProperties
    <3> QED BY <1>1, <1>2, <3>1, ElementOfSeq
  <2> QED BY <1>2, <2>1 DEF ByteAt
<1>3. CASE k \notin DOMAIN t.tail
  BY <1>3, ByteAssumption DEF ByteAt
<1> QED BY <1>2, <1>3

(* Which tokens form the body when the first k of them do not end it.      *)
LEMMA BodyAt ==
  ASSUME TypeOK, i < Len(file),
         \A j \in 1 .. i : file[j].kind \in {"data", "other"}
  PROVE  /\ 1 .. i \subseteq Body
         /\ file[i + 1].kind = "eof" => Body = 1 .. i
         /\ file[i + 1].kind # "eof" => i + 1 \in Body
<1>1. i \in Nat /\ Len(file) \in Nat
  BY FileIsSequence DEF TypeOK
<1>2. 1 .. i \subseteq Body
  BY <1>1 DEF Body
<1>3. ASSUME file[i + 1].kind = "eof" PROVE Body = 1 .. i
  <2>1. ASSUME NEW j \in Body PROVE j \in 1 .. i
    <3>1. j \in 1 .. Len(file) /\ \A k \in 1 .. j : file[k].kind # "eof"
      BY DEF Body
    <3>2. ~ (i + 1 \in 1 .. j)
      BY <1>3, <3>1
    <3> QED BY <1>1, <3>1, <3>2
  <2> QED BY <1>2, <2>1
<1>4. ASSUME file[i + 1].kind # "eof" PROVE i + 1 \in Body
  <2>1. ASSUME NEW k \in 1 .. i + 1 PROVE file[k].kind # "eof"
    <3>1. k \in 1 .. i \/ k = i + 1
      BY <1>1
    <3> QED BY <1>4, <3>1
  <2> QED BY <1>1, <2>1 DEF Body
<1> QED BY <1>2, <1>3, <1>4

(* The tokens that store to an address, after one more has been read.      *)
LEMMA StoredGrows ==
  ASSUME TypeOK, i < Len(file), i' = i + 1, file' = file, NEW a \in Address
  PROVE  /\ file[i + 1].kind = "data" /\ a \in Span(file[i + 1])
              => Stored(a)' = Stored(a) \union {i + 1}
         /\ ~ (file[i + 1].kind = "data" /\ a \in Span(file[i + 1]))
              => Stored(a)' = Stored(a)
<1>1. i \in Nat
  BY DEF TypeOK
<1>2. 1 .. i' = (1 .. i) \union {i + 1}
  BY <1>1
<1>3. Stored(a)' =
        {j \in 1 .. i' : file[j].kind = "data" /\ a \in Span(file[j])}
  BY DEF Stored, Span
<1> QED BY <1>2, <1>3 DEF Stored

-----------------------------------------------------------------------------
(* The invariant holds before the file is opened.                          *)
LEMMA InitHolds == Init => IInv
<1> SUFFICES ASSUME Init PROVE IInv
  OBVIOUS
<1>1. i = 0 /\ max = 0 /\ flag = 0 /\ ret = 0 /\ pc = "open" /\ file \in Files
  BY DEF Init
<1>2. file \in Seq(Token)
  BY <1>1, FilesAssumption
<1>3. TypeOK
  <2>1. Len(file) \in Nat
    BY <1>2, LenProperties
  <2>2. out \in [Address -> Byte]
    BY ByteAssumption DEF Init, Blank
  <2> QED
    BY <1>1, <2>1, <2>2, MemSizeAssumption DEF TypeOK, Address
<1>4. \A a : Stored(a) = {}
  BY <1>1 DEF Stored
<1>5. ImageSoFar
  BY <1>4 DEF ImageSoFar, HeldBy, Init, Blank
<1>6. MaxSoFar
  BY <1>1, <1>4 DEF MaxSoFar
<1>7. Progress
  BY <1>1 DEF Progress, Ended, Accepted
<1> QED BY <1>3, <1>5, <1>6, <1>7 DEF IInv

(* What every reading step has in hand.                                    *)
LEMMA Reading ==
  ASSUME IInv, NEW kind \in {"data", "eof", "other", "bad"}, Read(kind)
  PROVE  /\ i \in Nat /\ Len(file) \in Nat /\ i < Len(file)
         /\ i' = i + 1 /\ i' \in 0 .. Len(file) /\ file' = file /\ ret' = ret
         /\ file[i + 1] \in Token /\ file[i + 1].kind = kind
         /\ pc = "loop" /\ flag = 0 /\ ret = 0
         /\ \A j \in 1 .. i : file[j].kind \in {"data", "other"}
         /\ \A a \in Address : HeldBy(Stored(a), a)
         /\ \A a \in Address : Stored(a) # {} => a <= max
         /\ max > 0 => Stored(max) # {}
<1>1. TypeOK /\ pc = "loop" /\ i < Len(file)
  BY DEF IInv, Read
<1>2. i \in Nat /\ Len(file) \in Nat
  BY <1>1, FileIsSequence DEF TypeOK
<1>3. file[i + 1] \in Token
  <2>1. i + 1 \in 1 .. Len(file)
    BY <1>1, <1>2
  <2> QED BY <1>1, <2>1, TokenAt
<1>4. flag = 0 /\ ret = 0 /\ \A j \in 1 .. i : file[j].kind \in {"data", "other"}
  BY <1>1 DEF IInv, Progress
<1>5. i' = i + 1 /\ i' \in 0 .. Len(file) /\ file' = file /\ ret' = ret
      /\ file[i + 1].kind = kind
  BY <1>1, <1>2 DEF Read
<1>6. \A a \in Address : HeldBy(Stored(a), a)
  BY <1>1 DEF IInv, ImageSoFar
<1>7. /\ \A a \in Address : Stored(a) # {} => a <= max
      /\ max > 0 => Stored(max) # {}
  BY <1>1, <1>4 DEF IInv, MaxSoFar
<1> QED BY <1>1, <1>2, <1>3, <1>4, <1>5, <1>6, <1>7

(* A step that reads a token and stores nothing leaves image and length    *)
(* as they were.                                                           *)
LEMMA ReadsOnly ==
  ASSUME IInv, NEW kind \in {"eof", "other", "bad"}, Read(kind),
         UNCHANGED <<out, max>>
  PROVE  /\ \A a \in Address : Stored(a)' = Stored(a)
         /\ ImageSoFar' /\ MaxSoFar'
<1>1. /\ i < Len(file) /\ i' = i + 1 /\ file' = file
      /\ file[i + 1].kind = kind
      /\ \A a \in Address : HeldBy(Stored(a), a)
      /\ \A a \in Address : Stored(a) # {} => a <= max
      /\ max > 0 => Stored(max) # {}
  BY Reading
<1>2. TypeOK
  BY DEF IInv
<1>3. ASSUME NEW a \in Address PROVE Stored(a)' = Stored(a)
  <2>1. ~ (file[i + 1].kind = "data" /\ a \in Span(file[i + 1]))
    BY <1>1
  <2> QED BY <1>1, <1>2, <2>1, StoredGrows
<1>4. max \in Address
  BY <1>2 DEF TypeOK
<1>5. ImageSoFar'
  <2> SUFFICES ASSUME NEW a \in Address PROVE HeldBy(Stored(a), a)'
    BY DEF ImageSoFar
  <2>1. HeldBy(Stored(a), a)
    BY <1>1
  <2> QED BY <1>1, <1>3, <2>1 DEF HeldBy, ByteAt
<1>6. MaxSoFar'
  <2>1. Stored(max)' = Stored(max)
    BY <1>3, <1>4
  <2>2. max' = max
    OBVIOUS
  <2> QED BY <1>1, <1>3, <2>1, <2>2 DEF MaxSoFar, Stored
<1> QED BY <1>3, <1>5, <1>6

(* A data record preserves it: its bytes become the last ones at their     *)
(* addresses.                                                              *)
LEMMA ReadDataStep ==
  ASSUME IInv, ReadData
  PROVE  IInv'
<1> DEFINE t == file[i + 1]
<1>1. /\ Read("data") /\ Span(t) \subseteq Address /\ max' = Highest(t)
      /\ out' = [a \in Address |-> IF a \in Span(t) THEN ByteAt(t, a) ELSE out[a]]
      /\ pc' = pc /\ flag' = flag
  BY DEF ReadData, Store
<1>2. /\ i \in Nat /\ i < Len(file) /\ i' = i + 1 /\ i' \in 0 .. Len(file)
      /\ file' = file /\ ret' = ret /\ t \in Token /\ t.kind = "data"
      /\ pc = "loop" /\ flag = 0 /\ ret = 0
      /\ \A j \in 1 .. i : file[j].kind \in {"data", "other"}
      /\ \A a \in Address : HeldBy(Stored(a), a)
      /\ \A a \in Address : Stored(a) # {} => a <= max
      /\ max > 0 => Stored(max) # {}
  BY <1>1, Reading
<1>3. TypeOK /\ max \in Address /\ out \in [Address -> Byte] /\ MemSize \in Nat \ {0}
  BY MemSizeAssumption DEF IInv, TypeOK
<1>4. t.addr \in Int /\ t.cnt \in Nat
  BY <1>2 DEF Token, Address
<1>5. /\ max' \in Address /\ max' >= max
      /\ \A a \in Span(t) : a <= max'
      /\ max' = max \/ max' \in Span(t)
  <2> DEFINE last == t.addr + t.cnt - 1
  <2>1. last \in Int
    BY <1>4
  <2>2. \A a \in Span(t) : a \in Int /\ a <= last /\ t.cnt > 0
    BY <1>4 DEF Span
  <2>3. t.cnt > 0 => last \in Span(t)
    BY <1>4 DEF Span
  <2>4. CASE t.cnt > 0 /\ last >= max
    <3>1. max' = last
      BY <1>1, <2>4 DEF Highest
    <3> QED BY <1>1, <1>3, <2>1, <2>2, <2>3, <2>4, <3>1 DEF Address
  <2>5. CASE ~ (t.cnt > 0 /\ last >= max)
    <3>1. max' = max
      BY <1>1, <2>5 DEF Highest
    <3>2. max \in Int
      BY <1>3 DEF Address
    <3> QED BY <1>3, <2>1, <2>2, <2>5, <3>1, <3>2
  <2> QED BY <2>4, <2>5
<1>6. TypeOK'
  <2>1. \A a \in Address : ByteAt(t, a) \in Byte
    BY <1>2, ByteAtType
  <2>2. out' \in [Address -> Byte]
    BY <1>1, <1>3, <2>1
  <2> QED BY <1>1, <1>2, <1>3, <1>5, <2>2 DEF TypeOK
<1>7. ASSUME NEW a \in Address
      PROVE  /\ a \in Span(t) => Stored(a)' = Stored(a) \union {i + 1}
             /\ a \notin Span(t) => Stored(a)' = Stored(a)
  BY <1>2, <1>3, StoredGrows
<1>8. ImageSoFar'
  <2> SUFFICES ASSUME NEW a \in Address PROVE HeldBy(Stored(a), a)'
    BY DEF ImageSoFar
  <2>1. CASE a \in Span(t)
    <3>1. Stored(a)' = Stored(a) \union {i + 1}
      BY <1>7, <2>1
    <3>2. \A k \in Stored(a) : k <= i
      BY <1>2 DEF Stored
    <3>3. \A k \in Stored(a)' : k <= i + 1
      <4>1. \A k \in Stored(a) : k \in Int
        BY DEF Stored
      <4> QED BY <1>2, <3>1, <3>2, <4>1
    <3>4. out'[a] = ByteAt(t, a)
      BY <1>1, <2>1
    <3>5. \E j \in Stored(a)' :
            /\ \A k \in Stored(a)' : k <= j
            /\ out'[a] = ByteAt(file'[j], a)
      <4>1. out'[a] = ByteAt(file'[i + 1], a)
        BY <1>2, <3>4
      <4>2. i + 1 \in Stored(a)'
        BY <3>1
      <4> QED BY <3>3, <4>1, <4>2
    <3> QED BY <3>5 DEF HeldBy, ByteAt
  <2>2. CASE a \notin Span(t)
    <3>1. Stored(a)' = Stored(a) /\ out'[a] = out[a]
      BY <1>1, <1>7, <2>2
    <3>2. HeldBy(Stored(a), a)
      BY <1>2
    <3> QED BY <1>2, <3>1, <3>2 DEF HeldBy, ByteAt
  <2> QED BY <2>1, <2>2
<1>9. MaxSoFar'
  <2>1. ASSUME NEW a \in Address, Stored(a)' # {} PROVE a <= max'
    <3>1. CASE a \in Span(t)
      BY <1>5, <3>1
    <3>2. CASE a \notin Span(t)
      <4>1. a <= max
        BY <1>2, <1>7, <2>1, <3>2
      <4> QED BY <1>3, <1>5, <4>1 DEF Address
    <3> QED BY <3>1, <3>2
  <2>2. ASSUME NEW a \in Address
        PROVE  {j \in 1 .. i' : file'[j].kind = "data" /\ a \in Span(file'[j])}
                 = IF a \in Span(t) THEN Stored(a) \union {i + 1} ELSE Stored(a)
    BY <1>7 DEF Stored, Span
  <2>3. Stored(max)' =
          IF max' \in Span(t) THEN Stored(max') \union {i + 1} ELSE Stored(max')
    <3>1. Stored(max)' =
            {j \in 1 .. i' : file'[j].kind = "data" /\ max' \in Span(file'[j])}
      BY DEF Stored, Span
    <3> QED BY <1>5, <2>2, <3>1
  <2>4. ASSUME max' > 0 PROVE Stored(max)' # {}
    <3>1. CASE max' \in Span(t)
      BY <2>3, <3>1
    <3>2. CASE max' \notin Span(t)
      <4>1. max' = max
        BY <1>5, <3>2
      <4>2. Stored(max') # {}
        BY <1>2, <2>4, <4>1
      <4> QED BY <2>3, <3>2, <4>2
    <3> QED BY <3>1, <3>2
  <2> QED BY <1>1, <1>2, <2>1, <2>4 DEF MaxSoFar
<1>10. Progress'
  <2>1. \A j \in 1 .. i' : file'[j].kind \in {"data", "other"}
    BY <1>2
  <2> QED BY <1>1, <1>2, <2>1 DEF Progress, Ended, Accepted
<1> QED BY <1>6, <1>8, <1>9, <1>10 DEF IInv

(* ReadEof and FileEnds: the body has been read, so its writers to any     *)
(* address are the tokens stored.                                          *)
LEMMA BodyRead ==
  ASSUME TypeOK, Body = 1 .. i,
         \A j \in 1 .. i : file[j].kind \in {"data", "other"}
  PROVE  /\ \A a \in Address : Writers(a) = Stored(a)
         /\ \A j \in Body : file[j].kind # "bad"
BY DEF Writers, Stored

(* So does a record of another type, which stores nothing.                 *)
LEMMA ReadOtherStep ==
  ASSUME IInv, ReadOther
  PROVE  IInv'
<1>1. Read("other") /\ UNCHANGED <<pc, out, max, flag>>
  BY DEF ReadOther
<1>2. ImageSoFar' /\ MaxSoFar'
  BY <1>1, ReadsOnly
<1>3. /\ i \in Nat /\ i' = i + 1 /\ i' \in 0 .. Len(file) /\ file' = file
      /\ ret' = ret /\ ret = 0 /\ pc = "loop" /\ flag = 0
      /\ file[i + 1].kind = "other"
      /\ \A j \in 1 .. i : file[j].kind \in {"data", "other"}
  BY <1>1, Reading
<1>4. TypeOK'
  BY <1>1, <1>3 DEF IInv, TypeOK
<1>5. Progress'
  <2>1. \A j \in 1 .. i' : file'[j].kind \in {"data", "other"}
    BY <1>3
  <2> QED BY <1>1, <1>3, <2>1 DEF Progress, Ended, Accepted
<1> QED BY <1>2, <1>4, <1>5 DEF IInv

(* So does the end record.                                                 *)
LEMMA ReadEofStep ==
  ASSUME IInv, ReadEof
  PROVE  IInv'
<1>1. Read("eof") /\ pc' = "close" /\ UNCHANGED <<out, max, flag>>
  BY DEF ReadEof
<1>2. ImageSoFar' /\ MaxSoFar' /\ \A a \in Address : Stored(a)' = Stored(a)
  BY <1>1, ReadsOnly
<1>3. /\ i < Len(file) /\ i' \in 0 .. Len(file) /\ file' = file
      /\ ret' = ret /\ ret = 0 /\ flag = 0 /\ file[i + 1].kind = "eof"
      /\ \A j \in 1 .. i : file[j].kind \in {"data", "other"}
  BY <1>1, Reading
<1>4. TypeOK'
  BY <1>1, <1>3 DEF IInv, TypeOK
<1>5. /\ \A a \in Address : Writers(a) = Stored(a)
      /\ \A j \in Body : file[j].kind # "bad"
  <2>1. Body = 1 .. i
    BY <1>3, BodyAt DEF IInv
  <2> QED BY <1>3, <2>1, BodyRead DEF IInv
<1>6. Progress'
  <2>1. \A a \in Address : Writers(a)' = Writers(a)
    BY <1>3 DEF Writers, Body, Span
  <2>2. Body' = Body
    BY <1>3 DEF Body
  <2> QED BY <1>1, <1>2, <1>3, <1>5, <2>1, <2>2 DEF Progress, Ended, Accepted
<1> QED BY <1>2, <1>4, <1>6 DEF IInv

(* So does a bad token, which rejects the file.                            *)
LEMMA ReadBadStep ==
  ASSUME IInv, ReadBad
  PROVE  IInv'
<1>1. Read("bad") /\ pc' = "close" /\ flag' = 1 /\ UNCHANGED <<out, max>>
  BY DEF ReadBad
<1>2. ImageSoFar' /\ MaxSoFar'
  BY <1>1, ReadsOnly
<1>3. /\ i < Len(file) /\ i' \in 0 .. Len(file) /\ file' = file
      /\ ret' = ret /\ ret = 0 /\ flag = 0 /\ file[i + 1].kind = "bad"
      /\ \A j \in 1 .. i : file[j].kind \in {"data", "other"}
  BY <1>1, Reading
<1>4. TypeOK'
  BY <1>1, <1>3 DEF IInv, TypeOK
<1>5. i + 1 \in Body
  BY <1>3, BodyAt DEF IInv
<1>6. Progress'
  <2>1. Body' = Body
    BY <1>3 DEF Body
  <2> QED BY <1>1, <1>3, <1>5, <2>1 DEF Progress, Ended, Accepted
<1> QED BY <1>2, <1>4, <1>6 DEF IInv

(* When image, length and position stay, so does what is said of them.     *)
LEMMA SameImage ==
  ASSUME IInv, UNCHANGED <<file, i, out>>, pc # "overrun"
  PROVE  /\ ImageSoFar'
         /\ \A a \in Address : Stored(a)' = Stored(a)
         /\ \A a \in Address : Writers(a)' = Writers(a)
         /\ Body' = Body
<1>1. ImageSoFar'
  BY DEF IInv, ImageSoFar, HeldBy, Stored, Span, ByteAt
<1>2. \A a \in Address : Stored(a)' = Stored(a)
  BY DEF Stored, Span
<1>3. /\ \A a \in Address : Writers(a)' = Writers(a)
      /\ Body' = Body
  BY DEF Writers, Body, Span
<1> QED BY <1>1, <1>2, <1>3

(* So does the end of the file.                                            *)
LEMMA FileEndsStep ==
  ASSUME IInv, FileEnds
  PROVE  IInv'
<1>1. /\ pc = "loop" /\ i = Len(file) /\ pc' = "close"
      /\ UNCHANGED <<file, i, out, max, flag, ret>>
  BY DEF FileEnds
<1>2. /\ ImageSoFar'
      /\ \A a \in Address : Stored(a)' = Stored(a)
      /\ \A a \in Address : Writers(a)' = Writers(a)
      /\ Body' = Body
  BY <1>1, SameImage
<1>3. /\ flag = 0 /\ ret = 0
      /\ \A j \in 1 .. i : file[j].kind \in {"data", "other"}
  BY <1>1 DEF IInv, Progress
<1>4. Body = 1 .. i
  <2>1. i \in Nat
    BY DEF IInv, TypeOK
  <2> QED BY <1>1, <1>3, <2>1 DEF Body
<1>5. /\ \A a \in Address : Writers(a) = Stored(a)
      /\ \A j \in Body : file[j].kind # "bad"
  BY <1>3, <1>4, BodyRead DEF IInv
<1>6. TypeOK'
  BY <1>1 DEF IInv, TypeOK
<1>7. MaxSoFar'
  BY <1>1 DEF IInv, MaxSoFar, Stored, Span
<1>8. Progress'
  BY <1>1, <1>2, <1>3, <1>5 DEF Progress, Ended, Accepted
<1> QED BY <1>2, <1>6, <1>7, <1>8 DEF IInv

(* So does opening the file, or failing to.                                *)
LEMMA OpenStep ==
  ASSUME IInv, Open
  PROVE  IInv'
<1>1. /\ pc = "open" /\ pc' \in {"loop", "returned"}
      /\ UNCHANGED <<file, i, out, max, flag, ret>>
  BY DEF Open
<1>2. ImageSoFar'
  BY <1>1, SameImage
<1>3. flag = 0 /\ ret = 0 /\ i = 0
  BY <1>1 DEF IInv, Progress
<1>4. TypeOK'
  BY <1>1 DEF IInv, TypeOK
<1>5. MaxSoFar'
  BY <1>1 DEF IInv, MaxSoFar, Stored, Span
<1>6. Progress'
  BY <1>1, <1>3 DEF Progress, Ended, Accepted
<1> QED BY <1>2, <1>4, <1>5, <1>6 DEF IInv

(* So does the return.                                                     *)
LEMMA ReturnStep ==
  ASSUME IInv, Return
  PROVE  IInv'
<1>1. /\ pc = "close" /\ pc' = "returned" /\ ret' = max' + 1
      /\ max' = IF flag = 1 THEN 0 ELSE max
      /\ UNCHANGED <<file, i, out, flag>>
  BY DEF Return
<1>2. /\ ImageSoFar'
      /\ \A a \in Address : Stored(a)' = Stored(a)
      /\ \A a \in Address : Writers(a)' = Writers(a)
      /\ Body' = Body
  BY <1>1, SameImage
<1>3. TypeOK'
  BY <1>1, MemSizeAssumption DEF IInv, TypeOK, Address
<1>4. MaxSoFar'
  <2>1. CASE flag = 0
    <3>1. max' = max
      BY <1>1, <2>1
    <3> QED BY <1>1, <2>1, <3>1 DEF IInv, MaxSoFar, Stored, Span
  <2>2. CASE flag # 0
    BY <1>1, <2>2 DEF MaxSoFar
  <2> QED BY <2>1, <2>2
<1>5. Progress'
  <2>1. /\ flag = 0 => /\ \A a \in Address : Writers(a) = Stored(a)
                       /\ \A j \in Body : file[j].kind # "bad"
        /\ flag = 1 => \E j \in Body : file[j].kind = "bad"
    BY <1>1 DEF IInv, Progress, Ended
  <2> QED BY <1>1, <1>2, <2>1 DEF Progress, Ended, Accepted
<1> QED BY <1>2, <1>3, <1>4, <1>5 DEF IInv

(* So does a record that leaves the array.                                 *)
LEMMA ReadPastEndStep ==
  ASSUME IInv, ReadPastEnd
  PROVE  IInv'
<1>1. Read("data") /\ pc' = "overrun" /\ UNCHANGED <<out, max, flag>>
  BY DEF ReadPastEnd
<1>2. i' \in 0 .. Len(file) /\ file' = file /\ ret' = ret /\ ret = 0
  BY <1>1, Reading
<1>3. TypeOK'
  BY <1>1, <1>2 DEF IInv, TypeOK
<1>4. ImageSoFar' /\ MaxSoFar'
  BY <1>1 DEF ImageSoFar, MaxSoFar
<1>5. Progress'
  BY <1>1, <1>2 DEF Progress, Ended, Accepted
<1> QED BY <1>3, <1>4, <1>5 DEF IInv

(* So does a step that changes nothing.                                    *)
LEMMA StutterStep ==
  ASSUME IInv, UNCHANGED vars
  PROVE  IInv'
<1>1. UNCHANGED <<file, pc, i, out, max, flag, ret>>
  BY DEF vars
<1>2. TypeOK'
  BY <1>1 DEF IInv, TypeOK
<1>3. ImageSoFar'
  BY <1>1 DEF IInv, ImageSoFar, HeldBy, Stored, Span, ByteAt
<1>4. MaxSoFar'
  BY <1>1 DEF IInv, MaxSoFar, Stored, Span
<1>5. Progress'
  BY <1>1 DEF IInv, Progress, Ended, Accepted, Writers, Stored, Body, Span
<1> QED BY <1>2, <1>3, <1>4, <1>5 DEF IInv

(* The invariant is inductive.                                             *)
LEMMA EveryStep == IInv /\ [Next]_vars => IInv'
  BY OpenStep, ReadDataStep, ReadPastEndStep, ReadOtherStep, ReadEofStep,
     ReadBadStep, FileEndsStep, ReturnStep, StutterStep
  DEF Next, Over

-----------------------------------------------------------------------------
(* The loader's state keeps its types; the result is at most 65536.        *)
THEOREM TypeCorrect == Spec => []TypeOK
<1>1. IInv => TypeOK
  BY DEF IInv
<1> QED BY InitHolds, EveryStep, <1>1, PTL DEF Spec

(* For files of any length: hex2bin's image of an accepted file is the     *)
(* last record's byte at every address, and zero elsewhere.                *)
THEOREM ImageIsFileHolds == Spec => []ImageIsFile
<1>1. IInv => ImageIsFile
  <2> SUFFICES ASSUME IInv, Accepted, NEW a \in Address
               PROVE  \/ Writers(a) = {} /\ out[a] = 0
                      \/ \E j \in Writers(a) :
                           /\ \A k \in Writers(a) : k <= j
                           /\ out[a] = ByteAt(file[j], a)
    BY DEF ImageIsFile
  <2>1. HeldBy(Stored(a), a)
    BY DEF IInv, ImageSoFar, Accepted
  <2>2. Writers(a) = Stored(a)
    BY DEF IInv, Progress, Ended, Accepted
  <2> QED BY <2>1, <2>2 DEF HeldBy
<1> QED BY InitHolds, EveryStep, <1>1, PTL DEF Spec

(* For files of any length: the length hex2bin returns for an accepted     *)
(* file ends just after the highest address its records cover.             *)
THEOREM LengthIsEndHolds == Spec => []LengthIsEnd
<1>1. IInv => LengthIsEnd
  <2> SUFFICES ASSUME IInv, Accepted PROVE LengthIsEnd
    BY DEF LengthIsEnd
  <2>1. ret = max + 1 /\ max \in Address
    BY DEF IInv, Progress, TypeOK
  <2>2. \A a \in Address : Writers(a) = Stored(a)
    BY DEF IInv, Progress, Ended, Accepted
  <2>3. /\ \A a \in Address : Stored(a) # {} => a <= max
        /\ max > 0 => Stored(max) # {}
    BY DEF IInv, MaxSoFar, Accepted
  <2>4. \A a \in Address : Writers(a) # {} => a < ret
    BY <2>1, <2>2, <2>3 DEF Address
  <2>5. ret > 1 => Writers(ret - 1) # {}
    <3>1. ret - 1 = max /\ (ret > 1 => max > 0)
      BY <2>1 DEF Address
    <3> QED BY <2>1, <2>2, <2>3, <3>1
  <2> QED BY <2>4, <2>5 DEF LengthIsEnd
<1> QED BY InitHolds, EveryStep, <1>1, PTL DEF Spec

(* For files of any length: hex2bin rejects a file exactly when a bad      *)
(* token stands before its end record.                                     *)
THEOREM RejectsBadFilesHolds == Spec => []RejectsBadFiles
<1>1. IInv => RejectsBadFiles
  BY DEF IInv, TypeOK, Progress, Ended, RejectsBadFiles
<1> QED BY InitHolds, EveryStep, <1>1, PTL DEF Spec
-----------------------------------------------------------------------------
(* Induction, for a set: the sets 0 .. x with x outside T have no smallest. *)
LEMMA SetInduction ==
  ASSUME NEW T, 0 \in T, \A n \in Nat : n \in T => n + 1 \in T
  PROVE  Nat \subseteq T
<1> DEFINE B == Nat \ T
           F == {0 .. x : x \in B}
<1> SUFFICES ASSUME B # {} PROVE FALSE
  OBVIOUS
<1>1. F \subseteq FiniteSubsetsOf(Nat)
  <2> SUFFICES ASSUME NEW x \in B PROVE 0 .. x \in FiniteSubsetsOf(Nat)
    OBVIOUS
  <2>1. IsFiniteSet(0 .. x) /\ 0 .. x \subseteq Nat
    BY FS_Interval
  <2> QED BY <2>1 DEF FiniteSubsetsOf
<1>2. PICK f \in F : \A g \in F : ~ (<<g, f>> \in StrictSubsetOrdering(Nat))
  <2>1. F # {}
    OBVIOUS
  <2>2. IsWellFoundedOn(StrictSubsetOrdering(Nat), FiniteSubsetsOf(Nat))
    BY FS_StrictSubsetOrderingWellFounded
  <2> HIDE DEF F
  <2> QED BY <1>1, <2>1, <2>2, WFMin
<1>3. PICK x \in B : f = 0 .. x
  OBVIOUS
<1>4. x - 1 \in B
  OBVIOUS
<1>5. <<0 .. x - 1, f>> \in StrictSubsetOrdering(Nat)
  <2>1. x \in f /\ x \notin 0 .. x - 1
    BY <1>3
  <2> QED BY <2>1, <1>3 DEF StrictSubsetOrdering
<1> QED BY <1>2, <1>4, <1>5

(* The sums of a sequence are defined: a function that adds up its first n *)
(* numbers exists for every n.                                             *)
LEMMA SumsDefined ==
  ASSUME NEW b, Len(b) \in Nat
  PROVE  Sums(b) =
           [n \in 0 .. Len(b) |-> IF n = 0 THEN 0 ELSE Sums(b)[n - 1] + b[n]]
<1> DEFINE UpTo(g, n) == IF n = 0 THEN 0 ELSE g[n - 1] + b[n]
           AreSums(g, l) == g = [n \in 0 .. l |-> UpTo(g, n)]
           T == {l \in Nat : \E g : AreSums(g, l)}
<1>1. 0 \in T
  <2> DEFINE g == [n \in 0 .. 0 |-> 0]
  <2>1. AreSums(g, 0)
    OBVIOUS
  <2> HIDE DEF AreSums, g
  <2> QED BY <2>1
<1>2. ASSUME NEW l \in Nat, l \in T PROVE l + 1 \in T
  <2>1. PICK g : AreSums(g, l)
    <3> HIDE DEF AreSums
    <3> QED BY <1>2
  <2> DEFINE h == [n \in 0 .. l + 1 |->
                     IF n = l + 1 THEN g[n - 1] + b[n] ELSE g[n]]
  <2>2. ASSUME NEW n \in 0 .. l + 1 PROVE h[n] = UpTo(h, n)
    <3>1. CASE n = l + 1
      <4>1. n - 1 \in 0 .. l + 1 /\ n - 1 # l + 1 /\ n # 0
        BY <3>1
      <4>2. h[n - 1] = g[n - 1]
        BY <4>1
      <4> QED BY <3>1, <4>1, <4>2
    <3>2. CASE n # l + 1
      <4>1. n \in 0 .. l
        BY <3>2
      <4>2. g[n] = UpTo(g, n)
        BY <2>1, <4>1
      <4>3. n # 0 => h[n - 1] = g[n - 1]
        BY <4>1
      <4> QED BY <3>2, <4>2, <4>3
    <3> QED BY <3>1, <3>2
  <2>3. AreSums(h, l + 1)
    BY <2>2
  <2> HIDE DEF AreSums, h
  <2> QED BY <2>3
<1>3. Len(b) \in T
  <2> HIDE DEF T
  <2> QED BY <1>1, <1>2, SetInduction
<1>4. PICK g : AreSums(g, Len(b))
  <2> HIDE DEF AreSums
  <2> QED BY <1>3
<1> QED BY <1>4 DEF Sums

(* The first sum is zero, and each other adds one number.                  *)
LEMMA SumsStep ==
  ASSUME NEW b \in Seq(Int)
  PROVE  /\ Sums(b)[0] = 0
         /\ \A n \in 1 .. Len(b) : Sums(b)[n] = Sums(b)[n - 1] + b[n]
<1>1. Len(b) \in Nat
  BY LenProperties
<1>2. ASSUME NEW n \in 0 .. Len(b)
      PROVE  Sums(b)[n] = IF n = 0 THEN 0 ELSE Sums(b)[n - 1] + b[n]
  BY <1>1, SumsDefined
<1> QED BY <1>1, <1>2

(* c begins like b, but for the place m.                                   *)
SameBut(b, c, m) == \A n \in 1 .. Len(b) : n # m => c[n] = b[n]

(* The sums of c are those of b, and delta more from m on.                 *)
SumsApart(b, c, m, delta) ==
  \A n \in 0 .. Len(b) :
    /\ Sums(b)[n] \in Int
    /\ Sums(c)[n] = Sums(b)[n] + IF n >= m THEN delta ELSE 0

(* Sums are numbers, and two sequences that differ at one place have sums  *)
(* that differ, from there on, by what the two numbers differ.             *)
LEMMA SumsDiffer ==
  ASSUME NEW b \in Seq(Int), NEW c \in Seq(Int), Len(b) <= Len(c),
         NEW m \in Nat \ {0}, NEW delta \in Int,
         m <= Len(b) => c[m] - b[m] = delta, SameBut(b, c, m)
  PROVE  SumsApart(b, c, m, delta)
<1> DEFINE P(n) == /\ Sums(b)[n] \in Int
                   /\ Sums(c)[n] = Sums(b)[n] + IF n >= m THEN delta ELSE 0
           T == {n \in Nat : n <= Len(b) => P(n)}
<1>1. Len(b) \in Nat /\ Len(c) \in Nat
  BY LenProperties
<1>2. 0 \in T
  BY SumsStep
<1>3. ASSUME NEW n \in Nat, n \in T PROVE n + 1 \in T
  <2> SUFFICES ASSUME n + 1 <= Len(b) PROVE P(n + 1)
    BY <1>3
  <2>1. P(n)
    BY <1>1, <1>3
  <2>2. n + 1 \in 1 .. Len(b) /\ n + 1 \in 1 .. Len(c) /\ (n + 1) - 1 = n
    BY <1>1
  <2>3. b[n + 1] \in Int /\ c[n + 1] \in Int
    BY <2>2, ElementOfSeq
  <2>4. /\ Sums(b)[n + 1] = Sums(b)[n] + b[n + 1]
        /\ Sums(c)[n + 1] = Sums(c)[n] + c[n + 1]
    BY <2>2, SumsStep
  <2>5. CASE n + 1 = m
    <3>1. c[n + 1] = b[n + 1] + delta /\ ~ (n >= m) /\ n + 1 >= m
      BY <2>2, <2>3, <2>5
    <3>2. Sums(c)[n] = Sums(b)[n]
      BY <2>1, <3>1
    <3>3. Sums(b)[n + 1] \in Int
      BY <2>1, <2>3, <2>4
    <3>4. Sums(c)[n + 1] = Sums(b)[n + 1] + delta
      BY <2>1, <2>3, <2>4, <3>1, <3>2
    <3> QED BY <3>1, <3>3, <3>4
  <2>6. CASE n + 1 # m
    <3>1. c[n + 1] = b[n + 1] /\ (n >= m <=> n + 1 >= m)
      BY <2>2, <2>3, <2>6 DEF SameBut
    <3> QED BY <2>1, <2>3, <2>4, <3>1
  <2> QED BY <2>5, <2>6
<1>4. Nat \subseteq T
  <2> HIDE DEF T
  <2> QED BY <1>2, <1>3, SetInduction
<1> QED BY <1>1, <1>4 DEF SumsApart

(* A sum is a number.                                                      *)
LEMMA SumIsNumber ==
  ASSUME NEW b \in Seq(Int)
  PROVE  Sum(b) \in Int
<1>1. Len(b) \in Nat /\ Len(b) \in 0 .. Len(b)
  BY LenProperties
<1>2. \A n \in 0 .. Len(b) : Sums(b)[n] \in Int
  <2>1. Len(b) + 1 \in Nat \ {0} /\ ~ (Len(b) + 1 <= Len(b)) /\ Len(b) <= Len(b)
    BY <1>1
  <2>2. SameBut(b, b, Len(b) + 1)
    BY DEF SameBut
  <2>3. SumsApart(b, b, Len(b) + 1, 0)
    BY <2>1, <2>2, SumsDiffer
  <2> QED BY <2>3 DEF SumsApart
<1> QED BY <1>1, <1>2 DEF Sum

(* A number behind a sequence is added to its sum.                         *)
LEMMA SumAppend ==
  ASSUME NEW b \in Seq(Int), NEW x \in Int
  PROVE  Sum(Append(b, x)) = Sum(b) + x
<1> DEFINE c == Append(b, x)
           l == Len(b)
<1>1. l \in Nat /\ c \in Seq(Int) /\ Len(c) = l + 1 /\ c[l + 1] = x
      /\ \A n \in 1 .. l : c[n] = b[n]
  BY LenProperties, AppendProperties
<1>2. Sums(c)[l] = Sums(b)[l]
  <2>1. PICK m \in Nat \ {0}, delta \in Int : m = l + 1 /\ delta = 0
    BY <1>1
  <2>2. ~ (m <= l) /\ ~ (l >= m) /\ l \in 0 .. l /\ l <= Len(c)
    BY <1>1, <2>1
  <2>3. Sums(c)[l] = Sums(b)[l] + IF l >= m THEN delta ELSE 0
    <3>1. SameBut(b, c, m)
      BY <1>1 DEF SameBut
    <3> HIDE DEF c
    <3>2. SumsApart(b, c, m, delta)
      BY <1>1, <2>2, <3>1, SumsDiffer
    <3> QED BY <2>2, <3>2 DEF SumsApart
  <2>4. Sums(b)[l] \in Int
    BY SumIsNumber DEF Sum
  <2> QED BY <2>2, <2>3, <2>4
<1>3. Sums(c)[l + 1] = Sums(c)[l] + x
  <2>1. l + 1 \in 1 .. Len(c) /\ (l + 1) - 1 = l
    BY <1>1
  <2> HIDE DEF c
  <2> QED BY <1>1, <2>1, SumsStep
<1> QED BY <1>1, <1>2, <1>3 DEF Sum

(* A sequence with one number changed has a sum that is as much larger.    *)
LEMMA SumChanged ==
  ASSUME NEW b \in Seq(Int), NEW c \in Seq(Int), Len(c) = Len(b),
         NEW m \in 1 .. Len(b), SameBut(b, c, m)
  PROVE  Sum(c) = Sum(b) + (c[m] - b[m])
<1>1. Len(b) \in Nat
  BY LenProperties
<1>2. b[m] \in Int /\ c[m] \in Int
  BY <1>1, ElementOfSeq
<1>3. PICK delta \in Int : delta = c[m] - b[m]
  BY <1>2
<1>4. m \in Nat \ {0} /\ Len(b) <= Len(c) /\ Len(b) \in 0 .. Len(b)
      /\ Len(b) >= m
  BY <1>1
<1>5. m <= Len(b) => c[m] - b[m] = delta
  BY <1>3
<1>6. SumsApart(b, c, m, delta)
  BY <1>4, <1>5, SumsDiffer
<1>7. Sums(c)[Len(b)] = Sums(b)[Len(b)] + delta
  BY <1>4, <1>6 DEF SumsApart
<1> QED BY <1>3, <1>7 DEF Sum
-----------------------------------------------------------------------------
(* Quotient and remainder.                                                 *)
LEMMA Division ==
  ASSUME NEW a \in Int, NEW m \in Nat \ {0}
  PROVE  \E q \in Int, r \in 0 .. m - 1 :
           q = a \div m /\ r = a % m /\ a = m * q + r
<1>1. PICK q \in Int, r \in 0 .. m - 1 : q = a \div m /\ r = a % m
  <2>1. a \div m \in Int /\ a % m \in 0 .. m - 1
    OBVIOUS
  <2> QED BY <2>1
<1>2. a = m * q + r
  BY <1>1
<1> QED BY <1>1, <1>2

(* There is no other remainder.                                            *)
LEMMA RemainderOf ==
  ASSUME NEW q \in Int, NEW m \in Nat \ {0}, NEW r \in 0 .. m - 1
  PROVE  (m * q + r) % m = r
OBVIOUS

(* The upper digit of two.                                                 *)
LEMMA UpperDigit ==
  ASSUME NEW m \in Nat \ {0}, NEW a \in 0 .. m * m - 1
  PROVE  a \div m \in 0 .. m - 1
OBVIOUS

(* Two digits make a number of two digits.                                 *)
LEMMA TwoDigits ==
  ASSUME NEW m \in Nat \ {0}, NEW a \in 0 .. m - 1, NEW b \in 0 .. m - 1
  PROVE  a * m + b \in 0 .. m * m - 1
OBVIOUS

(* The sizes of digits, bytes and addresses.                               *)
LEMMA Sizes ==
  /\ Radix \in Nat \ {0} /\ Radix > 1 /\ Modulus = Radix * Radix
  /\ Modulus \in Nat \ {0} /\ Modulus > 1
  /\ MemSize = Modulus * Modulus /\ Byte = 0 .. Modulus - 1
<1>1. Radix * Radix > 1
  BY RadixAssumption
<1> QED BY <1>1, RadixAssumption DEF Modulus

(* A sequence over a set is one over a larger set.                         *)
LEMMA WiderSeq ==
  ASSUME NEW S, NEW T, S \subseteq T, NEW s \in Seq(S)
  PROVE  s \in Seq(T)
<1>1. Len(s) \in Nat /\ s \in [1 .. Len(s) -> T]
  BY LenProperties
<1> QED BY <1>1, SeqDef

(* Bytes are numbers.                                                      *)
LEMMA BytesAreNumbers ==
  ASSUME NEW b \in Seq(Byte)
  PROVE  b \in Seq(Int) /\ Len(b) \in Nat
<1>1. Byte \subseteq Int
  BY Sizes
<1>2. b \in Seq(Int)
  BY <1>1, WiderSeq
<1> QED BY <1>2, LenProperties

(* The check sum makes bytes add up to zero.                               *)
LEMMA SummedIsZero ==
  ASSUME NEW b \in Seq(Byte)
  PROVE  /\ Summed(b) \in Seq(Byte) /\ Len(Summed(b)) = Len(b) + 1
         /\ \A n \in 1 .. Len(b) : Summed(b)[n] = b[n]
         /\ Sum(Summed(b)) % Modulus = 0
<1>1. b \in Seq(Int) /\ Sum(b) \in Int /\ -Sum(b) \in Int
  BY BytesAreNumbers, SumIsNumber
<1>2. PICK x \in Byte, q \in Int :
        x = (-Sum(b)) % Modulus /\ -Sum(b) = Modulus * q + x
  <2>1. PICK y \in Int : y = -Sum(b)
    BY <1>1
  <2>2. \E q \in Int, r \in 0 .. Modulus - 1 :
          q = y \div Modulus /\ r = y % Modulus /\ y = Modulus * q + r
    BY Sizes, Division
  <2> QED BY <2>1, <2>2, Sizes
<1>3. Summed(b) = Append(b, x)
  BY <1>2 DEF Summed
<1>4. Sum(Summed(b)) = Sum(b) + x
  BY <1>1, <1>3, SumAppend, Sizes
<1>5. Sum(Summed(b)) = Modulus * (-q) + 0
  <2>1. PICK y \in Int : y = Sum(b)
    BY <1>1
  <2>2. -y = Modulus * q + x /\ Modulus \in Int /\ x \in Int
    BY <1>2, <2>1, Sizes
  <2>3. y + x = Modulus * (-q) + 0
    BY <2>2
  <2> QED BY <1>4, <2>1, <2>3
<1>6. Sum(Summed(b)) % Modulus = 0
  <2>1. -q \in Int /\ 0 \in 0 .. Modulus - 1 /\ Modulus \in Nat \ {0}
    BY Sizes
  <2>2. (Modulus * (-q) + 0) % Modulus = 0
    BY <2>1, RemainderOf
  <2> QED BY <1>5, <2>2
<1> QED BY <1>3, <1>6, AppendProperties

(* The digits of bytes.                                                    *)
LEMMA SpeltDigits ==
  ASSUME NEW b \in Seq(Byte)
  PROVE  /\ Spelt(b) \in Seq(Visible) /\ Spelt(b)[1] = Colon
         /\ Len(Spelt(b)) = 2 * Len(b) + 1
         /\ Tail(Spelt(b)) \in Seq(Digit) /\ Len(Tail(Spelt(b))) = 2 * Len(b)
         /\ \A c \in 1 .. 2 * Len(b) :
              Tail(Spelt(b))[c] = IF c % 2 = 1 THEN b[(c + 1) \div 2] \div Radix
                                  ELSE b[c \div 2] % Radix
<1> DEFINE d(c) == IF c % 2 = 1 THEN b[(c + 1) \div 2] \div Radix
                   ELSE b[c \div 2] % Radix
           s == [c \in 1 .. 2 * Len(b) |-> d(c)]
<1>1. Len(b) \in Nat /\ 2 * Len(b) \in Nat
  BY BytesAreNumbers
<1>2. ASSUME NEW c \in 1 .. 2 * Len(b) PROVE d(c) \in Digit
  <2>1. CASE c % 2 = 1
    <3>1. (c + 1) \div 2 \in 1 .. Len(b)
      BY <1>1
    <3>2. b[(c + 1) \div 2] \in 0 .. Radix * Radix - 1
      BY <3>1, ElementOfSeq, Sizes
    <3> QED BY <2>1, <3>2, UpperDigit, Sizes DEF Digit
  <2>2. CASE c % 2 # 1
    <3>1. c \div 2 \in 1 .. Len(b)
      BY <1>1, <2>2
    <3>2. b[c \div 2] \in Int
      BY <3>1, ElementOfSeq, Sizes
    <3> QED BY <2>2, <3>2, Division, Sizes DEF Digit
  <2> QED BY <2>1, <2>2
<1>3. s \in Seq(Digit) /\ Len(s) = 2 * Len(b)
  <2> HIDE DEF d
  <2> QED BY <1>1, <1>2, SeqDef
<1>4. Digit \subseteq Visible /\ Colon \in Visible
  BY DEF Visible
<1>5. s \in Seq(Visible) /\ <<Colon>> \in Seq(Visible)
  BY <1>3, <1>4, SeqDef
<1>6. Spelt(b) = <<Colon>> \o s
  BY DEF Spelt
<1>7. Spelt(b) \in Seq(Visible) /\ Len(Spelt(b)) = 2 * Len(b) + 1
      /\ \A c \in 1 .. 2 * Len(b) + 1 :
           Spelt(b)[c] = IF c <= 1 THEN Colon ELSE s[c - 1]
  <2> HIDE DEF s
  <2> DEFINE h == <<Colon>>
  <2>1. Len(h) = 1 /\ h[1] = Colon /\ h \in Seq(Visible)
    BY <1>5
  <2> HIDE DEF h
  <2>2. /\ h \o s \in Seq(Visible) /\ Len(h \o s) = Len(h) + Len(s)
        /\ \A c \in 1 .. Len(h) + Len(s) :
             (h \o s)[c] = IF c <= Len(h) THEN h[c] ELSE s[c - Len(h)]
    BY <1>5, <2>1, ConcatProperties
  <2>3. Len(h) + Len(s) = 2 * Len(b) + 1 /\ Spelt(b) = h \o s
    BY <1>1, <1>3, <1>6, <2>1 DEF h
  <2>4. ASSUME NEW c \in 1 .. 2 * Len(b) + 1
        PROVE  Spelt(b)[c] = IF c <= 1 THEN Colon ELSE s[c - 1]
    <3>1. (h \o s)[c] = IF c <= 1 THEN h[c] ELSE s[c - 1]
      BY <2>1, <2>2, <2>3
    <3>2. c <= 1 => c = 1
      BY <1>1
    <3> QED BY <2>1, <2>3, <3>1, <3>2
  <2> QED BY <2>2, <2>3, <2>4
<1>8. Len(Tail(Spelt(b))) = 2 * Len(b) /\ Tail(Spelt(b)) \in Seq(Visible)
      /\ \A c \in 1 .. 2 * Len(b) : Tail(Spelt(b))[c] = Spelt(b)[c + 1]
  <2>1. Spelt(b) # <<>>
    BY <1>1, <1>7
  <2> QED BY <1>1, <1>7, <2>1, HeadTailProperties
<1>9. ASSUME NEW c \in 1 .. 2 * Len(b) PROVE Tail(Spelt(b))[c] = s[c]
  <2>1. c + 1 \in 1 .. 2 * Len(b) + 1 /\ ~ (c + 1 <= 1) /\ (c + 1) - 1 = c
    BY <1>1
  <2> HIDE DEF s
  <2> QED BY <1>7, <1>8, <2>1
<1>10. Tail(Spelt(b)) = s
  <2> HIDE DEF s
  <2> QED BY <1>3, <1>5, <1>8, <1>9, SeqEqual
<1>11. \A c \in 1 .. 2 * Len(b) : Tail(Spelt(b))[c] = d(c)
  BY <1>9
<1>12. Spelt(b)[1] = Colon
  <2>1. 1 \in 1 .. 2 * Len(b) + 1 /\ 1 <= 1
    BY <1>1
  <2> HIDE DEF s
  <2> QED BY <1>7, <2>1
<1> HIDE DEF s
<1> QED BY <1>3, <1>7, <1>8, <1>10, <1>11, <1>12

(* What hex2bin makes of an even number of digits.                         *)
LEMMA DatOfDigits ==
  ASSUME NEW p \in Seq(Digit), NEW n \in Nat, Len(p) = 2 * n, NEW k \in 0 .. n - 1
  PROVE  /\ dat(p, k) = p[2 * k + 1] * Radix + p[2 * k + 2]
         /\ p[2 * k + 1] \in Digit /\ p[2 * k + 2] \in Digit
         /\ dat(p, k) \in Byte
<1>1. 2 * k + 1 \in 1 .. Len(p) /\ 2 * k + 2 \in 1 .. Len(p)
      /\ 2 * k < Len(p) /\ 2 * k + 2 <= Len(p)
  OBVIOUS
<1>2. p[2 * k + 1] \in Digit /\ p[2 * k + 2] \in Digit
  BY <1>1, ElementOfSeq
<1>3. dat(p, k) = p[2 * k + 1] * Radix + p[2 * k + 2]
  BY <1>1 DEF dat, str2int8
<1> QED BY <1>2, <1>3, TwoDigits, Sizes DEF Digit

(* hex2bin reads the bytes that were spelt.                                *)
LEMMA DatOfSpelt ==
  ASSUME NEW b \in Seq(Byte), NEW k \in 0 .. Len(b) - 1
  PROVE  dat(Tail(Spelt(b)), k) = b[k + 1]
<1> DEFINE p == Tail(Spelt(b))
<1>1. Len(b) \in Nat /\ k + 1 \in 1 .. Len(b)
  BY BytesAreNumbers
<1>2. p \in Seq(Digit) /\ Len(p) = 2 * Len(b)
  BY SpeltDigits
<1>3. dat(p, k) = p[2 * k + 1] * Radix + p[2 * k + 2]
  <2> HIDE DEF p
  <2> QED BY <1>1, <1>2, DatOfDigits
<1>4. p[2 * k + 1] = b[k + 1] \div Radix
  <2>1. 2 * k + 1 \in 1 .. 2 * Len(b) /\ (2 * k + 1) % 2 = 1
        /\ ((2 * k + 1) + 1) \div 2 = k + 1
    BY <1>1
  <2> QED BY <2>1, SpeltDigits
<1>5. p[2 * k + 2] = b[k + 1] % Radix
  <2>1. 2 * k + 2 \in 1 .. 2 * Len(b) /\ (2 * k + 2) % 2 # 1
        /\ (2 * k + 2) \div 2 = k + 1
    BY <1>1
  <2> QED BY <2>1, SpeltDigits
<1>6. PICK x \in Int : x = b[k + 1]
  BY <1>1, ElementOfSeq, Sizes
<1>7. PICK q \in Int, r \in 0 .. Radix - 1 :
        q = x \div Radix /\ r = x % Radix /\ x = Radix * q + r
  BY Division, Sizes
<1>8. q * Radix + r = x
  BY <1>7, Sizes
<1> QED BY <1>3, <1>4, <1>5, <1>6, <1>7, <1>8
-----------------------------------------------------------------------------
(* A record that an assembler can write.                                   *)
Writable(r) ==
  r \in Record /\ Len(r.data) < Modulus /\ r.addr + Len(r.data) <= MemSize

(* Its bytes but the check sum, and with it.                               *)
Octets(r) ==
  <<Len(r.data), r.addr \div Modulus, r.addr % Modulus, r.type>> \o r.data

Whole(r) == Summed(Octets(r))

(* Bytes as hex2bin sums them up.                                          *)
BytesOf(p) == [k \in 1 .. Len(p) \div 2 |-> dat(p, k - 1)]

(* The bytes of a record.                                                  *)
LEMMA OctetsOf ==
  ASSUME NEW r, Writable(r)
  PROVE  /\ Octets(r) \in Seq(Byte) /\ Len(r.data) \in Nat
         /\ Len(Octets(r)) = Len(r.data) + 4
         /\ Octets(r)[1] = Len(r.data)
         /\ Octets(r)[2] = r.addr \div Modulus
         /\ Octets(r)[3] = r.addr % Modulus
         /\ Octets(r)[4] = r.type
         /\ \A k \in 1 .. Len(r.data) : Octets(r)[k + 4] = r.data[k]
<1> DEFINE h == <<Len(r.data), r.addr \div Modulus, r.addr % Modulus, r.type>>
<1>1. r.data \in Seq(Byte) /\ r.type \in Byte /\ r.addr \in 0 .. Modulus * Modulus - 1
  BY Sizes DEF Writable, Record
<1>2. Len(r.data) \in Nat /\ Len(r.data) \in Byte
  <2>1. Len(r.data) \in Nat
    BY <1>1, LenProperties
  <2> QED BY <2>1, Sizes DEF Writable
<1>3. r.addr \div Modulus \in Byte
  BY <1>1, Sizes, UpperDigit
<1>4. r.addr % Modulus \in Byte
  BY <1>1, Sizes
<1>5. h \in Seq(Byte) /\ Len(h) = 4 /\ h[1] = Len(r.data)
      /\ h[2] = r.addr \div Modulus /\ h[3] = r.addr % Modulus /\ h[4] = r.type
  BY <1>1, <1>2, <1>3, <1>4
<1>6. Octets(r) = h \o r.data
  BY DEF Octets
<1> HIDE DEF h
<1>7. Octets(r) \in Seq(Byte) /\ Len(Octets(r)) = Len(r.data) + 4
      /\ \A n \in 1 .. Len(r.data) + 4 :
           Octets(r)[n] = IF n <= 4 THEN h[n] ELSE r.data[n - 4]
  <2>1. /\ h \o r.data \in Seq(Byte)
        /\ Len(h \o r.data) = Len(h) + Len(r.data)
        /\ \A n \in 1 .. Len(h) + Len(r.data) :
             (h \o r.data)[n] = IF n <= Len(h) THEN h[n] ELSE r.data[n - Len(h)]
    BY <1>1, <1>5, ConcatProperties
  <2>2. Len(h) + Len(r.data) = Len(r.data) + 4
    BY <1>2, <1>5
  <2> QED BY <1>5, <1>6, <2>1, <2>2
<1>8. ASSUME NEW k \in 1 .. Len(r.data) PROVE Octets(r)[k + 4] = r.data[k]
  <2>1. k + 4 \in 1 .. Len(r.data) + 4 /\ ~ (k + 4 <= 4) /\ (k + 4) - 4 = k
    BY <1>2
  <2> QED BY <1>7, <2>1
<1>9. \A n \in 1 .. 4 : Octets(r)[n] = h[n]
  BY <1>2, <1>7
<1> QED BY <1>2, <1>5, <1>7, <1>8, <1>9

(* The bytes of a record as it stands in the file.                         *)
LEMMA WholeOf ==
  ASSUME NEW r, Writable(r)
  PROVE  /\ Whole(r) \in Seq(Byte) /\ Len(Whole(r)) = Len(r.data) + 5
         /\ Len(r.data) \in Nat
         /\ Sum(Whole(r)) % Modulus = 0
         /\ Whole(r)[1] = Len(r.data)
         /\ Whole(r)[2] = r.addr \div Modulus
         /\ Whole(r)[3] = r.addr % Modulus
         /\ Whole(r)[4] = r.type
         /\ \A k \in 1 .. Len(r.data) : Whole(r)[k + 4] = r.data[k]
         /\ Line(r) = Spelt(Whole(r))
<1>1. /\ Octets(r) \in Seq(Byte) /\ Len(r.data) \in Nat
      /\ Len(Octets(r)) = Len(r.data) + 4
  BY OctetsOf
<1>2. /\ Whole(r) \in Seq(Byte) /\ Len(Whole(r)) = Len(Octets(r)) + 1
      /\ \A n \in 1 .. Len(Octets(r)) : Whole(r)[n] = Octets(r)[n]
      /\ Sum(Whole(r)) % Modulus = 0
  BY <1>1, SummedIsZero DEF Whole
<1>3. \A n \in 1 .. 4 : n \in 1 .. Len(Octets(r))
  BY <1>1
<1>4. ASSUME NEW k \in 1 .. Len(r.data) PROVE Whole(r)[k + 4] = r.data[k]
  <2>1. k + 4 \in 1 .. Len(Octets(r))
    BY <1>1
  <2> QED BY <1>2, <2>1, OctetsOf
<1>5. Line(r) = Spelt(Whole(r))
  BY DEF Line, Whole, Octets
<1>6. /\ Whole(r)[1] = Len(r.data) /\ Whole(r)[2] = r.addr \div Modulus
      /\ Whole(r)[3] = r.addr % Modulus /\ Whole(r)[4] = r.type
  BY <1>2, <1>3, OctetsOf
<1> QED BY <1>1, <1>2, <1>4, <1>5, <1>6

(* hex2bin sums up the bytes that were spelt.                              *)
LEMMA BytesOfSpelt ==
  ASSUME NEW b \in Seq(Byte)
  PROVE  BytesOf(Tail(Spelt(b))) = b
<1> DEFINE p == Tail(Spelt(b))
<1>1. Len(b) \in Nat /\ Len(p) \div 2 = Len(b)
  <2>1. PICK n \in Nat : n = Len(b)
    BY BytesAreNumbers
  <2>2. Len(p) = 2 * n
    BY <2>1, SpeltDigits
  <2>3. (2 * n) \div 2 = n
    OBVIOUS
  <2> QED BY <2>1, <2>2, <2>3
<1>2. ASSUME NEW k \in 1 .. Len(b) PROVE dat(p, k - 1) = b[k]
  <2>1. k - 1 \in 0 .. Len(b) - 1 /\ (k - 1) + 1 = k
    BY <1>1
  <2> QED BY <2>1, DatOfSpelt
<1>3. b = [k \in 1 .. Len(b) |-> b[k]]
  BY LenProperties
<1> HIDE DEF p
<1>4. BytesOf(p) = [k \in 1 .. Len(b) |-> b[k]]
  BY <1>1, <1>2 DEF BytesOf
<1> QED BY <1>3, <1>4 DEF p

(* A string of visible characters ends where it ends.                      *)
LEMMA Uncut ==
  ASSUME NEW t \in Seq(Visible), NEW x \in {Nul, Sub}
  PROVE  CutAt(t, x) = t
<1>1. \A c \in DOMAIN t : t[c] \in Visible
  BY LenProperties, ElementOfSeq
<1>2. x \notin Visible
  BY RadixAssumption DEF Visible, Digit, Colon, Blot, Nul, Sub
<1>3. {c \in DOMAIN t : t[c] = x} = {}
  BY <1>1, <1>2
<1> QED BY <1>3 DEF CutAt

(* So does what stands behind its first character.                         *)
LEMMA UncutTail ==
  ASSUME NEW t \in Seq(Visible), t # <<>>
  PROVE  CutAt(Tail(t), Nul) = Tail(t)
BY HeadTailProperties, Uncut

(* A written record is what hex2bin takes it for.                          *)
LEMMA LineIsRead ==
  ASSUME NEW r, Writable(r)
  PROVE  LET t == Parsed(Line(r))
         IN  /\ t.kind = CASE r.type = 0 -> "data" [] r.type = 1 -> "eof"
                           [] OTHER -> "other"
             /\ t.addr = r.addr /\ t.cnt = Len(r.data)
             /\ \A k \in 1 .. Len(r.data) :
                  k \in DOMAIN t.tail /\ t.tail[k] = r.data[k]
<1> DEFINE b == Whole(r)
           l == Line(r)
           p == Tail(l)
           bytes == [k \in 1 .. (Len(p) + 1) \div 2 |-> dat(p, k - 1)]
<1>1. /\ b \in Seq(Byte) /\ Len(b) = Len(r.data) + 5 /\ Len(r.data) \in Nat
      /\ l = Spelt(b)
  BY WholeOf
<1>2. l[1] = Colon /\ p \in Seq(Digit) /\ Len(p) = 2 * Len(b)
  <2> HIDE DEF b
  <2> QED BY <1>1, SpeltDigits
<1>3. check_sum(p) = 0
  <2>1. check_sum(p) = Sum(BytesOf(p)) % Modulus
    BY DEF check_sum, BytesOf
  <2> QED BY <1>1, <2>1, BytesOfSpelt, WholeOf
<1>12. CutAt(p, Nul) = p
  <2>1. l \in Seq(Visible) /\ l # <<>>
    <3> HIDE DEF b
    <3>1. l \in Seq(Visible) /\ Len(l) = 2 * Len(b) + 1
      BY <1>1, SpeltDigits
    <3> QED BY <1>1, <3>1
  <2> QED BY <2>1, UncutTail
<1>4. ~ Refused(l)
  BY <1>2, <1>3, <1>12 DEF Refused
<1>5. \A k \in 0 .. Len(b) - 1 : dat(p, k) = b[k + 1]
  BY <1>1, DatOfSpelt
<1>6. dat(p, 0) = Len(r.data) /\ dat(p, 3) = r.type
      /\ dat(p, 1) = r.addr \div Modulus /\ dat(p, 2) = r.addr % Modulus
  <2>1. 0 \in 0 .. Len(b) - 1 /\ 1 \in 0 .. Len(b) - 1
        /\ 2 \in 0 .. Len(b) - 1 /\ 3 \in 0 .. Len(b) - 1
    BY <1>1
  <2> HIDE DEF p, b
  <2>2. dat(p, 0) = b[1] /\ dat(p, 1) = b[2] /\ dat(p, 2) = b[3] /\ dat(p, 3) = b[4]
    BY <1>5, <2>1
  <2> QED BY <2>2, WholeOf DEF b
<1>7. dat(p, 1) * Modulus + dat(p, 2) = r.addr
  <2>1. r.addr \in Int
    BY Sizes DEF Writable, Record
  <2>2. PICK q \in Int, x \in 0 .. Modulus - 1 :
          q = r.addr \div Modulus /\ x = r.addr % Modulus /\ r.addr = Modulus * q + x
    BY <2>1, Sizes, Division
  <2>3. q * Modulus + x = Modulus * q + x
    BY <2>2, Sizes
  <2> QED BY <1>6, <2>2, <2>3
<1>8. /\ Len(bytes) = Len(b) /\ Len(b) \in Nat
      /\ \A k \in 1 .. Len(b) : bytes[k] = b[k]
  <2>1. (Len(p) + 1) \div 2 = Len(b) /\ Len(b) \in Nat
    BY <1>1, <1>2
  <2>2. ASSUME NEW k \in 1 .. Len(b) PROVE dat(p, k - 1) = b[k]
    <3>1. k - 1 \in 0 .. Len(b) - 1 /\ (k - 1) + 1 = k
      BY <2>1
    <3> HIDE DEF p, b
    <3> QED BY <1>5, <3>1
  <2> HIDE DEF p, b
  <2> QED BY <2>1, <2>2
<1>9. /\ DOMAIN SubSeq(bytes, 5, Len(bytes)) = 1 .. Len(r.data) + 1
      /\ \A k \in 1 .. Len(r.data) + 1 :
           SubSeq(bytes, 5, Len(bytes))[k] = bytes[k + 4]
  <2> HIDE DEF bytes, b
  <2>1. Len(bytes) = Len(r.data) + 5
    BY <1>1, <1>8
  <2>2. \A k \in 5 .. Len(bytes) : bytes[k] \in Byte
    BY <1>1, <1>8, ElementOfSeq
  <2> DEFINE s == SubSeq(bytes, 5, Len(bytes))
  <2>3. s \in Seq(Byte) /\ Len(s) = Len(r.data) + 1
        /\ \A k \in 1 .. Len(r.data) + 1 : s[k] = bytes[5 + k - 1]
    BY <1>1, <2>1, <2>2, SubSeqProperties
  <2>4. DOMAIN s = 1 .. Len(s)
    <3> HIDE DEF s
    <3> QED BY <2>3, LenProperties
  <2>5. \A k \in 1 .. Len(r.data) + 1 : 5 + k - 1 = k + 4
    BY <1>1
  <2> QED BY <2>3, <2>4, <2>5
<1>10. ASSUME NEW k \in 1 .. Len(r.data)
       PROVE  /\ k \in DOMAIN SubSeq(bytes, 5, Len(bytes))
              /\ SubSeq(bytes, 5, Len(bytes))[k] = r.data[k]
  <2>1. k \in 1 .. Len(r.data) + 1 /\ k + 4 \in 1 .. Len(b)
    BY <1>1
  <2>2. b[k + 4] = r.data[k]
    BY WholeOf
  <2> HIDE DEF bytes, b
  <2> QED BY <1>8, <1>9, <2>1, <2>2
<1>11. Parsed(l) =
         [kind |-> CASE dat(p, 3) = 0 -> "data" [] dat(p, 3) = 1 -> "eof"
                     [] OTHER -> "other",
          addr |-> dat(p, 1) * Modulus + dat(p, 2), cnt |-> dat(p, 0),
          tail |-> SubSeq(bytes, 5, Len(bytes))]
  BY <1>4, <1>12 DEF Parsed
<1> HIDE DEF bytes, b, p, l
<1> QED BY <1>6, <1>7, <1>10, <1>11 DEF l
-----------------------------------------------------------------------------
(* Two digits are told by their number.                                    *)
LEMMA DigitsOf ==
  ASSUME NEW m \in Nat \ {0}, NEW a \in 0 .. m - 1, NEW b \in 0 .. m - 1,
         NEW c \in 0 .. m - 1, NEW d \in 0 .. m - 1, a * m + b = c * m + d
  PROVE  a = c /\ b = d
<1>1. m * a + b = m * c + d
  OBVIOUS
<1>2. b = d
  <2>1. (m * a + b) % m = b /\ (m * c + d) % m = d
    BY RemainderOf
  <2> QED BY <1>1, <2>1
<1>3. m * (a - c) = 0
  BY <1>1, <1>2
<1>4. a = c
  BY <1>3
<1> QED BY <1>2, <1>4

(* Two numbers of less than a byte that differ by a multiple of it.        *)
LEMMA SameByte ==
  ASSUME NEW m \in Nat \ {0}, NEW x \in 0 .. m - 1, NEW y \in 0 .. m - 1,
         NEW s \in Int, s % m = 0, (s + (y - x)) % m = 0
  PROVE  x = y
<1>1. PICK q \in Int : s = m * q
  BY Division
<1>2. PICK k \in Int : s + (y - x) = m * k
  <2>1. PICK z \in Int : z = s + (y - x)
    OBVIOUS
  <2>2. \E k \in Int, r \in 0 .. m - 1 : k = z \div m /\ r = z % m /\ z = m * k + r
    BY Division
  <2> QED BY <2>1, <2>2
<1>3. y = m * (k - q) + x
  BY <1>1, <1>2
<1>4. (m * (k - q) + x) % m = x /\ (m * 0 + y) % m = y
  BY RemainderOf
<1>5. m * 0 + y = y
  OBVIOUS
<1> QED BY <1>3, <1>4, <1>5

(* Bytes that add up to zero, and still do when one is another, are the    *)
(* same.                                                                   *)
LEMMA OneByteCounts ==
  ASSUME NEW b \in Seq(Byte), NEW c \in Seq(Byte), Len(c) = Len(b),
         NEW m \in 1 .. Len(b), \A n \in 1 .. Len(b) : n # m => c[n] = b[n],
         Sum(b) % Modulus = 0, Sum(c) % Modulus = 0
  PROVE  c[m] = b[m]
<1>1. b \in Seq(Int) /\ c \in Seq(Int) /\ Sum(b) \in Int
  BY BytesAreNumbers, SumIsNumber
<1>2. Sum(c) = Sum(b) + (c[m] - b[m])
  <2>1. SameBut(b, c, m)
    BY DEF SameBut
  <2> QED BY <1>1, <2>1, SumChanged
<1>3. b[m] \in 0 .. Modulus - 1 /\ c[m] \in 0 .. Modulus - 1
  BY ElementOfSeq, Sizes
<1> QED BY <1>1, <1>2, <1>3, SameByte, Sizes

(* The bytes of an even number of digits.                                  *)
LEMMA BytesOfDigits ==
  ASSUME NEW p \in Seq(Digit), NEW n \in Nat, Len(p) = 2 * n
  PROVE  /\ BytesOf(p) \in Seq(Byte) /\ Len(BytesOf(p)) = n
         /\ \A k \in 1 .. n : BytesOf(p)[k] = dat(p, k - 1)
         /\ check_sum(p) = Sum(BytesOf(p)) % Modulus
<1>1. Len(p) \div 2 = n
  OBVIOUS
<1>2. ASSUME NEW k \in 1 .. n PROVE dat(p, k - 1) \in Byte
  <2>1. k - 1 \in 0 .. n - 1
    OBVIOUS
  <2> QED BY <2>1, DatOfDigits
<1>3. BytesOf(p) = [k \in 1 .. n |-> dat(p, k - 1)]
  BY <1>1 DEF BytesOf
<1>4. BytesOf(p) \in [1 .. n -> Byte]
  BY <1>2, <1>3
<1>5. BytesOf(p) \in Seq(Byte) /\ Len(BytesOf(p)) = n
  BY <1>4, SeqDef
<1> QED BY <1>3, <1>5 DEF check_sum, BytesOf

(* Two strings of digits that both sum up to zero do not differ in one.    *)
LEMMA OneDigitCounts ==
  ASSUME NEW p \in Seq(Digit), NEW q \in Seq(Digit), NEW n \in Nat,
         Len(p) = 2 * n, Len(q) = 2 * n, NEW e \in 1 .. 2 * n,
         \A x \in 1 .. 2 * n : x # e => q[x] = p[x],
         check_sum(p) = 0, check_sum(q) = 0
  PROVE  q[e] = p[e]
<1> DEFINE m == (e + 1) \div 2
           b == BytesOf(p)
           c == BytesOf(q)
<1>1. m \in 1 .. n /\ (e = 2 * (m - 1) + 1 \/ e = 2 * (m - 1) + 2)
  OBVIOUS
<1>2. ASSUME NEW k \in 0 .. n - 1
      PROVE  /\ dat(p, k) = p[2 * k + 1] * Radix + p[2 * k + 2]
             /\ dat(q, k) = q[2 * k + 1] * Radix + q[2 * k + 2]
             /\ p[2 * k + 1] \in 0 .. Radix - 1 /\ p[2 * k + 2] \in 0 .. Radix - 1
             /\ q[2 * k + 1] \in 0 .. Radix - 1 /\ q[2 * k + 2] \in 0 .. Radix - 1
  BY DatOfDigits DEF Digit
<1>3. /\ b \in Seq(Byte) /\ c \in Seq(Byte) /\ Len(b) = n /\ Len(c) = n
      /\ \A k \in 1 .. n : b[k] = dat(p, k - 1) /\ c[k] = dat(q, k - 1)
      /\ Sum(b) % Modulus = 0 /\ Sum(c) % Modulus = 0
  BY BytesOfDigits
<1> HIDE DEF m, b, c
<1>4. ASSUME NEW k \in 1 .. n, k # m PROVE c[k] = b[k]
  <2>1. k - 1 \in 0 .. n - 1 /\ 2 * (k - 1) + 1 \in 1 .. 2 * n
        /\ 2 * (k - 1) + 2 \in 1 .. 2 * n
    OBVIOUS
  <2>2. 2 * (k - 1) + 1 # e /\ 2 * (k - 1) + 2 # e
    BY <1>1, <1>4
  <2>3. /\ q[2 * (k - 1) + 1] = p[2 * (k - 1) + 1]
        /\ q[2 * (k - 1) + 2] = p[2 * (k - 1) + 2]
    BY <2>1, <2>2
  <2>4. dat(p, k - 1) = dat(q, k - 1)
    BY <1>2, <2>1, <2>3
  <2> QED BY <1>3, <2>4
<1>5. c[m] = b[m]
  <2>1. b \in Seq(Byte) /\ c \in Seq(Byte) /\ Len(c) = Len(b) /\ m \in 1 .. Len(b)
    BY <1>1, <1>3
  <2>2. \A k \in 1 .. Len(b) : k # m => c[k] = b[k]
    BY <1>3, <1>4
  <2>3. Sum(b) % Modulus = 0 /\ Sum(c) % Modulus = 0
    BY <1>3
  <2> QED BY <2>1, <2>2, <2>3, OneByteCounts
<1>6. m - 1 \in 0 .. n - 1 /\ dat(p, m - 1) = dat(q, m - 1)
  BY <1>1, <1>3, <1>5
<1>7. /\ q[2 * (m - 1) + 1] = p[2 * (m - 1) + 1]
      /\ q[2 * (m - 1) + 2] = p[2 * (m - 1) + 2]
  <2> PICK k \in 0 .. n - 1 : k = m - 1
    BY <1>6
  <2>1. dat(p, k) = dat(q, k)
    BY <1>6
  <2>2. p[2 * k + 1] * Radix + p[2 * k + 2] = q[2 * k + 1] * Radix + q[2 * k + 2]
    BY <1>2, <2>1
  <2>3. p[2 * k + 1] = q[2 * k + 1] /\ p[2 * k + 2] = q[2 * k + 2]
    <3>1. PICK a \in 0 .. Radix - 1, d \in 0 .. Radix - 1,
               f \in 0 .. Radix - 1, g \in 0 .. Radix - 1 :
            /\ a = p[2 * k + 1] /\ d = p[2 * k + 2]
            /\ f = q[2 * k + 1] /\ g = q[2 * k + 2]
      BY <1>2
    <3>2. a * Radix + d = f * Radix + g
      BY <2>2, <3>1
    <3>3. a = f /\ d = g
      BY <3>2, DigitsOf, Sizes
    <3> QED BY <3>1, <3>3
  <2> QED BY <2>3
<1> QED BY <1>1, <1>7

(* A record with one visible character changed is no record.               *)
LEMMA ChangedIsBad ==
  ASSUME NEW r, Writable(r), NEW t \in Changed(Line(r), Visible)
  PROVE  Parsed(t).kind = "bad"
<1> DEFINE s == Line(r)
           n == Len(Whole(r))
<1>1. /\ Whole(r) \in Seq(Byte) /\ n \in Nat /\ s = Spelt(Whole(r))
  BY WholeOf
<1>2. /\ s \in Seq(Visible) /\ s[1] = Colon /\ Len(s) = 2 * n + 1
      /\ Tail(s) \in Seq(Digit) /\ Len(Tail(s)) = 2 * n
  <2> HIDE DEF s
  <2> QED BY <1>1, SpeltDigits
<1>3. check_sum(Tail(s)) = 0
  <2>1. check_sum(Tail(s)) = Sum(BytesOf(Tail(s))) % Modulus
    BY DEF check_sum, BytesOf
  <2> QED BY <1>1, <2>1, BytesOfSpelt, WholeOf
<1>4. PICK c \in DOMAIN s, x \in Visible : t = [s EXCEPT ![c] = x] /\ t # s
  BY DEF Changed
<1> HIDE DEF n, s
<1>5. c \in 1 .. 2 * n + 1 /\ DOMAIN s = 1 .. 2 * n + 1
  BY <1>2, <1>4, LenProperties
<1>6. /\ t \in Seq(Visible) /\ Len(t) = 2 * n + 1
      /\ \A k \in 1 .. 2 * n + 1 : t[k] = IF k = c THEN x ELSE s[k]
  <2>1. c \in 1 .. Len(s)
    BY <1>2, <1>5
  <2> QED BY <1>2, <1>4, <2>1, ExceptSeq
<1>7. x # s[c]
  <2> SUFFICES ASSUME x = s[c] PROVE FALSE
    OBVIOUS
  <2>1. \A k \in 1 .. Len(t) : t[k] = s[k]
    BY <1>6
  <2>2. t = s
    BY <1>2, <1>6, <2>1, SeqEqual
  <2> QED BY <1>4, <2>2
<1>8. Refused(t)
  <2> SUFFICES ASSUME t[1] = Colon, Tail(t) \in Seq(Digit), check_sum(Tail(t)) = 0
               PROVE  FALSE
    <3>1. t # <<>>
      BY <1>1, <1>6
    <3>2. CutAt(Tail(t), Nul) = Tail(t)
      BY <1>6, <3>1, UncutTail
    <3> QED BY <3>2 DEF Refused
  <2>1. c # 1
    <3>1. 1 \in 1 .. 2 * n + 1
      BY <1>1
    <3> QED BY <1>2, <1>6, <1>7, <3>1
  <2>2. /\ Len(Tail(t)) = 2 * n
        /\ \A k \in 1 .. 2 * n : Tail(t)[k] = t[k + 1] /\ Tail(s)[k] = s[k + 1]
    <3>1. t # <<>> /\ s # <<>>
      BY <1>1, <1>2, <1>6
    <3> QED BY <1>1, <1>2, <1>6, <3>1, HeadTailProperties
  <2>3. c - 1 \in 1 .. 2 * n /\ (c - 1) + 1 = c
    BY <1>1, <1>5, <2>1
  <2>4. ASSUME NEW k \in 1 .. 2 * n, k # c - 1 PROVE Tail(t)[k] = Tail(s)[k]
    <3>1. k + 1 \in 1 .. 2 * n + 1 /\ k + 1 # c
      BY <1>1, <1>5, <2>4
    <3>2. t[k + 1] = s[k + 1]
      BY <1>6, <3>1
    <3> QED BY <2>2, <3>2
  <2>5. Tail(t)[c - 1] = Tail(s)[c - 1]
    BY <1>1, <1>2, <1>3, <2>2, <2>3, <2>4, OneDigitCounts
  <2>6. Tail(t)[c - 1] = x /\ Tail(s)[c - 1] = s[c]
    BY <1>5, <1>6, <2>2, <2>3
  <2> QED BY <1>7, <2>5, <2>6
<1> QED BY <1>8 DEF Parsed
-----------------------------------------------------------------------------
(* Where the tokens come from, which no step changes.                      *)
Origin ==
  /\ file = [t \in DOMAIN AsRead(text) |-> Parsed(AsRead(text)[t])]
  /\ damage # "found" => written \in Written
  /\ damage = "none" => text = Lines(written)
  /\ damage = "visible" =>
       \E r \in DOMAIN written : \E t \in Changed(Line(written[r]), Visible) :
         text = [Lines(written) EXCEPT ![r] = t]

(* A bad token ends the reading, and the result of a file with one is 1;   *)
(* nothing was read of a file whose result is 0.                           *)
BadIsLast ==
  /\ pc \in {"open", "loop", "overrun"} \/ flag = 0 =>
       \A j \in 1 .. i : file[j].kind # "bad"
  /\ pc = "returned" /\ flag = 1 => ret = 1
  /\ pc = "returned" /\ ret = 0 => i = 0 /\ flag = 0

TextIInv == IInv /\ Origin /\ BadIsLast

(* The loader reads characters as it reads tokens.                         *)
LEMMA TextReadsTokens ==
  /\ TextInit => Init
  /\ [TextNext]_textVars => [Next]_vars
BY DEF TextInit, TextNext, textVars, vars

(* The text is of the assembler's making, or was.                          *)
LEMMA TextBegins == TextInit => TextIInv
<1> SUFFICES ASSUME TextInit PROVE TextIInv
  OBVIOUS
<1>1. Init /\ IInv
  BY TextReadsTokens, InitHolds
<1>2. Origin
  BY DEF TextInit, Origin
<1>3. BadIsLast
  BY <1>1 DEF Init, BadIsLast
<1> QED BY <1>1, <1>2, <1>3 DEF TextIInv

(* A token that is not bad leaves none behind that is.                     *)
LEMMA NoneBad ==
  ASSUME IInv, BadIsLast, NEW kind \in {"data", "other", "eof"}, Read(kind)
  PROVE  (\A j \in 1 .. i : file[j].kind # "bad")'
<1>1. /\ pc = "loop" /\ file[i + 1].kind = kind /\ i' = i + 1 /\ file' = file
      /\ i \in Nat
  BY DEF Read, IInv, TypeOK
<1>2. \A j \in 1 .. i : file[j].kind # "bad"
  BY <1>1 DEF BadIsLast
<1>3. ASSUME NEW j \in 1 .. i + 1 PROVE file[j].kind # "bad"
  <2>1. j \in 1 .. i \/ j = i + 1
    BY <1>1
  <2> QED BY <1>1, <1>2, <2>1
<1> QED BY <1>1, <1>3

(* Every step keeps a bad token the last.                                  *)
LEMMA BadStaysLast ==
  ASSUME IInv, BadIsLast, [Next]_vars
  PROVE  BadIsLast'
<1>1. CASE Open
  <2>1. pc = "open" /\ flag = 0 /\ i = 0 /\ UNCHANGED <<file, i, flag, ret>>
    BY <1>1 DEF Open, IInv, Progress
  <2> QED BY <2>1 DEF BadIsLast
<1>2. CASE ReadData
  <2>1. Read("data") /\ pc = "loop" /\ pc' = "loop"
    BY <1>2 DEF ReadData, Read
  <2> QED BY <2>1, NoneBad DEF BadIsLast
<1>3. CASE ReadPastEnd
  <2>1. Read("data") /\ pc' = "overrun"
    BY <1>3 DEF ReadPastEnd
  <2> QED BY <2>1, NoneBad DEF BadIsLast
<1>4. CASE ReadOther
  <2>1. Read("other") /\ pc = "loop" /\ pc' = "loop"
    BY <1>4 DEF ReadOther, Read
  <2> QED BY <2>1, NoneBad DEF BadIsLast
<1>5. CASE ReadEof
  <2>1. Read("eof") /\ pc' = "close"
    BY <1>5 DEF ReadEof
  <2> QED BY <2>1, NoneBad DEF BadIsLast
<1>6. CASE ReadBad
  BY <1>6 DEF ReadBad, BadIsLast
<1>7. CASE FileEnds
  BY <1>7 DEF FileEnds, BadIsLast
<1>8. CASE Return
  <2>1. pc = "close" /\ pc' = "returned" /\ UNCHANGED <<file, i, flag>>
        /\ max' = (IF flag = 1 THEN 0 ELSE max) /\ ret' = max' + 1
    BY <1>8 DEF Return
  <2>2. max' + 1 # 0
    BY <2>1 DEF IInv, TypeOK, Address
  <2> QED BY <2>1, <2>2 DEF BadIsLast
<1>9. CASE UNCHANGED vars
  BY <1>9 DEF vars, BadIsLast
<1> QED BY <1>1, <1>2, <1>3, <1>4, <1>5, <1>6, <1>7, <1>8, <1>9 DEF Next, Over

(* For files of any length and images of any size: the result means what   *)
(* Download assumes of it.                                                 *)
THEOREM ResultIsLoadHolds == Spec => []ResultIsLoad
<1>1. Init => IInv /\ BadIsLast
  BY InitHolds DEF Init, BadIsLast
<1>2. IInv /\ BadIsLast /\ [Next]_vars => (IInv /\ BadIsLast)'
  BY EveryStep, BadStaysLast
<1>3. IInv /\ BadIsLast => ResultIsLoad
  <2> SUFFICES ASSUME IInv, BadIsLast, pc = "returned"
               PROVE  \/ ret = 0 /\ flag = 0 /\ i = 0 /\ out = Blank
                      \/ ret = 1 /\ flag = 1
                      \/ ret \in 1 .. MemSize /\ flag = 0
    BY DEF ResultIsLoad
  <2>1. /\ ret \in 0 .. MemSize /\ flag \in {0, 1} /\ MemSize \in Nat
        /\ out \in [Address -> Byte]
    BY MemSizeAssumption DEF IInv, TypeOK
  <2>2. CASE ret = 0
    <3>1. i = 0 /\ flag = 0
      BY <2>2 DEF BadIsLast
    <3>2. \A a \in Address : Stored(a) = {}
      BY <3>1 DEF Stored
    <3>3. \A a \in Address : out[a] = 0
      BY <3>2 DEF IInv, ImageSoFar, HeldBy
    <3>4. out = Blank
      BY <2>1, <3>3 DEF Blank
    <3> QED BY <2>2, <3>1, <3>4
  <2>3. CASE ret # 0
    <3>1. ret \in 1 .. MemSize
      BY <2>1, <2>3
    <3> QED BY <2>1, <3>1 DEF BadIsLast
  <2> QED BY <2>2, <2>3
<1> QED BY <1>1, <1>2, <1>3, PTL DEF Spec

(* Every step keeps the text what it is.                                   *)
LEMMA TextStays == TextIInv /\ [TextNext]_textVars => TextIInv'
<1> SUFFICES ASSUME TextIInv, [TextNext]_textVars PROVE TextIInv'
  OBVIOUS
<1>1. IInv' /\ BadIsLast'
  BY TextReadsTokens, EveryStep, BadStaysLast DEF TextIInv
<1>2. file' = file
  BY DEF TextNext, textVars, vars, Next, Open, ReadData, ReadPastEnd, ReadOther,
         ReadEof, ReadBad, FileEnds, Return, Over, Read
<1>3. UNCHANGED <<written, text, damage>>
  BY DEF TextNext, textVars
<1>4. Origin'
  BY <1>2, <1>3 DEF TextIInv, Origin
<1> QED BY <1>1, <1>4 DEF TextIInv

-----------------------------------------------------------------------------
(* The records written are records that an assembler can write.            *)
LEMMA WrittenRecord ==
  ASSUME NEW w \in Written
  PROVE  /\ Len(w) \in Nat /\ DOMAIN w = 1 .. Len(w)
         /\ \A r \in DOMAIN w : Writable(w[r])
<1>1. w \in Seq(Record)
  BY WrittenAssumption
<1>2. Len(w) \in Nat /\ DOMAIN w = 1 .. Len(w)
  BY <1>1, LenProperties
<1>3. ASSUME NEW r \in DOMAIN w PROVE Writable(w[r])
  <2>1. w[r] \in Record
    BY <1>1, <1>2, ElementOfSeq
  <2> QED BY <2>1, WrittenAssumption DEF Writable
<1> QED BY <1>2, <1>3

(* What an assembler writes is visible, ...                                *)
LEMMA LineIsVisible ==
  ASSUME NEW r, Writable(r) PROVE Line(r) \in Seq(Visible)
<1> DEFINE b == Whole(r)
<1>1. b \in Seq(Byte) /\ Line(r) = Spelt(b)
  BY WholeOf
<1> HIDE DEF b
<1> QED BY <1>1, SpeltDigits

(* ... and so it is with one visible character changed.                    *)
LEMMA ChangedIsVisible ==
  ASSUME NEW r, Writable(r), NEW t \in Changed(Line(r), Visible)
  PROVE  t \in Seq(Visible)
<1> DEFINE s == Line(r)
<1>1. s \in Seq(Visible)
  BY LineIsVisible
<1>2. PICK c \in DOMAIN s, x \in Visible : t = [s EXCEPT ![c] = x]
  BY DEF Changed
<1> HIDE DEF s
<1>3. c \in 1 .. Len(s)
  BY <1>1, LenProperties
<1> QED BY <1>1, <1>2, <1>3, ExceptSeq

(* Such a file is read to its end.                                         *)
LEMMA ReadWhole ==
  ASSUME NEW f, \A t \in DOMAIN f : f[t] \in Seq(Visible)
  PROVE  AsRead(f) = f
<1>1. \A t \in DOMAIN f : CutAt(f[t], Sub) = f[t]
  BY Uncut
<1>2. {t \in DOMAIN f : CutAt(f[t], Sub) # f[t]} = {}
  BY <1>1
<1> QED BY <1>2 DEF AsRead

(* An undamaged file has one token for every record.                       *)
LEMMA TokensAreRecords ==
  ASSUME Origin, damage = "none"
  PROVE  /\ written \in Written /\ Len(file) = Len(written)
         /\ DOMAIN written = 1 .. Len(file)
         /\ \A r \in 1 .. Len(file) :
              file[r] = Parsed(Line(written[r])) /\ Writable(written[r])
<1>0. written \in Written /\ text = Lines(written)
  BY DEF Origin
<1>1. written \in Written /\ text = Lines(written)
      /\ file = [t \in DOMAIN text |-> Parsed(text[t])]
  <2>1. \A r \in DOMAIN written : Line(written[r]) \in Seq(Visible)
    BY <1>0, WrittenRecord, LineIsVisible
  <2>2. AsRead(text) = text
    BY <1>0, <2>1, ReadWhole DEF Lines
  <2> QED BY <1>0, <2>2 DEF Origin
<1>2. Len(written) \in Nat /\ DOMAIN written = 1 .. Len(written)
      /\ \A r \in DOMAIN written : Writable(written[r])
  BY <1>1, WrittenRecord
<1>3. DOMAIN text = DOMAIN written
      /\ \A r \in DOMAIN written : text[r] = Line(written[r])
  BY <1>1 DEF Lines
<1>4. DOMAIN file = 1 .. Len(written)
      /\ \A r \in 1 .. Len(written) : file[r] = Parsed(Line(written[r]))
  BY <1>1, <1>2, <1>3
<1>5. Len(file) = Len(written)
  <2>1. file = [r \in 1 .. Len(written) |-> Parsed(Line(written[r]))]
    BY <1>1, <1>2, <1>3
  <2> QED BY <1>2, <2>1
<1> QED BY <1>1, <1>2, <1>4, <1>5

(* For every file an assembler can write, with bytes and addresses of any  *)
(* width: hex2bin takes every record for the bytes it was written from,    *)
(* rejects none, and its image is the last byte written at each address.   *)
THEOREM WrittenIsLoadedHolds == TextSpec => []WrittenIsLoaded
<1>1. TextIInv => WrittenIsLoaded
  <2> SUFFICES ASSUME TextIInv, damage = "none", pc = "returned", ret > 0
               PROVE  /\ flag = 0
                      /\ \A a \in Address :
                           LET at == {r \in Before(written) : Covers(written[r], a)}
                           IN  \/ at = {} /\ out[a] = 0
                               \/ \E r \in at :
                                    /\ \A q \in at : q <= r
                                    /\ out[a] = written[r].data[a - written[r].addr + 1]
    BY DEF WrittenIsLoaded
  <2>1. /\ DOMAIN written = 1 .. Len(file)
        /\ \A r \in 1 .. Len(file) :
             file[r] = Parsed(Line(written[r])) /\ Writable(written[r])
    BY TokensAreRecords DEF TextIInv
  <2>2. ASSUME NEW r \in 1 .. Len(file)
        PROVE  /\ file[r].kind = CASE written[r].type = 0 -> "data"
                                   [] written[r].type = 1 -> "eof"
                                   [] OTHER -> "other"
               /\ file[r].addr = written[r].addr
               /\ file[r].cnt = Len(written[r].data)
               /\ \A k \in 1 .. Len(written[r].data) :
                    k \in DOMAIN file[r].tail /\ file[r].tail[k] = written[r].data[k]
    BY <2>1, LineIsRead
  <2>3. ASSUME NEW r \in 1 .. Len(file)
        PROVE  /\ file[r].kind # "bad"
               /\ file[r].kind = "data" <=> written[r].type = 0
               /\ file[r].kind = "eof" <=> written[r].type = 1
    BY <2>2
  <2>4. flag = 0
    <3>1. \A j \in Body : file[j].kind # "bad"
      BY <2>3 DEF Body
    <3> QED BY <3>1 DEF TextIInv, IInv, TypeOK, Progress, Ended
  <2>5. Len(file) \in Nat
    BY FileIsSequence DEF TextIInv, IInv
  <2>6. Body = Before(written)
    <3>1. ASSUME NEW j \in 1 .. Len(file)
          PROVE  (\A k \in 1 .. j : file[k].kind # "eof")
                   <=> (\A k \in 1 .. j : written[k].type # 1)
      <4>1. \A k \in 1 .. j : k \in 1 .. Len(file)
        BY <2>5
      <4> QED BY <2>3, <4>1
    <3> QED BY <2>1, <3>1 DEF Body, Before
  <2>7. ASSUME NEW a \in Address
        PROVE  LET at == {r \in Before(written) : Covers(written[r], a)}
               IN  \/ at = {} /\ out[a] = 0
                   \/ \E r \in at :
                        /\ \A q \in at : q <= r
                        /\ out[a] = written[r].data[a - written[r].addr + 1]
    <3> DEFINE at == {r \in Before(written) : Covers(written[r], a)}
    <3>1. Writers(a) = at
      <4>1. ASSUME NEW r \in 1 .. Len(file)
            PROVE  file[r].kind = "data" /\ a \in Span(file[r])
                     <=> Covers(written[r], a)
        BY <2>2, <2>3 DEF Span, Covers
      <4>2. Body \subseteq 1 .. Len(file)
        BY DEF Body
      <4> QED BY <2>6, <4>1, <4>2 DEF Writers
    <3>2. HeldBy(Writers(a), a)
      <4>1. HeldBy(Stored(a), a)
        BY DEF TextIInv, IInv, ImageSoFar
      <4>2. Writers(a) = Stored(a)
        BY <2>4 DEF TextIInv, IInv, Progress, Ended
      <4> QED BY <4>1, <4>2
    <3>3. ASSUME NEW r \in Writers(a)
          PROVE  ByteAt(file[r], a) = written[r].data[a - written[r].addr + 1]
      <4>1. r \in 1 .. Len(file) /\ a \in Span(file[r])
        BY DEF Writers, Body
      <4>2. written[r].addr \in Nat /\ Len(written[r].data) \in Nat
        <5>1. written[r] \in Record
          BY <2>1, <4>1 DEF Writable
        <5> QED BY <5>1, Sizes, LenProperties DEF Record
      <4>3. a - written[r].addr + 1 \in 1 .. Len(written[r].data)
        <5>1. a \in written[r].addr .. written[r].addr + Len(written[r].data) - 1
          BY <2>2, <4>1 DEF Span
        <5> QED BY <4>2, <5>1
      <4> QED BY <2>2, <4>1, <4>3 DEF ByteAt
    <3> HIDE DEF at
    <3>4. \/ at = {} /\ out[a] = 0
          \/ \E r \in at : /\ \A q \in at : q <= r
                           /\ out[a] = written[r].data[a - written[r].addr + 1]
      BY <3>1, <3>2, <3>3 DEF HeldBy
    <3> QED BY <3>4 DEF at
  <2> QED BY <2>4, <2>7
<1> QED BY TextBegins, TextStays, <1>1, PTL DEF TextSpec

(* For every file an assembler can write and every change of one visible   *)
(* character into another: hex2bin rejects the file if it reads that far,  *)
(* and stores nothing outside its image.                                   *)
THEOREM OneWrongCharacterIsSeenHolds == TextSpec => []OneWrongCharacterIsSeen
<1>1. TextIInv => OneWrongCharacterIsSeen
  <2> SUFFICES ASSUME TextIInv, damage = "visible",
                      pc \in {"returned", "overrun"},
                      NEW t \in 1 .. i, text[t] # Line(written[t])
               PROVE  flag = 1 /\ ret = 1
    BY DEF OneWrongCharacterIsSeen
  <2>0. PICK r \in DOMAIN written :
          \E u \in Changed(Line(written[r]), Visible) :
            text = [Lines(written) EXCEPT ![r] = u]
    BY DEF TextIInv, Origin
  <2>1. PICK l \in Changed(Line(written[r]), Visible) :
          text = [Lines(written) EXCEPT ![r] = l]
    BY <2>0
  <2>2. written \in Written
    BY DEF TextIInv, Origin
  <2>3. DOMAIN text = DOMAIN written
        /\ \A k \in DOMAIN written :
             text[k] = IF k = r THEN l ELSE Line(written[k])
    BY <2>1 DEF Lines
  <2>10. file = [k \in DOMAIN text |-> Parsed(text[k])]
    <3>1. \A k \in DOMAIN written : Writable(written[k])
      BY <2>2, WrittenRecord
    <3>2. \A k \in DOMAIN text : text[k] \in Seq(Visible)
      BY <2>3, <3>1, LineIsVisible, ChangedIsVisible
    <3>3. AsRead(text) = text
      BY <3>2, ReadWhole
    <3> QED BY <3>3 DEF TextIInv, Origin
  <2>4. DOMAIN written = 1 .. Len(file)
    <3>1. Len(written) \in Nat /\ DOMAIN written = 1 .. Len(written)
      BY <2>2, WrittenRecord
    <3>2. file = [k \in 1 .. Len(written) |-> Parsed(text[k])]
      BY <2>3, <2>10, <3>1
    <3> QED BY <3>1, <3>2
  <2>5. t \in DOMAIN written
    <3>1. Len(file) \in Nat /\ i \in 0 .. Len(file)
      BY FileIsSequence DEF TextIInv, IInv, TypeOK
    <3> QED BY <2>4, <3>1
  <2>6. t = r /\ text[t] = l
    BY <2>3, <2>5
  <2>7. Parsed(l).kind = "bad"
    <3>1. Writable(written[r])
      BY <2>2, WrittenRecord
    <3> QED BY <3>1, ChangedIsBad
  <2>8. file[t].kind = "bad"
    BY <2>3, <2>5, <2>6, <2>7, <2>10
  <2>9. pc = "returned" /\ flag = 1
    BY <2>8 DEF TextIInv, BadIsLast, IInv, TypeOK
  <2> QED BY <2>9 DEF TextIInv, BadIsLast
<1> QED BY TextBegins, TextStays, <1>1, PTL DEF TextSpec
=============================================================================
