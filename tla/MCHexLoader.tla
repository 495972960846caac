----------------------------- MODULE MCHexLoader -----------------------------
(* Digits are bits, a byte has two of them and the image sixteen bytes.    *)
(* An assembler's files have up to three records that overlap, descend,    *)
(* store nothing, touch the last byte or are of another type, and end      *)
(* where they please.  The files found instead have up to three tokens: a  *)
(* record may claim fewer or more bytes than it carries, cross the end of  *)
(* the image, have a digit too many, be cut off, or be no record at all;   *)
(* a Nul hides the rest of one, and a Sub the rest of the file.            *)
EXTENDS HexText

Octets == 0 .. 3

R(type, addr, data) == [type |-> type, addr |-> addr, data |-> data]

Records ==
  { R(0, 0, <<1, 2>>), R(0, 1, <<3, 1>>), R(0, 14, <<2, 3>>), R(0, 3, <<>>),
    R(0, 6, <<1, 3, 2>>), R(2, 0, <<1>>), R(1, 0, <<>>) }

UpToThree == UNION {[1 .. n -> Records] : n \in 0 .. 3}

(* A data token with its claim, its address and its bytes.                 *)
Claim(cnt, addr, data) ==
  Spelt(Summed(<<cnt, addr \div 4, addr % 4, 0>> \o data))

Tokens ==
  { Claim(2, 0, <<1, 2>>), Claim(2, 1, <<3, 1>>), Claim(1, 15, <<1>>),
    Claim(3, 14, <<2>>), Claim(3, 1, <<2>>), Claim(1, 0, <<3, 3>>),
    Claim(0, 9, <<1>>), Append(Claim(3, 4, <<1>>), 1), <<Colon>>,
    Spelt(<<0, 0, 0, 1, 3>>), Spelt(<<0, 0, 0, 2, 2>>),
    Spelt(<<1, 0, 0, 0, 1, 1>>), <<0, 1>>,
    <<Colon, 1, Nul, Blot>>, <<Colon, Nul>>, <<Nul, Colon>>,
    Append(Claim(1, 2, <<2>>), Sub), <<Sub>> }

(* What any of these may be read as.                                       *)
Strings ==
  Tokens \union UNION {Changed(Line(r), Char) \union {Line(r)} : r \in Records}

ParsedTokens ==
  {Parsed(t) : t \in (Strings \union {CutAt(t, Sub) : t \in Strings}) \ {<<>>}}

OfLength(n) == [1 .. n -> ParsedTokens]

AnyFile == OfLength(0) \union OfLength(1) \union OfLength(2) \union OfLength(3)

Others == UNION {[1 .. n -> Tokens] : n \in 0 .. 3}
=============================================================================
