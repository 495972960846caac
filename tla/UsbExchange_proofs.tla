------------------------- MODULE UsbExchange_proofs -------------------------
(***************************************************************************)
(* Theorems about UsbExchange for every IdMod, MaxExchanges and MaxFaults. *)
(***************************************************************************)
EXTENDS UsbExchange, SequenceTheorems, TLAPS

(* The id the buffer held before the running operation, if one is running, *)
(* added one to it.                                                        *)
Base == IF pc = "idle" THEN msg_buf.id ELSE msg_buf.id - 1

(* The leftover requests: all those unread, less the running operation's   *)
(* own, which is the last.                                                 *)
Behind == IF pc = "idle" THEN Len(sent) ELSE Len(sent) - 1

FailedReads == unread + lost

(* The running operation's own request is the last one the bridge holds.   *)
OwnIsLast ==
  pc = "reading" =>
    /\ Len(sent) > 0
    /\ sent[Len(sent)].id = msg_buf.id
    /\ sent[Len(sent)].of = n
    /\ msg_buf.kind = "request"
    /\ msg_buf.id > 0
    /\ verdict = "pending"

(* Leftovers come from failed reads, and their ids lie in a window that    *)
(* one operation can move up by one only at the cost of another failure.   *)
Window ==
  /\ Behind <= FailedReads
  /\ FailedReads <= MaxFaults
  /\ \A i \in 1 .. Behind :
       /\ Base - FailedReads <= sent[i].id
       /\ sent[i].id <= Base + i - 1
  /\ \A i, j \in 1 .. Behind : i < j =>
       /\ sent[i].id + 1 - FailedReads <= sent[j].id
       /\ sent[j].id <= sent[i].id + (j - i)
  /\ Behind > 0 => Base <= sent[Behind].id

(* The leftovers belong to exchanges before the running one.               *)
Older ==
  \A i \in 1 .. Len(sent) :
    /\ sent[i].of <= n
    /\ pc = "reading" /\ i < Len(sent) => sent[i].of < n

(* With no lost request and no left-over report under another id, a queue  *)
(* that is not caught up stays so.                                         *)
IInv ==
  /\ TypeOK
  /\ unsent = 0 /\ misled = 0
  /\ OwnIsLast
  /\ Older
  /\ Window
  /\ AcceptedIsOwn
  /\ verdict = "ok" => sent = <<>>

-----------------------------------------------------------------------------
(* Two ids less than IdMod apart are told apart by their low bits.         *)
LEMMA WrapApart ==
  ASSUME NEW a \in Nat, NEW b \in Nat, a < b, b - a < IdMod
  PROVE  Wrap(a) # Wrap(b)
<1> DEFINE qa == a \div IdMod
           qb == b \div IdMod
<1>1. IdMod \in Nat /\ IdMod > 0
  BY ConstantsAssumption
<1>2. /\ qa \in Int /\ qb \in Int
      /\ a = IdMod * qa + (a % IdMod) /\ b = IdMod * qb + (b % IdMod)
  BY <1>1
<1>3. SUFFICES ASSUME a % IdMod = b % IdMod PROVE FALSE
  BY DEF Wrap
<1> HIDE DEF qa, qb
<1>4. b - a = IdMod * (qb - qa)
  BY <1>1, <1>2, <1>3
<1>5. CASE qb - qa <= 0
  <2>1. IdMod * (qb - qa) <= 0
    BY <1>1, <1>2, <1>5
  <2> QED BY <1>4, <2>1
<1>6. CASE qb - qa >= 1
  <2>1. IdMod * (qb - qa) >= IdMod
    BY <1>1, <1>2, <1>6
  <2> QED BY <1>4, <2>1, <1>1
<1> QED BY <1>2, <1>5, <1>6

(* What a WriteFile that succeeds does to the requests in the bridge.      *)
LEMMA TakenAtTheEnd ==
  ASSUME sent \in Seq(Message), NEW request \in Buffer, BridgeTakes(request)
  PROVE  /\ sent' \in Seq(Message)
         /\ Len(sent') = Len(sent) + 1
         /\ \A i \in 1 .. Len(sent) : sent'[i] = sent[i]
         /\ sent'[Len(sent')].id = request.id
         /\ sent'[Len(sent')].of = request.of
<1> DEFINE m == [id |-> request.id, of |-> request.of]
<1>1. m \in Message
  BY DEF Message, Buffer
<1>2. m.id = request.id /\ m.of = request.of
  OBVIOUS
<1>3. sent' = Append(sent, m)
  BY DEF BridgeTakes
<1> HIDE DEF m
<1>4. /\ Append(sent, m) \in Seq(Message)
      /\ Len(Append(sent, m)) = Len(sent) + 1
      /\ \A i \in 1 .. Len(sent) : Append(sent, m)[i] = sent[i]
      /\ Append(sent, m)[Len(sent) + 1] = m
  BY <1>1, AppendProperties
<1> QED BY <1>2, <1>3, <1>4

(* What a read that consumes the oldest reply does to them.                *)
LEMMA OldestGone ==
  ASSUME sent \in Seq(Message), answered \in 1 .. Len(sent)
  PROVE  /\ Tail(sent) \in Seq(Message)
         /\ Len(Tail(sent)) = Len(sent) - 1
         /\ \A i \in 1 .. Len(sent) - 1 : Tail(sent)[i] = sent[i + 1]
         /\ Head(sent) = sent[1]
         /\ Head(sent) \in Message
         /\ Head(sent).id \in Nat /\ Head(sent).of \in Nat
<1>1. Len(sent) \in Nat /\ Len(sent) > 0
  BY LenProperties
<1>2. sent # <<>>
  BY <1>1, EmptySeq
<1>3. Head(sent) \in Message
  BY <1>2, HeadTailProperties
<1> QED BY <1>1, <1>2, <1>3, HeadTailProperties DEF Message

(* What a report may be that the tool reads: the oldest reply, or what     *)
(* damage has made of it, and then the check sum tells.                    *)
LEMMA ReportRead ==
  ASSUME sent \in Seq(Message), answered \in 1 .. Len(sent),
         NEW report \in Reports
  PROVE  /\ report \in Buffer
         /\ report.kind = "reply" /\ report.of = sent[1].of
         /\ report.intact => report.id = sent[1].id + 1
         /\ Reply(Head(sent)).id = sent[1].id + 1
<1>1. Head(sent) = sent[1] /\ sent[1].id \in Nat /\ sent[1].of \in Nat
  BY OldestGone
<1> DEFINE reply == Reply(sent[1])
<1>2. /\ reply \in Buffer /\ reply.id = sent[1].id + 1
      /\ reply.of = sent[1].of /\ reply.kind = "reply"
  BY <1>1 DEF Reply, Buffer
<1> HIDE DEF reply
<1>3. ASSUME report \in Damaged(reply)
      PROVE  /\ report \in Buffer /\ report.of = reply.of
             /\ report.kind = "reply" /\ ~ report.intact
  <2>1. IdMod \in Nat /\ reply.id \in Nat /\ reply.of \in Nat
    BY <1>2, ConstantsAssumption DEF Buffer
  <2>2. PICK i \in {reply.id} \union {x \in 0 .. IdMod - 1 : x # Wrap(reply.id)} :
          report = [id |-> i, of |-> reply.of, kind |-> "reply",
                    intact |-> FALSE]
    BY <1>3 DEF Damaged
  <2>3. i \in Nat
    BY <2>1
  <2> QED BY <2>1, <2>2, <2>3 DEF Buffer
<1>4. report = reply \/ report \in Damaged(reply)
  BY <1>1 DEF Reports, reply
<1> QED BY <1>1, <1>2, <1>3, <1>4 DEF reply

(* Every verdict is one of the three data_trans can reach.                 *)
LEMMA VerdictType ==
  ASSUME NEW id, NEW buf
  PROVE  BufferVerdict(id, buf) \in {"ok", "fail1", "fail2"}
BY DEF BufferVerdict

(* The type invariant needs nothing of the fault model.                    *)
THEOREM TypeCorrect == Spec => []TypeOK
<1>1. Init => TypeOK
  BY DEF Init, TypeOK, Buffer, Message
<1>2. TypeOK /\ [Next]_vars => TypeOK'
  <2> SUFFICES ASSUME TypeOK, [Next]_vars PROVE TypeOK'
    OBVIOUS
  <2>0. Len(sent) \in Nat /\ msg_buf.id \in Nat /\ msg_buf.of \in Nat
    BY LenProperties DEF TypeOK, Buffer
  <2>1. CASE Request
    <3>1. NextRequest \in Buffer
      BY <2>0 DEF NextRequest, TypeOK, Buffer
    <3>2. /\ sent' \in Seq(Message)
          /\ Len(sent') \in Nat /\ Len(sent') >= Len(sent)
      <4>1. CASE BridgeTakes(NextRequest)
        BY <2>0, <3>1, <4>1, TakenAtTheEnd DEF TypeOK
      <4>2. CASE UNCHANGED sent
        BY <2>0, <4>2 DEF TypeOK
      <4> QED BY <2>1, <4>1, <4>2 DEF Request
    <3>3. /\ answered' \in 0 .. Len(sent')
          /\ pc' \in {"idle", "reading"}
          /\ verdict' \in {"none", "pending", "ok", "fail1", "fail2"}
          /\ n' \in Nat /\ unsent' \in Nat /\ unread' \in Nat /\ lost' \in Nat
          /\ damaged' \in Nat /\ misled' \in Nat
      BY <2>0, <2>1, <3>2 DEF Request, TypeOK
    <3>4. msg_buf' \in Buffer
      BY <2>1, <3>1 DEF Request
    <3> QED BY <3>2, <3>3, <3>4 DEF TypeOK
  <2>2. CASE Answer
    BY <2>0, <2>2 DEF Answer, TypeOK
  <2>3. CASE Receive
    <3>1. answered \in 1 .. Len(sent)
      BY <2>0, <2>3 DEF Receive, TypeOK
    <3>2. PICK report \in Reports : Arrives(report)
      BY <2>3 DEF Receive
    <3>3. sent' \in Seq(Message) /\ answered' \in 0 .. Len(sent')
      BY <2>0, <3>1, <3>2, OldestGone DEF Arrives, TypeOK
    <3>4. msg_buf' \in Buffer
      BY <3>1, <3>2, ReportRead DEF Arrives, TypeOK
    <3>5. verdict' \in {"ok", "fail1", "fail2"}
      BY <3>2, VerdictType DEF Arrives
    <3>6. damaged' \in Nat /\ misled' \in Nat
      BY <3>2 DEF Arrives, TypeOK
    <3>7. pc' = "idle" /\ UNCHANGED <<n, unsent, unread, lost>>
      BY <2>3 DEF Receive
    <3> QED BY <3>3, <3>4, <3>5, <3>6, <3>7 DEF TypeOK
  <2>4. CASE ReceiveFails
    <3>1. sent' \in Seq(Message) /\ answered' \in 0 .. Len(sent')
      <4>1. CASE UNCHANGED <<sent, answered>>
        BY <4>1 DEF TypeOK
      <4>2. CASE answered > 0 /\ sent' = Tail(sent) /\ answered' = answered - 1
        <5>1. answered \in 1 .. Len(sent)
          BY <2>0, <4>2 DEF TypeOK
        <5> QED BY <2>0, <4>2, <5>1, OldestGone DEF TypeOK
      <4> QED BY <2>4, <4>1, <4>2 DEF ReceiveFails
    <3>2. verdict' \in {"ok", "fail1", "fail2"} /\ pc' = "idle"
      BY <2>4, VerdictType DEF ReceiveFails
    <3>3. /\ unread' \in Nat /\ lost' \in Nat
          /\ UNCHANGED <<msg_buf, n, unsent, damaged, misled>>
      BY <2>4 DEF ReceiveFails, TypeOK
    <3> QED BY <3>1, <3>2, <3>3 DEF TypeOK
  <2>5. CASE Wait \/ UNCHANGED vars
    BY <2>5 DEF Wait, vars, TypeOK
  <2> QED BY <2>1, <2>2, <2>3, <2>4, <2>5 DEF Next
<1> QED BY <1>1, <1>2, PTL DEF Spec

-----------------------------------------------------------------------------
(* A fresh request keeps every leftover in the window.                     *)
LEMMA RequestKeeps ==
  ASSUME unsent' = 0, IInv, TypeOK', Request
  PROVE  IInv'
<1>1. /\ pc = "idle" /\ pc' = "reading" /\ n' = n + 1
      /\ msg_buf' = NextRequest /\ verdict' = "pending"
      /\ BridgeTakes(NextRequest)
      /\ unsent' = unsent /\ unread' = unread /\ lost' = lost
      /\ misled' = misled
  BY DEF Request, IInv
<1>2. /\ Len(sent) \in Nat /\ sent \in Seq(Message)
      /\ msg_buf.id \in Nat /\ n \in Nat
      /\ FailedReads \in Nat
  BY LenProperties DEF IInv, TypeOK, Buffer, FailedReads
<1>3. /\ NextRequest \in Buffer
      /\ NextRequest.id = msg_buf.id + 1 /\ NextRequest.of = n + 1
      /\ NextRequest.kind = "request"
  BY <1>2 DEF NextRequest, Buffer
<1>4. /\ Len(sent') = Len(sent) + 1
      /\ \A i \in 1 .. Len(sent) : sent'[i] = sent[i]
      /\ sent'[Len(sent')].id = msg_buf.id + 1
      /\ sent'[Len(sent')].of = n + 1
  BY <1>1, <1>2, <1>3, TakenAtTheEnd
<1>5. OwnIsLast'
  BY <1>1, <1>2, <1>3, <1>4 DEF OwnIsLast
<1>6. Base' = Base /\ Behind' = Behind /\ FailedReads' = FailedReads
      /\ Behind = Len(sent)
  BY <1>1, <1>2, <1>3, <1>4 DEF Base, Behind, FailedReads
<1>7. Window'
  BY <1>2, <1>4, <1>6 DEF Window, IInv
<1>8. Older'
  <2>1. \A i \in 1 .. Len(sent) : sent[i].of \in Nat /\ sent[i].of <= n
    <3> TAKE i \in 1 .. Len(sent)
    <3>1. sent[i] \in Message
      BY <1>2, ElementOfSeq
    <3> QED BY <3>1 DEF Message, IInv, Older
  <2>2. \A i \in 1 .. Len(sent) : sent'[i].of < n + 1
    BY <1>2, <1>4, <2>1
  <2>3. \A i \in 1 .. Len(sent') : i \in 1 .. Len(sent) \/ i = Len(sent')
    BY <1>2, <1>4
  <2>4. ASSUME NEW i \in 1 .. Len(sent')
        PROVE  /\ sent'[i].of <= n'
               /\ pc' = "reading" /\ i < Len(sent') => sent'[i].of < n'
    <3>1. CASE i \in 1 .. Len(sent)
      <4>1. sent'[i].of \in Nat
        BY <1>4, <2>1, <3>1
      <4> QED BY <1>1, <1>2, <2>2, <3>1, <4>1
    <3>2. CASE i = Len(sent')
      BY <1>1, <1>2, <1>4, <3>2
    <3> QED BY <2>3, <3>1, <3>2
  <2> QED BY <2>4 DEF Older
<1> QED BY <1>1, <1>5, <1>7, <1>8 DEF IInv, AcceptedIsOwn

(* An answer changes nothing the invariant speaks of.                      *)
LEMMA AnswerKeeps ==
  ASSUME IInv, TypeOK', Answer
  PROVE  IInv'
<1>1. UNCHANGED <<pc, msg_buf, sent, verdict, n, unsent, unread, lost, misled>>
  BY DEF Answer
<1>2. OwnIsLast' /\ Older' /\ Window' /\ AcceptedIsOwn'
  BY <1>1 DEF IInv, OwnIsLast, Older, Window, AcceptedIsOwn, Base, Behind,
              FailedReads
<1> QED BY <1>1, <1>2 DEF IInv

(* While an operation runs, its own request extends the window by one.     *)
LEMMA WindowWithOwn ==
  ASSUME IInv, pc = "reading"
  PROVE  LET k == Len(sent)
             m == msg_buf.id
             F == FailedReads
         IN  /\ k \in Nat /\ k > 0 /\ m \in Nat /\ F \in Nat
             /\ k - 1 <= F /\ F <= MaxFaults
             /\ \A i \in 1 .. k : sent[i].id \in Nat
             /\ sent[k].id = m
             /\ \A i \in 1 .. k - 1 :
                  m - 1 - F <= sent[i].id /\ sent[i].id <= m + i - 2
             /\ \A i, j \in 1 .. k : i < j =>
                  /\ sent[i].id + 1 - F <= sent[j].id
                  /\ sent[j].id <= sent[i].id + (j - i)
<1> DEFINE k == Len(sent)
           m == msg_buf.id
           F == FailedReads
<1>1. k \in Nat /\ sent \in Seq(Message) /\ m \in Nat /\ F \in Nat
  BY LenProperties DEF IInv, TypeOK, Buffer, FailedReads
<1>2. \A i \in 1 .. k : sent[i].id \in Nat
  <2> TAKE i \in 1 .. k
  <2>1. sent[i] \in Message
    BY <1>1, ElementOfSeq
  <2> QED BY <2>1 DEF Message
<1>3. k > 0 /\ sent[k].id = m
  BY DEF IInv, OwnIsLast
<1>4. Base = m - 1 /\ Behind = k - 1
  BY DEF Base, Behind
<1>5. /\ k - 1 <= F /\ F <= MaxFaults
      /\ \A i \in 1 .. k - 1 :
           m - 1 - F <= sent[i].id /\ sent[i].id <= m - 1 + i - 1
      /\ \A i, j \in 1 .. k - 1 : i < j =>
           /\ sent[i].id + 1 - F <= sent[j].id
           /\ sent[j].id <= sent[i].id + (j - i)
      /\ k - 1 > 0 => m - 1 <= sent[k - 1].id
  BY <1>4 DEF IInv, Window
<1> HIDE DEF k, m, F
<1>6. /\ k - 1 > 0 => m - 1 <= sent[k - 1].id
      /\ \A i \in 1 .. k - 1 :
           m - 1 - F <= sent[i].id /\ sent[i].id <= m + i - 2
  <2> SUFFICES ASSUME NEW i \in 1 .. k - 1
               PROVE  m - 1 - F <= sent[i].id /\ sent[i].id <= m + i - 2
    BY <1>5
  <2>1. m - 1 - F <= sent[i].id /\ sent[i].id <= m - 1 + i - 1
    BY <1>5
  <2>2. i \in Int /\ m - 1 + i - 1 = m + i - 2
    BY <1>1
  <2> QED BY <2>1, <2>2
<1>7. \A i \in 1 .. k - 1 : m <= sent[i].id + (k - i)
  <2> TAKE i \in 1 .. k - 1
  <2>1. sent[k - 1].id <= sent[i].id + (k - 1 - i)
    <3>1. CASE i = k - 1
      BY <1>1, <1>2, <3>1
    <3>2. CASE i < k - 1
      BY <1>1, <1>5, <3>2
    <3> QED BY <1>1, <3>1, <3>2
  <2>2. /\ sent[k - 1].id \in Nat /\ sent[i].id \in Nat
        /\ k - 1 > 0 /\ i \in Int
    BY <1>1, <1>2
  <2>3. m - 1 <= sent[k - 1].id
    BY <1>6, <2>2
  <2> QED BY <1>1, <2>1, <2>2, <2>3
<1>8. \A i \in 1 .. k - 1 : sent[i].id + 1 - F <= m
  <2> TAKE i \in 1 .. k - 1
  <2>1. sent[i].id <= m + i - 2 /\ sent[i].id \in Nat /\ i \in Int /\ i <= k - 1
    BY <1>1, <1>2, <1>6
  <2> QED BY <1>1, <1>5, <2>1
<1>9. ASSUME NEW i \in 1 .. k, NEW j \in 1 .. k, i < j
      PROVE  /\ sent[i].id + 1 - F <= sent[j].id
             /\ sent[j].id <= sent[i].id + (j - i)
  <2>1. CASE j = k
    BY <1>1, <1>3, <1>7, <1>8, <1>9, <2>1
  <2>2. CASE j < k
    <3>1. i \in 1 .. k - 1 /\ j \in 1 .. k - 1
      BY <1>1, <1>9, <2>2
    <3> QED BY <1>5, <1>9, <3>1
  <2> QED BY <1>1, <1>9, <2>1, <2>2
<1> QED BY <1>1, <1>2, <1>3, <1>5, <1>6, <1>9 DEF k, m, F

(* A leftover the read returns is never mistaken for the answer: its id    *)
(* lies below the expected one by less than the id's range.                *)
LEMMA LeftoverIsRefused ==
  ASSUME MaxFaults + 1 < IdMod, IInv, pc = "reading", Len(sent) > 1,
         NEW buf, buf.id = sent[1].id + 1
  PROVE  BufferVerdict(msg_buf.id, buf) = "fail1"
<1> DEFINE r == sent[1].id
           m == msg_buf.id
<1>1. /\ m \in Nat /\ r \in Nat
      /\ m - 1 - FailedReads <= r /\ r <= m - 1
      /\ FailedReads \in Nat /\ FailedReads <= MaxFaults
  BY WindowWithOwn
<1>2. IdMod \in Nat /\ MaxFaults \in Nat
  BY ConstantsAssumption
<1> HIDE DEF r, m
<1>3. r + 1 < m + 1 /\ (m + 1) - (r + 1) < IdMod /\ r + 1 \in Nat /\ m + 1 \in Nat
  BY <1>1, <1>2
<1>4. Wrap(r + 1) # Wrap(m + 1)
  BY <1>3, WrapApart
<1> QED BY <1>4 DEF BufferVerdict, r, m

(* A read keeps the invariant: either the queue held the own answer alone, *)
(* or what it returns is refused and the window moves down with it.        *)
LEMMA ReceiveKeeps ==
  ASSUME MaxFaults + 1 < IdMod, misled' = 0, IInv, TypeOK', Receive
  PROVE  IInv'
<1> DEFINE k == Len(sent)
           m == msg_buf.id
           F == FailedReads
<1>0. PICK report \in Reports : Arrives(report)
  BY DEF Receive
<1>1. /\ pc = "reading" /\ pc' = "idle"
      /\ msg_buf' = report
      /\ verdict' = BufferVerdict(msg_buf.id, report)
      /\ sent' = Tail(sent)
      /\ UNCHANGED <<n, unsent, unread, lost>>
  BY <1>0 DEF Receive, Arrives
<1>2. sent \in Seq(Message) /\ answered \in 1 .. Len(sent)
  BY LenProperties DEF Receive, IInv, TypeOK
<1>3. /\ sent' \in Seq(Message) /\ Len(sent') = k - 1
      /\ \A i \in 1 .. k - 1 : sent'[i] = sent[i + 1]
      /\ Head(sent) = sent[1]
  BY <1>1, <1>2, OldestGone
<1>4. /\ k \in Nat /\ k > 0 /\ m \in Nat /\ F \in Nat
      /\ k - 1 <= F /\ F <= MaxFaults
      /\ \A i \in 1 .. k : sent[i].id \in Nat
      /\ sent[k].id = m
      /\ \A i \in 1 .. k - 1 :
           m - 1 - F <= sent[i].id /\ sent[i].id <= m + i - 2
      /\ \A i, j \in 1 .. k : i < j =>
           /\ sent[i].id + 1 - F <= sent[j].id
           /\ sent[j].id <= sent[i].id + (j - i)
  BY <1>1, WindowWithOwn
<1>5. /\ msg_buf'.of = sent[1].of /\ msg_buf'.kind = "reply"
      /\ k > 1 => report.id = sent[1].id + 1
  <2>1. /\ msg_buf'.of = sent[1].of /\ msg_buf'.kind = "reply"
        /\ Reply(Head(sent)).id = sent[1].id + 1
    BY <1>1, <1>2, ReportRead
  <2>2. ASSUME k > 1 PROVE sent[1].of < n
    BY <1>1, <1>4, <2>2 DEF IInv, Older
  <2>3. sent[1] \in Message /\ n \in Nat
    BY <1>2, ElementOfSeq DEF IInv, TypeOK
  <2>4. ASSUME k > 1 PROVE report.of # n
    BY <1>1, <2>1, <2>2, <2>3, <2>4 DEF Message
  <2>5. ASSUME report.of # n, report.id # Reply(Head(sent)).id PROVE FALSE
    <3>1. misled' = misled + 1
      BY <1>0, <2>5 DEF Arrives
    <3> QED BY <3>1 DEF IInv
  <2> QED BY <2>1, <2>4, <2>5
<1>6. /\ Behind' = k - 1 /\ F' = F
      /\ k > 1 => Base' = sent[1].id + 1
  BY <1>1, <1>3, <1>5 DEF Base, Behind, FailedReads
<1> HIDE DEF k, m, F
<1>7. Window'
  <2>1. ASSUME NEW i \in 1 .. k - 1
        PROVE  /\ sent[1].id + 1 - F <= sent'[i].id
               /\ sent'[i].id <= sent[1].id + 1 + i - 1
    <3>1. i + 1 \in 1 .. k /\ 1 \in 1 .. k /\ 1 < i + 1 /\ i \in Nat
      BY <1>4
    <3>2. /\ sent[1].id + 1 - F <= sent[i + 1].id
          /\ sent[i + 1].id <= sent[1].id + ((i + 1) - 1)
      BY <1>4, <3>1
    <3>3. sent[i + 1].id \in Nat /\ sent[1].id \in Nat
      BY <1>4, <3>1
    <3>4. sent'[i] = sent[i + 1]
      BY <1>3
    <3>5. sent[1].id + ((i + 1) - 1) = sent[1].id + 1 + i - 1
      BY <3>1, <3>3
    <3> QED BY <3>2, <3>4, <3>5
  <2>2. ASSUME NEW i \in 1 .. k - 1, NEW j \in 1 .. k - 1, i < j
        PROVE  /\ sent'[i].id + 1 - F <= sent'[j].id
               /\ sent'[j].id <= sent'[i].id + (j - i)
    <3>1. i + 1 \in 1 .. k /\ j + 1 \in 1 .. k /\ i + 1 < j + 1
      BY <1>4, <2>2
    <3>2. /\ sent[i + 1].id + 1 - F <= sent[j + 1].id
          /\ sent[j + 1].id <= sent[i + 1].id + ((j + 1) - (i + 1))
      BY <1>4, <3>1
    <3>3. (j + 1) - (i + 1) = j - i
      BY <1>4
    <3> QED BY <1>3, <3>2, <3>3
  <2>3. k - 1 > 0 => sent[1].id + 1 <= sent'[k - 1].id
    <3> SUFFICES ASSUME k - 1 > 0 PROVE sent[1].id + 1 <= sent'[k - 1].id
      OBVIOUS
    <3>1. sent'[k - 1] = sent[k]
      BY <1>3, <1>4
    <3>2. sent[1].id <= m - 1 /\ sent[1].id \in Nat
      BY <1>4
    <3> QED BY <1>4, <3>1, <3>2
  <2>4. FailedReads' = F
    BY <1>6 DEF F
  <2>5. Behind' <= FailedReads' /\ FailedReads' <= MaxFaults
    BY <1>4, <1>6, <2>4
  <2>6. \A i \in 1 .. Behind' :
          /\ Base' - FailedReads' <= sent'[i].id
          /\ sent'[i].id <= Base' + i - 1
    <3> SUFFICES ASSUME NEW i \in 1 .. k - 1
                 PROVE  /\ Base' - F <= sent'[i].id
                        /\ sent'[i].id <= Base' + i - 1
      BY <1>6, <2>4
    <3>1. Base' = sent[1].id + 1
      BY <1>4, <1>6
    <3>2. /\ sent[1].id \in Nat /\ F \in Nat /\ i \in Int
          /\ sent[1].id + 1 - F = (sent[1].id + 1) - F
          /\ sent[1].id + 1 + i - 1 = (sent[1].id + 1) + (i - 1)
      BY <1>4
    <3> QED BY <2>1, <3>1, <3>2
  <2>7. \A i, j \in 1 .. Behind' : i < j =>
          /\ sent'[i].id + 1 - FailedReads' <= sent'[j].id
          /\ sent'[j].id <= sent'[i].id + (j - i)
    BY <1>6, <2>2, <2>4
  <2>8. Behind' > 0 => Base' <= sent'[Behind'].id
    BY <1>4, <1>6, <2>3
  <2> QED BY <2>5, <2>6, <2>7, <2>8 DEF Window
<1>8. AcceptedIsOwn' /\ (verdict' = "ok" => sent' = <<>>)
  <2>1. CASE k = 1
    <3>1. sent[1].of = n
      BY <1>1, <2>1 DEF IInv, OwnIsLast, k
    <3>2. sent' = <<>>
      BY <1>3, <2>1, EmptySeq
    <3> QED BY <1>1, <1>5, <3>1, <3>2 DEF AcceptedIsOwn
  <2>2. CASE k > 1
    <3>1. verdict' = "fail1"
      BY <1>1, <1>5, <2>2, LeftoverIsRefused DEF k
    <3> QED BY <3>1 DEF AcceptedIsOwn
  <2> QED BY <1>4, <2>1, <2>2
<1>9. Older'
  <2>1. \A i \in 1 .. k - 1 : i + 1 \in 1 .. k /\ sent[i + 1].of <= n
    BY <1>4 DEF IInv, Older, k
  <2> QED BY <1>1, <1>3, <2>1 DEF Older
<1> QED BY <1>1, <1>7, <1>8, <1>9 DEF IInv, OwnIsLast

(* A failed read, whichever way it fails, widens the window by the one it  *)
(* moves.                                                                  *)
LEMMA ReceiveFailsKeeps ==
  ASSUME MaxFaults + 1 < IdMod, IInv, TypeOK', ReceiveFails
  PROVE  IInv'
<1> DEFINE k == Len(sent)
           m == msg_buf.id
           F == FailedReads
<1>1. /\ pc = "reading" /\ pc' = "idle"
      /\ verdict' = BufferVerdict(msg_buf.id, msg_buf)
      /\ UNCHANGED <<msg_buf, n, unsent, misled>>
  BY DEF ReceiveFails
<1>2. /\ k \in Nat /\ k > 0 /\ m \in Nat /\ F \in Nat
      /\ k - 1 <= F /\ F <= MaxFaults
      /\ \A i \in 1 .. k : sent[i].id \in Nat
      /\ sent[k].id = m
      /\ \A i \in 1 .. k - 1 :
           m - 1 - F <= sent[i].id /\ sent[i].id <= m + i - 2
      /\ \A i, j \in 1 .. k : i < j =>
           /\ sent[i].id + 1 - F <= sent[j].id
           /\ sent[j].id <= sent[i].id + (j - i)
  BY <1>1, WindowWithOwn
<1>3. /\ unsent = 0 /\ unread \in Nat /\ lost \in Nat /\ damaged \in Nat
      /\ F = unread + lost /\ MaxFaults \in Nat
  BY ConstantsAssumption DEF IInv, TypeOK, FailedReads
<1>4. FailedReads' = F + 1 /\ F + 1 <= MaxFaults
  BY <1>3 DEF ReceiveFails, MayFail, FaultCount, FailedCalls, FailedReads
<1>5. PICK d \in {0, 1} :
        /\ Len(sent') = k - d
        /\ \A i \in 1 .. k - d : sent'[i] = sent[i + d]
  <2>1. CASE UNCHANGED sent
    BY <1>2, <2>1
  <2>2. CASE answered > 0 /\ sent' = Tail(sent)
    <3>1. sent \in Seq(Message) /\ answered \in 1 .. Len(sent)
      BY <1>2, <2>2 DEF IInv, TypeOK
    <3> QED BY <2>2, <3>1, OldestGone
  <2> QED BY <2>1, <2>2 DEF ReceiveFails
<1>6. Base' = m /\ Behind' = k - d /\ d \in Int /\ 0 <= d /\ d <= 1
  BY <1>1, <1>5 DEF Base, Behind
<1> HIDE DEF k, m, F
<1>7. Window'
  <2>1. Behind' <= FailedReads' /\ FailedReads' <= MaxFaults
    BY <1>2, <1>4, <1>6
  <2>2. ASSUME NEW i \in 1 .. k - d
        PROVE  /\ m - (F + 1) <= sent'[i].id
               /\ sent'[i].id <= m + i - 1
    <3>1. i \in Int /\ i + d \in 1 .. k /\ sent[i + d].id \in Nat
      BY <1>2, <1>6
    <3>2. CASE i + d = k
      BY <1>2, <1>5, <1>6, <3>1, <3>2
    <3>3. CASE i + d < k
      <4>1. /\ m - 1 - F <= sent[i + d].id
            /\ sent[i + d].id <= m + (i + d) - 2
        BY <1>2, <3>1, <3>3
      <4> QED BY <1>2, <1>5, <1>6, <3>1, <4>1
    <3> QED BY <1>2, <3>1, <3>2, <3>3
  <2>3. ASSUME NEW i \in 1 .. k - d, NEW j \in 1 .. k - d, i < j
        PROVE  /\ sent'[i].id + 1 - (F + 1) <= sent'[j].id
               /\ sent'[j].id <= sent'[i].id + (j - i)
    <3>1. /\ i + d \in 1 .. k /\ j + d \in 1 .. k /\ i + d < j + d
          /\ i \in Int /\ j \in Int
      BY <1>2, <1>6, <2>3
    <3>2. /\ sent[i + d].id + 1 - F <= sent[j + d].id
          /\ sent[j + d].id <= sent[i + d].id + ((j + d) - (i + d))
          /\ sent[i + d].id \in Nat /\ sent[j + d].id \in Nat
      BY <1>2, <3>1
    <3>3. (j + d) - (i + d) = j - i
      BY <1>6, <3>1
    <3>4. sent'[i] = sent[i + d] /\ sent'[j] = sent[j + d]
      BY <1>5
    <3>5. sent[i + d].id + 1 - (F + 1) <= sent[j + d].id
      BY <1>2, <3>2
    <3> QED BY <3>2, <3>3, <3>4, <3>5
  <2>4. k - d > 0 => m <= sent'[k - d].id
    <3> SUFFICES ASSUME k - d > 0 PROVE m <= sent'[k - d].id
      OBVIOUS
    <3>1. k - d \in 1 .. k - d /\ (k - d) + d = k
      BY <1>2, <1>6
    <3>2. sent'[k - d] = sent[k]
      BY <1>5, <3>1
    <3> QED BY <1>2, <3>2
  <2>5. \A i \in 1 .. Behind' :
          /\ Base' - FailedReads' <= sent'[i].id
          /\ sent'[i].id <= Base' + i - 1
    BY <1>4, <1>6, <2>2
  <2>6. \A i, j \in 1 .. Behind' : i < j =>
          /\ sent'[i].id + 1 - FailedReads' <= sent'[j].id
          /\ sent'[j].id <= sent'[i].id + (j - i)
    BY <1>4, <1>6, <2>3
  <2>7. Behind' > 0 => Base' <= sent'[Behind'].id
    BY <1>6, <2>4
  <2> QED BY <2>1, <2>5, <2>6, <2>7 DEF Window
<1>8. verdict' = "fail1"
  <2>1. Wrap(m) # Wrap(m + 1)
    BY <1>2, ConstantsAssumption, WrapApart
  <2> QED BY <1>1, <2>1 DEF BufferVerdict, m
<1>9. Older'
  <2>1. \A i \in 1 .. k - d : i + d \in 1 .. k /\ sent[i + d].of <= n
    BY <1>2, <1>6 DEF IInv, Older, k
  <2> QED BY <1>1, <1>5, <2>1 DEF Older
<1> QED BY <1>1, <1>7, <1>8, <1>9 DEF IInv, OwnIsLast, AcceptedIsOwn

-----------------------------------------------------------------------------
(* As long as every request reaches the bridge and no left-over report     *)
(* gets another id, IInv is invariant.                                     *)
LEMMA IInvInductive ==
  ASSUME MaxFaults + 1 < IdMod
  PROVE  IInv /\ TypeOK' /\ [Next]_vars /\ unsent' = 0 /\ misled' = 0 => IInv'
<1> SUFFICES ASSUME IInv, TypeOK', [Next]_vars, unsent' = 0, misled' = 0
             PROVE  IInv'
  OBVIOUS
<1>1. CASE Request
  BY <1>1, RequestKeeps
<1>2. CASE Answer
  BY <1>2, AnswerKeeps
<1>3. CASE Receive
  BY <1>3, ReceiveKeeps
<1>4. CASE ReceiveFails
  BY <1>4, ReceiveFailsKeeps
<1>5. CASE Wait \/ UNCHANGED vars
  BY <1>5 DEF Wait, vars, IInv, OwnIsLast, Older, Window, AcceptedIsOwn,
              Base, Behind, FailedReads
<1> QED BY <1>1, <1>2, <1>3, <1>4, <1>5 DEF Next

Straight == unsent = 0 /\ misled = 0

(* No step undoes the loss of a request, or that a left-over was misread.  *)
LEMMA StraightBefore ==
  ASSUME TypeOK, [Next]_vars, Straight'
  PROVE  Straight
<1>1. unsent \in Nat /\ misled \in Nat
  BY DEF TypeOK
<1>2. unsent' = unsent \/ unsent' = unsent + 1
  BY DEF Next, Request, Answer, Receive, ReceiveFails, Wait, vars
<1>3. misled' = misled \/ misled' = misled + 1
  <2>1. CASE Receive
    <3>1. PICK report \in Reports : Arrives(report)
      BY <2>1 DEF Receive
    <3> QED BY <1>1, <3>1 DEF Arrives
  <2>2. CASE Request \/ Answer \/ ReceiveFails \/ Wait \/ UNCHANGED vars
    BY <2>2 DEF Request, Answer, ReceiveFails, Wait, vars
  <2> QED BY <2>1, <2>2 DEF Next
<1> QED BY <1>1, <1>2, <1>3 DEF Straight

(* Until then.                                                             *)
UntilAstray == Straight => IInv

(* Every step keeps it.                                                    *)
LEMMA UntilAstrayKept ==
  ASSUME MaxFaults + 1 < IdMod
  PROVE  UntilAstray /\ TypeOK /\ TypeOK' /\ [Next]_vars => UntilAstray'
<1> SUFFICES ASSUME UntilAstray, TypeOK, TypeOK', [Next]_vars, Straight'
             PROVE  IInv'
  BY DEF UntilAstray
<1>1. IInv
  BY StraightBefore DEF UntilAstray
<1>2. unsent' = 0 /\ misled' = 0
  BY DEF Straight
<1> QED BY <1>1, <1>2, IInvInductive

(* The invariant holds when the tool starts.                               *)
LEMMA IInvInitial ==
  ASSUME Init PROVE IInv
<1>1. /\ sent = <<>> /\ Len(sent) = 0 /\ pc = "idle" /\ verdict = "none"
      /\ unsent = 0 /\ unread = 0 /\ lost = 0 /\ misled = 0
  BY DEF Init
<1>2. Behind = 0 /\ FailedReads = 0
  BY <1>1 DEF Behind, FailedReads
<1>3. Window
  BY <1>2, ConstantsAssumption DEF Window
<1>4. TypeOK
  BY DEF Init, TypeOK, Buffer, Message
<1> QED BY <1>1, <1>3, <1>4 DEF IInv, OwnIsLast, Older, AcceptedIsOwn

(* With at most IdMod - 2 faults (65534 of them), as long as every request *)
(* has been delivered and no left-over report came in under another id,    *)
(* data_trans accepts only the answer to its own request, for any number   *)
(* of operations, any wrap of the id and any other damage to any report.   *)
THEOREM AcceptedIsOwnIfSentHolds ==
  ASSUME MaxFaults + 1 < IdMod
  PROVE  Spec => []AcceptedIsOwnIfSent
<1>1. Init => UntilAstray
  BY IInvInitial DEF UntilAstray
<1>2. UntilAstray /\ TypeOK /\ TypeOK' /\ [Next]_vars => UntilAstray'
  BY UntilAstrayKept
<1>3. UntilAstray => AcceptedIsOwnIfSent
  BY DEF UntilAstray, Straight, IInv, AcceptedIsOwnIfSent
<1> QED BY <1>1, <1>2, <1>3, TypeCorrect, PTL DEF Spec

-----------------------------------------------------------------------------
(* A leftover never goes away without a lost request: it is replaced by    *)
(* the running operation's own answer.                                     *)
Late == Behind > 0

(* An answer that is behind its request is refused.                        *)
LEMMA LateIsRefused ==
  ASSUME IInv, Late PROVE verdict # "ok"
<1>1. Len(sent) \in Nat
  BY LenProperties DEF IInv, TypeOK
<1>2. Len(sent) > 0
  BY <1>1 DEF Late, Behind
<1>3. sent # <<>>
  BY <1>2, EmptySeq
<1> QED BY <1>3 DEF IInv

(* Once a report has been left in the queue, every later answer is behind. *)
LEMMA LateStays ==
  ASSUME IInv, IInv', Late, [Next]_vars
  PROVE  Late'
<1>1. /\ Len(sent) \in Nat /\ Len(sent') \in Nat /\ sent \in Seq(Message)
      /\ answered \in 0 .. Len(sent)
  BY LenProperties DEF IInv, TypeOK
<1>2. CASE Request
  <2>1. /\ NextRequest \in Buffer /\ BridgeTakes(NextRequest)
        /\ pc = "idle" /\ pc' = "reading"
    BY <1>2 DEF Request, NextRequest, IInv, TypeOK, Buffer
  <2>2. Len(sent') = Len(sent) + 1
    BY <1>1, <2>1, TakenAtTheEnd
  <2> QED BY <1>1, <2>1, <2>2 DEF Late, Behind
<1>3. CASE Answer
  BY <1>3 DEF Late, Behind, Answer
<1>4. CASE Receive
  <2>1. pc = "reading" /\ pc' = "idle" /\ answered \in 1 .. Len(sent)
    BY <1>1, <1>4 DEF Receive
  <2>2. Len(sent') = Len(sent) - 1
    BY <1>1, <1>4, <2>1, OldestGone DEF Receive, Arrives
  <2> QED BY <1>1, <2>1, <2>2 DEF Late, Behind
<1>5. CASE ReceiveFails
  <2>1. pc = "reading" /\ pc' = "idle"
    BY <1>5 DEF ReceiveFails
  <2>2. Len(sent') >= Len(sent) - 1
    <3>1. CASE UNCHANGED sent
      BY <1>1, <3>1
    <3>2. CASE answered > 0 /\ sent' = Tail(sent)
      BY <1>1, <3>2, OldestGone
    <3> QED BY <1>5, <3>1, <3>2 DEF ReceiveFails
  <2> QED BY <1>1, <2>1, <2>2 DEF Late, Behind
<1>6. CASE Wait \/ UNCHANGED vars
  BY <1>6 DEF Wait, vars, Late, Behind
<1> QED BY <1>2, <1>3, <1>4, <1>5, <1>6 DEF Next

LateUntilAstray == Straight => Late

(* One report left in the queue, and data_trans refuses every exchange     *)
(* although the link works again, until a request is lost or a left-over  *)
(* report is read under another id than it was sent with.                  *)
THEOREM StaysBehindHolds ==
  ASSUME MaxFaults + 1 < IdMod
  PROVE  Spec => StaysBehind
<1>1. Init => UntilAstray
  BY IInvInitial DEF UntilAstray
<1>2. UntilAstray /\ TypeOK /\ TypeOK' /\ [Next]_vars => UntilAstray'
  BY UntilAstrayKept
<1>3. /\ UntilAstray /\ UntilAstray' /\ TypeOK
      /\ LateUntilAstray /\ [Next]_vars
      => LateUntilAstray'
  BY LateStays, StraightBefore DEF UntilAstray, LateUntilAstray
<1>4. UntilAstray /\ LateUntilAstray
        => (unsent = 0 /\ misled = 0 => verdict # "ok")
  BY LateIsRefused DEF UntilAstray, LateUntilAstray, Straight
<1>5. TypeOK /\ pc = "idle" /\ sent # <<>> => LateUntilAstray
  BY EmptySeq, LenProperties DEF TypeOK, LateUntilAstray, Late, Behind
<1> QED BY <1>1, <1>2, <1>3, <1>4, <1>5, TypeCorrect, PTL DEF Spec, StaysBehind

-----------------------------------------------------------------------------
(* Under every fault: what the bridge holds is what was left over, less    *)
(* what was lost, plus the running operation's own request.                *)
Balance ==
  Len(sent) = unread - unsent + (IF pc = "reading" THEN 1 ELSE 0)

(* Every step keeps the balance of requests and reports.                   *)
LEMMA BalanceKept ==
  ASSUME TypeOK, TypeOK', Balance, [Next]_vars
  PROVE  Balance'
<1>1. /\ Len(sent) \in Nat /\ Len(sent') \in Nat /\ sent \in Seq(Message)
      /\ answered \in 0 .. Len(sent)
      /\ unread \in Nat /\ unsent \in Nat /\ lost \in Nat
  BY LenProperties DEF TypeOK
<1>2. CASE Request
  <2>1. pc = "idle" /\ pc' = "reading" /\ unread' = unread
    BY <1>2 DEF Request
  <2>2. CASE BridgeTakes(NextRequest) /\ UNCHANGED unsent
    <3>1. NextRequest \in Buffer
      BY DEF NextRequest, TypeOK, Buffer
    <3>2. Len(sent') = Len(sent) + 1
      BY <1>1, <2>2, <3>1, TakenAtTheEnd
    <3> QED BY <1>1, <2>1, <2>2, <3>2 DEF Balance
  <2>3. CASE unsent' = unsent + 1 /\ UNCHANGED sent
    BY <1>1, <2>1, <2>3 DEF Balance
  <2> QED BY <1>2, <2>2, <2>3 DEF Request
<1>3. CASE Answer
  BY <1>3 DEF Balance, Answer
<1>4. CASE Receive
  <2>1. /\ pc = "reading" /\ pc' = "idle" /\ answered \in 1 .. Len(sent)
        /\ UNCHANGED <<unread, unsent>>
    BY <1>1, <1>4 DEF Receive
  <2>2. Len(sent') = Len(sent) - 1
    BY <1>1, <1>4, <2>1, OldestGone DEF Receive, Arrives
  <2> QED BY <1>1, <2>1, <2>2 DEF Balance
<1>5. CASE ReceiveFails
  <2>1. pc = "reading" /\ pc' = "idle" /\ unsent' = unsent
    BY <1>5 DEF ReceiveFails
  <2>2. CASE unread' = unread + 1 /\ UNCHANGED sent
    BY <1>1, <2>1, <2>2 DEF Balance
  <2>3. CASE answered > 0 /\ sent' = Tail(sent) /\ UNCHANGED unread
    <3>1. Len(sent') = Len(sent) - 1
      BY <1>1, <2>3, OldestGone
    <3> QED BY <1>1, <2>1, <2>3, <3>1 DEF Balance
  <2> QED BY <1>5, <2>2, <2>3 DEF ReceiveFails
<1>6. CASE Wait \/ UNCHANGED vars
  BY <1>6 DEF Wait, vars, Balance
<1> QED BY <1>2, <1>3, <1>4, <1>5, <1>6 DEF Next

(* Whatever fails, the UI thread can only be stuck in ReadFile with no     *)
(* answer to come when more requests were lost than reports left over.     *)
THEOREM BlocksOnlyWhenOverdrawnHolds == Spec => []BlocksOnlyWhenOverdrawn
<1>1. Init => Balance
  BY DEF Init, Balance
<1>2. TypeOK /\ TypeOK' /\ Balance /\ [Next]_vars => Balance'
  BY BalanceKept
<1>3. TypeOK /\ Balance => BlocksOnlyWhenOverdrawn
  BY DEF TypeOK, Balance, BlocksOnlyWhenOverdrawn
<1> QED BY <1>1, <1>2, <1>3, TypeCorrect, PTL DEF Spec

-----------------------------------------------------------------------------
(* While no call has failed, the queue holds the running request or        *)
(* nothing, and the buffer the answer to the last one.                     *)
InTurn ==
  FailedCalls = 0 =>
    /\ pc = "reading" => sent[1].id = msg_buf.id /\ sent[1].of = n
    /\ pc = "idle" /\ n > 0 =>
         /\ msg_buf.kind = "reply" /\ msg_buf.of = n
         /\ msg_buf.intact => verdict = "ok"

(* Counters that sum to zero are zero.                                     *)
LEMMA NoneOfThree ==
  ASSUME NEW a \in Nat, NEW b \in Nat, NEW c \in Nat, a + b + c = 0
  PROVE  a = 0 /\ b = 0 /\ c = 0
  OBVIOUS

(* Every step keeps it.                                                    *)
LEMMA InTurnKept ==
  ASSUME TypeOK, TypeOK', Balance, InTurn, [Next]_vars
  PROVE  InTurn'
<1>1. /\ Len(sent) \in Nat /\ sent \in Seq(Message) /\ n \in Nat
      /\ answered \in 0 .. Len(sent) /\ msg_buf \in Buffer
      /\ unread \in Nat /\ unsent \in Nat /\ lost \in Nat
      /\ unread' \in Nat /\ unsent' \in Nat /\ lost' \in Nat
  BY LenProperties DEF TypeOK
<1> SUFFICES ASSUME FailedCalls' = 0 PROVE InTurn'
  BY DEF InTurn
<1>2. unsent' = 0 /\ unread' = 0 /\ lost' = 0
  <2>1. unsent' + unread' + lost' = 0
    BY DEF FailedCalls
  <2> QED BY <1>1, <2>1, NoneOfThree
<1>3. CASE Request
  <2>1. /\ pc = "idle" /\ pc' = "reading" /\ n' = n + 1
        /\ msg_buf' = NextRequest /\ UNCHANGED <<unread, lost>>
    BY <1>3 DEF Request
  <2>2. unsent = 0 /\ BridgeTakes(NextRequest)
    BY <1>1, <1>2, <1>3 DEF Request
  <2>3. NextRequest \in Buffer /\ NextRequest.of = n + 1
    BY <1>1 DEF NextRequest, Buffer
  <2>4. Len(sent) = 0
    BY <1>2, <2>1, <2>2 DEF Balance
  <2>5. sent'[1].id = NextRequest.id /\ sent'[1].of = n + 1
    BY <1>1, <2>2, <2>3, <2>4, TakenAtTheEnd
  <2> QED BY <2>1, <2>5 DEF InTurn
<1>4. CASE Answer
  BY <1>4 DEF Answer, InTurn, FailedCalls
<1>5. CASE Receive
  <2>1. PICK report \in Reports : Arrives(report)
    BY <1>5 DEF Receive
  <2>2. /\ pc = "reading" /\ pc' = "idle"
        /\ msg_buf' = report
        /\ verdict' = BufferVerdict(msg_buf.id, report)
        /\ UNCHANGED <<n, unsent, unread, lost>>
    BY <1>5, <2>1 DEF Receive, Arrives
  <2>3. sent[1].id = msg_buf.id /\ sent[1].of = n
    BY <1>2, <2>2 DEF InTurn, FailedCalls
  <2>4. answered \in 1 .. Len(sent)
    BY <1>1, <1>5 DEF Receive
  <2>5. /\ report.kind = "reply" /\ report.of = n
        /\ report.intact => report.id = msg_buf.id + 1
    BY <1>1, <2>3, <2>4, ReportRead
  <2>6. report.intact => verdict' = "ok"
    BY <2>2, <2>5 DEF BufferVerdict
  <2> QED BY <2>2, <2>5, <2>6 DEF InTurn
<1>6. CASE ReceiveFails
  BY <1>1, <1>2, <1>6 DEF ReceiveFails
<1>7. CASE Wait \/ UNCHANGED vars
  BY <1>7 DEF Wait, vars, InTurn, FailedCalls
<1> QED BY <1>3, <1>4, <1>5, <1>6, <1>7 DEF Next

(* Until a call fails, data_trans leaves the exchange's own answer in      *)
(* msg_buf, and passes it unless it was damaged.                           *)
THEOREM DeliveredIsOwnHolds == Spec => []DeliveredIsOwn
<1>1. Init => Balance /\ InTurn
  BY DEF Init, Balance, InTurn
<1>2. TypeOK /\ TypeOK' /\ Balance /\ [Next]_vars => Balance'
  BY BalanceKept
<1>3. TypeOK /\ TypeOK' /\ Balance /\ InTurn /\ [Next]_vars => InTurn'
  BY InTurnKept
<1>4. InTurn => DeliveredIsOwn
  BY DEF InTurn, DeliveredIsOwn
<1> QED BY <1>1, <1>2, <1>3, <1>4, TypeCorrect, PTL DEF Spec
=============================================================================
