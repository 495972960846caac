---------------------------- MODULE Session_proofs ----------------------------
(***************************************************************************)
(* The session implements both of its parts: the queue between tool and    *)
(* bridge does what UsbExchange does, and the window and the target do     *)
(* what Buttons does under some choice of failed exchanges.  The theorems  *)
(* of both therefore hold of it, and together they give the one about      *)
(* handlers that would ask data_trans.                                     *)
(***************************************************************************)
EXTENDS Session, UsbExchange_proofs

(* Buttons once more, with its theorems.                                   *)
P == INSTANCE Buttons_proofs WITH
       pc <- handler, verdict <- printed, lost <- missed,
       Faults <- {"unsent", "unread", "wrong", "stale"},
       MaxFaults <- MaxExchanges

Hows == {"done"} \union {"unsent", "unread", "wrong", "stale"}

(* The two instances are one: they have the same initial states, *)
LEMMA SameInit == B!Init <=> P!Init
BY DEF B!Init, P!Init, B!Handlers, P!Handlers, B!Checks, P!Checks,
       B!Answers, P!Answers

(* ... the same scripts and the same target, *)
LEMMA SameScripts ==
  /\ B!Handlers = P!Handlers /\ B!Checks = P!Checks /\ B!Values = P!Values
  /\ \A b \in B!Handlers : B!Script(b) = P!Script(b)
  /\ \A r : B!TargetReads(r) = P!TargetReads(r)
BY DEF B!Handlers, P!Handlers, B!Checks, P!Checks, B!Values, P!Values,
       B!Script, P!Script, B!CheckScript, P!CheckScript, B!HaltScript,
       P!HaltScript, B!ResetScript, P!ResetScript, B!Do, P!Do, B!Look, P!Look,
       B!TargetReads, P!TargetReads, B!Answers, P!Answers, B!Unlocked,
       P!Unlocked

(* ... the same steps, *)
LEMMA SameNext == B!Next <=> P!Next
BY DEF B!Next, P!Next, B!Press, P!Press, B!mem_read, P!mem_read,
       B!mem_write, P!mem_write, B!i2c_check, P!i2c_check,
       B!mcu_reset_halt, P!mcu_reset_halt, B!sys_reset, P!sys_reset,
       B!Swap, P!Swap, B!Handle, P!Handle, B!Onward, P!Onward,
       B!Exchange, P!Exchange, B!Acted, P!Acted, B!Got, P!Got,
       B!TargetActs, P!TargetActs, B!TargetReads, P!TargetReads,
       B!Answers, P!Answers, B!Unlocked, P!Unlocked, B!target, P!target,
       B!history, P!history,
       B!Handlers, P!Handlers, B!Checks, P!Checks, B!Values, P!Values,
       B!Script, P!Script, B!CheckScript, P!CheckScript, B!HaltScript,
       P!HaltScript, B!ResetScript, P!ResetScript, B!Do, P!Do, B!Look, P!Look

(* ... over the same variables, *)
LEMMA SameVars == B!vars = P!vars
BY DEF B!vars, P!vars, B!target, P!target, B!history, P!history

(* ... and what the session says of them is what Buttons says.            *)
LEMMA SameProperties ==
  /\ B!TypeOK <=> P!TypeOK
  /\ CheckMeansUnlocked <=> P!CheckMeansUnlocked
  /\ HaltMeansHalted <=> P!HaltMeansHalted
  /\ OneLossIsNoticed <=> P!OneLossIsNoticed
  /\ CleanPasses <=> P!CleanPasses
BY DEF CheckMeansUnlocked, HaltMeansHalted, OneLossIsNoticed, CleanPasses,
       B!CheckMeansUnlocked, B!HaltMeansHalted, B!OneLossIsNoticed,
       B!CleanPasses, P!CheckMeansUnlocked, P!HaltMeansHalted,
       P!OneLossIsNoticed, P!CleanPasses, B!Passed, P!Passed, B!Unlocked,
       P!Unlocked, B!Answers, P!Answers, B!TypeOK, P!TypeOK,
       B!Handlers, P!Handlers, B!Checks, P!Checks, B!Values, P!Values,
       B!Script, P!Script, B!CheckScript, P!CheckScript, B!HaltScript,
       P!HaltScript, B!ResetScript, P!ResetScript, B!Do, P!Do, B!Look, P!Look

-----------------------------------------------------------------------------
(* Every step of the session is a step of the queue, or leaves it alone.   *)
LEMMA LinkStep == [SessionNext]_sessionVars => [Next]_vars
<1> SUFFICES ASSUME [SessionNext]_sessionVars PROVE [Next]_vars
  OBVIOUS
<1>1. ASSUME NEW b \in B!Handlers, Press(b) PROVE UNCHANGED vars
  BY <1>1 DEF Press
<1>2. CASE Send
  BY <1>2 DEF Send, Next
<1>3. CASE Reported
  BY <1>3 DEF Reported, Next
<1>4. CASE Read
  BY <1>4 DEF Read, Next
<1>5. CASE ReadFails
  BY <1>5 DEF ReadFails, Next
<1>6. CASE Swap
  BY <1>6 DEF Swap
<1>7. CASE Rest \/ UNCHANGED sessionVars
  BY <1>7 DEF Rest, sessionVars
<1> QED BY <1>1, <1>2, <1>3, <1>4, <1>5, <1>6, <1>7 DEF SessionNext

(* The session implements the queue of UsbExchange.                        *)
THEOREM ImplementsLink == SessionSpec => Spec
<1>1. SessionInit => Init
  BY DEF SessionInit
<1> QED BY <1>1, LinkStep, PTL DEF SessionSpec, Spec

-----------------------------------------------------------------------------
Carried == B!Values \union {"any"}

(* One if the queue holds the running exchange's own request.              *)
Own == IF pc = "reading" /\ delivered THEN 1 ELSE 0

(* words has an entry for every report that was left over, and those are   *)
(* of earlier exchanges than the running one.                              *)
Queue ==
  /\ delivered \in BOOLEAN
  /\ words \in Seq(Carried) /\ Len(words) = Len(sent) - Own
  /\ \A i \in 1 .. Len(sent) : sent[i].of <= n
  /\ pc = "reading" => \A i \in 1 .. Len(sent) - Own : sent[i].of < n

(* What the steps start from.                                              *)
J == TypeOK /\ Queue /\ P!IInv

(* A handler that runs is at an entry of its script.                       *)
LEMMA AtEntry ==
  ASSUME P!IInv
  PROVE  /\ button \in B!Handlers
         /\ \/ \E r \in {"power", "enable", "key", "halt", "reset", "word"} :
                 Entry = P!Do(r)
            \/ \E r \in {"key", "ctrl", "word"}, w \in SUBSET P!Values :
                 Entry = P!Look(r, w)
<1>1. button \in P!Handlers /\ k \in 0 .. Len(P!Script(button)) - 1
  BY DEF P!IInv, P!TypeOK
<1>2. Len(P!Script(button)) \in {1, 4, 5, 8}
  BY <1>1, P!ScriptLengths DEF P!Handlers, P!Checks
<1>3. k + 1 \in 1 .. Len(P!Script(button))
  BY <1>1, <1>2
<1>4. Entry = P!Script(button)[k + 1]
  BY <1>1, SameScripts DEF Entry
<1> QED BY <1>1, <1>3, <1>4, SameScripts, P!Entries

(* The bridge's reply to it is one of the words.                           *)
LEMMA RepliesType ==
  ASSUME P!IInv, NEW reply \in Replies
  PROVE  reply \in Carried /\ (Entry.do = "read" => reply \in B!Values)
<1>1. CASE \E r \in {"power", "enable", "key", "halt", "reset", "word"} :
             Entry = P!Do(r)
  <2>1. Entry.do = "write"
    BY <1>1 DEF P!Do
  <2> QED BY <2>1 DEF Replies, Carried
<1>2. CASE \E r \in {"key", "ctrl", "word"}, w \in SUBSET P!Values :
             Entry = P!Look(r, w)
  <2>1. PICK r \in {"key", "ctrl", "word"} : \E w \in SUBSET P!Values :
          Entry = P!Look(r, w)
    BY <1>2
  <2>2. Entry.do = "read" /\ Entry.reg = r
    BY <2>1 DEF P!Look
  <2>3. reply \in P!TargetReads(r)
    BY <2>2, SameScripts DEF Replies
  <2>4. P!TypeOK
    BY DEF P!IInv
  <2>5. reply \in P!Values
    BY <2>3, <2>4 DEF P!TargetReads, P!Values, P!TypeOK
  <2> QED BY <2>5, SameScripts DEF Carried
<1> QED BY <1>1, <1>2, AtEntry

(* The queue with the running exchange's reply.                            *)
LEMMA OwedType ==
  ASSUME J, pc = "reading", NEW reply \in Replies
  PROVE  /\ Owed(reply) \in Seq(Carried)
         /\ Len(Owed(reply)) = Len(sent)
         /\ delivered /\ Len(sent) = 1 => Owed(reply) = <<reply>>
<1>1. reply \in Carried
  BY RepliesType DEF J
<1>2. /\ words \in Seq(Carried) /\ Len(words) \in Nat /\ Len(sent) \in Nat
      /\ Len(words) = Len(sent) - Own
  BY LenProperties DEF J, Queue, TypeOK
<1>3. CASE delivered
  <2>1. Own = 1 /\ Owed(reply) = Append(words, reply)
    BY <1>3 DEF Own, Owed
  <2>2. Append(words, reply) \in Seq(Carried)
        /\ Len(Append(words, reply)) = Len(words) + 1
    BY <1>1, <1>2, AppendProperties
  <2>3. ASSUME Len(sent) = 1 PROVE Append(words, reply) = <<reply>>
    <3>1. Len(words) = 0
      BY <1>2, <2>1, <2>3
    <3>2. words = <<>>
      BY <1>2, <3>1, EmptySeq
    <3> QED BY <3>2
  <2> QED BY <1>2, <2>1, <2>2, <2>3
<1>4. CASE ~ delivered
  BY <1>2, <1>4 DEF Own, Owed
<1> QED BY <1>3, <1>4

(* The same, read or not.                                                  *)
LEMMA OwedTail ==
  ASSUME J, pc = "reading", Len(sent) > 0, NEW reply \in Replies
  PROVE  /\ Head(Owed(reply)) \in Carried
         /\ Tail(Owed(reply)) \in Seq(Carried)
         /\ Len(Tail(Owed(reply))) = Len(sent) - 1
<1>1. Owed(reply) \in Seq(Carried) /\ Len(Owed(reply)) = Len(sent)
  BY OwedType
<1>2. Owed(reply) # <<>>
  BY <1>1, EmptySeq
<1> QED BY <1>1, <1>2, HeadTailProperties

-----------------------------------------------------------------------------
(* An exchange that ends, as one of Buttons.                               *)
LEMMA Ends ==
  ASSUME P!IInv, handler = "busy", NEW how \in Hows, NEW got,
         B!Exchange(Entry, how, got), B!Onward(button),
         Entry.do = "read" => got \subseteq B!Got(Entry.reg, how)
  PROVE  B!Next
<1>1. B!Exchange(Entry, how, B!Got(Entry.reg, how))
  BY DEF B!Exchange
<1>2. B!Handle(button)
  BY <1>1 DEF B!Handle, Entry, Hows
<1>3. button \in B!Handlers
  BY AtEntry
<1> QED
  BY <1>2, <1>3
  DEF B!Next, B!Handlers, B!Checks, B!mem_read, B!mem_write, B!i2c_check,
      B!mcu_reset_halt, B!sys_reset

(* What an exchange that got another's reply, or a damaged one, returns.   *)
LEMMA SaidType ==
  ASSUME NEW reply \in Carried, NEW intact
  PROVE  Said(reply, intact) \subseteq B!Values
BY DEF Said, Carried

(* The only report that belongs to the running exchange is its own.        *)
LEMMA OwnIsAlone ==
  ASSUME J, pc = "reading", delivered, answered > 0, Head(sent).of = n
  PROVE  Len(sent) = 1
<1>1. sent \in Seq(Message) /\ Len(sent) \in Nat /\ answered \in 1 .. Len(sent)
  BY LenProperties DEF J, TypeOK
<1>2. Head(sent) = sent[1]
  BY <1>1, OldestGone
<1>3. Own = 1 /\ n \in Nat
  BY DEF Own, J, TypeOK
<1>4. \A i \in 1 .. Len(sent) - 1 : sent[i].of < n
  BY <1>3 DEF J, Queue
<1>5. ~ (sent[1].of < n)
  BY <1>2, <1>3
<1>6. Len(sent) >= 1
  BY <1>1
<1>7. ASSUME Len(sent) # 1 PROVE FALSE
  <2>1. 1 \in 1 .. Len(sent) - 1
    <3>1. \A l \in Nat : l >= 1 /\ l # 1 => 1 \in 1 .. l - 1
      OBVIOUS
    <3> QED BY <1>1, <1>6, <1>7, <3>1
  <2> QED BY <1>4, <1>5, <2>1
<1> QED BY <1>7

(* Reading a report.                                                       *)
LEMMA ReadEnds == J /\ Read => B!Next
<1> SUFFICES ASSUME J, Read PROVE B!Next
  OBVIOUS
<1>0. PICK report \in Reports : Arrives(report)
  BY DEF Read, Receive
<1>1. /\ handler = "busy" /\ pc = "reading" /\ answered > 0
      /\ msg_buf' = report
  BY <1>0 DEF Read, Receive, Arrives
<1>2. PICK reply \in Replies :
        Ended(IF ~ delivered THEN "stale"
              ELSE IF msg_buf'.of = n /\ msg_buf'.intact THEN "done"
              ELSE "wrong",
              Said(Head(Owed(reply)), msg_buf'.intact), Tail(Owed(reply)))
  BY DEF Read
<1> DEFINE how == IF ~ delivered THEN "stale"
                  ELSE IF msg_buf'.of = n /\ msg_buf'.intact THEN "done"
                  ELSE "wrong"
           got == Said(Head(Owed(reply)), msg_buf'.intact)
<1>3. B!Exchange(Entry, how, got) /\ B!Onward(button)
  BY <1>2 DEF Ended
<1>4. how \in Hows
  BY DEF Hows
<1>5. Len(sent) > 0
  BY <1>1, LenProperties DEF J, TypeOK
<1>6. Head(Owed(reply)) \in Carried
  BY <1>1, <1>5, OwedTail
<1>7. ASSUME Entry.do = "read" PROVE got \subseteq B!Got(Entry.reg, how)
  <2>1. CASE how = "done"
    <3>1. delivered /\ Head(sent).of = n /\ msg_buf'.intact
      <4>1. sent \in Seq(Message) /\ answered \in 1 .. Len(sent)
        BY <1>1, LenProperties DEF J, TypeOK
      <4>2. report.of = Head(sent).of
        BY <4>1, ReportRead, OldestGone
      <4> QED BY <1>1, <2>1, <4>2
    <3>2. Owed(reply) = <<reply>>
      BY <1>1, <3>1, OwnIsAlone, OwedType
    <3>3. reply \in B!TargetReads(Entry.reg)
      BY <1>7 DEF Replies
    <3>4. reply # "any"
      BY <1>7, RepliesType DEF J, B!Values
    <3>5. Head(Owed(reply)) = reply
      BY <3>2
    <3>6. got = {reply}
      BY <3>1, <3>4, <3>5 DEF Said
    <3> QED BY <2>1, <3>3, <3>6 DEF B!Got
  <2>2. CASE how \in {"wrong", "stale"}
    <3>1. B!Got(Entry.reg, how) = B!Values
      BY <2>2 DEF B!Got
    <3> QED BY <1>6, <3>1, SaidType
  <2> QED BY <2>1, <2>2
<1> HIDE DEF how, got
<1> QED BY <1>1, <1>3, <1>4, <1>7, Ends DEF J

(* A ReadFile that fails.                                                  *)
LEMMA ReadFailsEnds == J /\ ReadFails => B!Next
<1> SUFFICES ASSUME J, ReadFails PROVE B!Next
  OBVIOUS
<1> DEFINE how == IF delivered THEN "unread" ELSE "unsent"
<1>1. handler = "busy" /\ B!Exchange(Entry, how, {"0"}) /\ B!Onward(button)
  BY DEF ReadFails, Ended
<1>2. how \in Hows /\ {"0"} \subseteq B!Got(Entry.reg, how)
  BY DEF Hows, B!Got
<1> HIDE DEF how
<1> QED BY <1>1, <1>2, Ends DEF J

(* Every step of the session is a step of the buttons, or leaves them      *)
(* alone.                                                                  *)
LEMMA ButtonsStep == J /\ [SessionNext]_sessionVars => [B!Next]_(B!vars)
<1> SUFFICES ASSUME J, [SessionNext]_sessionVars PROVE [B!Next]_(B!vars)
  OBVIOUS
<1>1. ASSUME NEW b \in B!Handlers, Press(b) PROVE B!Next
  BY <1>1 DEF Press, B!Next
<1>2. CASE Send \/ Reported
  BY <1>2 DEF Send, Reported, window, B!vars, B!target, B!history
<1>3. CASE Read
  BY <1>3, ReadEnds
<1>4. CASE ReadFails
  BY <1>4, ReadFailsEnds
<1>5. CASE Swap
  BY <1>5 DEF Swap, B!Next
<1>6. CASE Rest \/ UNCHANGED sessionVars
  BY <1>6 DEF Rest, sessionVars, window, B!vars, B!target, B!history
<1> QED BY <1>1, <1>2, <1>3, <1>4, <1>5, <1>6 DEF SessionNext

-----------------------------------------------------------------------------
(* Leftovers stay leftovers.                                               *)
LEMMA QueueKept == J /\ TypeOK' /\ [SessionNext]_sessionVars => Queue'
<1> SUFFICES ASSUME J, TypeOK', [SessionNext]_sessionVars PROVE Queue'
  OBVIOUS
<1>1. /\ sent \in Seq(Message) /\ Len(sent) \in Nat /\ n \in Nat
      /\ answered \in 0 .. Len(sent) /\ unsent \in Nat
  BY LenProperties DEF J, TypeOK
<1>2. Queue
  BY DEF J
<1>9. \A i \in 1 .. Len(sent) : sent[i].of \in Nat
  <2> SUFFICES ASSUME NEW i \in 1 .. Len(sent) PROVE sent[i].of \in Nat
    OBVIOUS
  <2>1. sent[i] \in Message
    BY <1>1, ElementOfSeq
  <2> QED BY <2>1 DEF Message
<1>3. CASE UNCHANGED <<vars, delivered, words>>
  BY <1>2, <1>3 DEF Queue, Own, vars
<1>4. CASE Send
  <2>1. /\ pc = "idle" /\ pc' = "reading" /\ n' = n + 1 /\ words' = words
        /\ delivered' = (unsent' = unsent)
    BY <1>4 DEF Send, Request
  <2>2. Own = 0
    BY <2>1 DEF Own
  <2>3. CASE BridgeTakes(NextRequest) /\ UNCHANGED unsent
    <3>1. NextRequest \in Buffer /\ NextRequest.of = n + 1
      BY DEF NextRequest, J, TypeOK, Buffer
    <3>2. /\ Len(sent') = Len(sent) + 1
          /\ \A i \in 1 .. Len(sent) : sent'[i] = sent[i]
          /\ sent'[Len(sent')].of = n + 1
      BY <1>1, <2>3, <3>1, TakenAtTheEnd
    <3>3. delivered' = TRUE /\ Own' = 1
      BY <2>1, <2>3 DEF Own
    <3>4. \A i \in 1 .. Len(sent) : sent'[i].of <= n
      BY <1>2, <3>2 DEF Queue
    <3>5. \A i \in 1 .. Len(sent') : i \in 1 .. Len(sent) \/ i = Len(sent')
      BY <1>1, <3>2
    <3>6. \A i \in 1 .. Len(sent) : sent'[i].of \in Nat
      BY <1>9, <3>2
    <3>7. \A i \in 1 .. Len(sent) : sent'[i].of < n' /\ sent'[i].of <= n'
      BY <1>1, <2>1, <3>4, <3>6
    <3>8. Len(sent') - Own' = Len(sent)
      BY <1>1, <3>2, <3>3
    <3>9. \A i \in 1 .. Len(sent') : sent'[i].of <= n'
      BY <1>1, <2>1, <3>2, <3>5, <3>7
    <3> QED BY <1>1, <1>2, <2>1, <2>2, <3>3, <3>7, <3>8, <3>9 DEF Queue
  <2>4. CASE unsent' = unsent + 1 /\ UNCHANGED sent
    <3>1. ~ (unsent' = unsent)
      BY <1>1, <2>4
    <3>2. delivered' = FALSE /\ Own' = 0
      BY <2>1, <3>1 DEF Own
    <3>3. \A i \in 1 .. Len(sent) : sent[i].of \in Nat /\ sent[i].of <= n
      BY <1>2, <1>9 DEF Queue
    <3>4. \A i \in 1 .. Len(sent) : sent[i].of < n' /\ sent[i].of <= n'
      BY <1>1, <2>1, <3>3
    <3> QED BY <1>1, <1>2, <2>1, <2>2, <2>4, <3>2, <3>4 DEF Queue
  <2> QED BY <1>4, <2>3, <2>4 DEF Send, Request
<1>5. CASE Reported
  <2>1. Answer /\ UNCHANGED <<pc, sent, n, delivered, words>>
    BY <1>5 DEF Reported, Answer
  <2> QED BY <1>2, <2>1 DEF Queue, Own
<1>6. CASE Read \/ ReadFails
  <2>1. /\ pc = "reading" /\ pc' = "idle" /\ n' = n /\ delivered' = delivered
    BY <1>6 DEF Read, ReadFails, Receive, ReceiveFails, Ended
  <2>2. PICK reply \in Replies :
          \/ /\ words' = Tail(Owed(reply)) /\ sent' = Tail(sent) /\ answered > 0
          \/ /\ words' = Owed(reply) /\ sent' = sent
    <3>1. CASE Read
      <4>1. PICK reply \in Replies : words' = Tail(Owed(reply))
        BY <3>1 DEF Read, Ended
      <4> QED BY <3>1, <4>1 DEF Read, Receive, Arrives
    <3>2. CASE ReadFails
      <4>1. PICK reply \in Replies :
              words' = IF sent' = sent THEN Owed(reply) ELSE Tail(Owed(reply))
        BY <3>2 DEF ReadFails, Ended
      <4>2. CASE sent' = sent
        BY <4>1, <4>2
      <4>3. CASE sent' # sent
        BY <3>2, <4>1, <4>3 DEF ReadFails, ReceiveFails
      <4> QED BY <4>2, <4>3
    <3> QED BY <1>6, <3>1, <3>2
  <2>3. Own' = 0
    BY <2>1 DEF Own
  <2>4. CASE words' = Tail(Owed(reply)) /\ sent' = Tail(sent) /\ answered > 0
    <3>1. Len(sent) > 0 /\ answered \in 1 .. Len(sent)
      BY <1>1, <2>4
    <3>2. /\ Len(sent') = Len(sent) - 1
          /\ \A i \in 1 .. Len(sent) - 1 : sent'[i] = sent[i + 1]
      BY <1>1, <2>4, <3>1, OldestGone
    <3>3. words' \in Seq(Carried) /\ Len(words') = Len(sent) - 1
      BY <2>1, <2>4, <3>1, OwedTail
    <3>4. \A i \in 1 .. Len(sent) - 1 : i + 1 \in 1 .. Len(sent)
      BY <1>1
    <3>5. \A i \in 1 .. Len(sent') : sent'[i].of <= n'
      BY <1>1, <1>2, <2>1, <3>2, <3>4 DEF Queue
    <3> QED BY <1>1, <1>2, <2>1, <2>3, <3>2, <3>3, <3>5 DEF Queue
  <2>5. CASE words' = Owed(reply) /\ sent' = sent
    <3>1. words' \in Seq(Carried) /\ Len(words') = Len(sent')
      BY <2>1, <2>5, OwedType
    <3> QED BY <1>1, <1>2, <2>1, <2>3, <2>5, <3>1 DEF Queue
  <2> QED BY <2>2, <2>4, <2>5
<1>7. ASSUME NEW b \in B!Handlers, Press(b)
      PROVE  UNCHANGED <<vars, delivered, words>>
  BY <1>7 DEF Press
<1>8. CASE Swap \/ Rest \/ UNCHANGED sessionVars
  BY <1>3, <1>8 DEF Swap, Rest, sessionVars
<1> QED BY <1>3, <1>4, <1>5, <1>6, <1>7, <1>8 DEF SessionNext

(* What all of the session relies on.                                      *)
THEOREM JHolds == SessionSpec => []J
<1>1. SessionSpec => []TypeOK
  BY ImplementsLink, TypeCorrect, PTL
<1>2. SessionInit => Queue /\ P!IInv
  <2>1. SessionInit => P!IInv
    BY SameInit, P!InitHolds DEF SessionInit
  <2>2. SessionInit => Queue
    <3> SUFFICES ASSUME SessionInit PROVE Queue
      OBVIOUS
    <3>1. /\ pc = "idle" /\ sent = <<>> /\ words = <<>> /\ delivered = FALSE
      BY DEF SessionInit, Init
    <3>2. Own = 0 /\ Len(sent) = 0 /\ words \in Seq(Carried)
      BY <3>1, EmptySeq DEF Own
    <3>3. ~ (pc = "reading") /\ delivered \in BOOLEAN
      BY <3>1
    <3>4. \A i \in 1 .. Len(sent) : sent[i].of <= n
      BY <3>2
    <3>5. Len(words) = Len(sent) - Own
      BY <3>1, <3>2
    <3> QED BY <3>2, <3>3, <3>4, <3>5 DEF Queue
  <2> QED BY <2>1, <2>2
<1>3. TypeOK /\ TypeOK' /\ Queue /\ P!IInv /\ [SessionNext]_sessionVars
        => Queue' /\ P!IInv'
  <2> SUFFICES ASSUME J, TypeOK', [SessionNext]_sessionVars
               PROVE  Queue' /\ P!IInv'
    BY DEF J
  <2>1. [P!Next]_(P!vars)
    <3>1. [B!Next]_(B!vars)
      BY ButtonsStep
    <3>2. CASE B!Next
      BY <3>2, SameNext
    <3>3. CASE UNCHANGED B!vars
      BY <3>3 DEF B!vars, B!target, B!history, P!vars, P!target, P!history
    <3> QED BY <3>1, <3>2, <3>3
  <2>2. P!IInv'
    BY <2>1, P!EveryStep DEF J
  <2> QED BY <2>2, QueueKept
<1>4. SessionSpec => [](TypeOK /\ Queue /\ P!IInv)
  BY <1>1, <1>2, <1>3, PTL DEF SessionSpec
<1>5. TypeOK /\ Queue /\ P!IInv => J
  BY DEF J
<1> QED BY <1>4, <1>5, PTL

(* The session implements the buttons: what the queue and its faults do to *)
(* a press is what Buttons lets failed exchanges do.                       *)
THEOREM ImplementsButtons == SessionSpec => ButtonsSpec
<1>1. SessionInit => B!Init
  BY DEF SessionInit
<1>2. J /\ [SessionNext]_sessionVars => [B!Next]_(B!vars)
  BY ButtonsStep
<1>3. SessionSpec => B!Init /\ [][B!Next]_(B!vars)
  BY <1>1, <1>2, JHolds, PTL DEF SessionSpec
<1> QED BY <1>3 DEF ButtonsSpec, B!Spec

-----------------------------------------------------------------------------
(* refused counts.                                                         *)
Counts == refused \in Nat

(* It does.                                                                *)
LEMMA CountsKept == Counts /\ [SessionNext]_sessionVars => Counts'
<1> SUFFICES ASSUME Counts, [SessionNext]_sessionVars PROVE Counts'
  OBVIOUS
<1>1. ASSUME NEW b \in B!Handlers, Press(b) PROVE Counts'
  BY <1>1 DEF Press, Counts
<1>2. CASE Send \/ Reported \/ Swap \/ Rest \/ UNCHANGED sessionVars
  BY <1>2 DEF Send, Reported, Swap, Rest, sessionVars, Counts
<1>3. CASE Read \/ ReadFails
  <2>1. refused' = refused + (IF verdict' = "ok" THEN 0 ELSE 1)
    BY <1>3 DEF Read, ReadFails, Ended
  <2> QED BY <2>1 DEF Counts
<1> QED BY <1>1, <1>2, <1>3 DEF SessionNext

(* The types of the session's state.                                       *)
THEOREM SessionTypeCorrect == SessionSpec => []SessionTypeOK
<1>1. SessionInit => Counts
  BY DEF SessionInit, Counts
<1>2. J /\ Counts => SessionTypeOK
  <2> SUFFICES ASSUME J, Counts PROVE SessionTypeOK
    OBVIOUS
  <2>1. B!TypeOK
    BY SameProperties DEF J, P!IInv
  <2>2. Queue
    BY DEF J
  <2>3. TypeOK
    BY DEF J
  <2> QED BY <2>1, <2>2, <2>3 DEF SessionTypeOK, Queue, Own, Carried, Counts
<1> QED BY <1>1, <1>2, CountsKept, JHolds, PTL DEF SessionSpec

(* "i2c check pass" whose reads were answered, on a target that is there,  *)
(* powered and unlocked: over the queue as over exchanges that fail freely.*)
THEOREM SessionCheckMeansUnlocked == SessionSpec => []CheckMeansUnlocked
<1>1. J => CheckMeansUnlocked
  BY SameProperties DEF J, P!IInv
<1> QED BY <1>1, JHolds, PTL

(* "mcu reset & halt pass", likewise, and a processor that is halted.      *)
THEOREM SessionHaltMeansHalted == SessionSpec => []HaltMeansHalted
<1>1. J => HaltMeansHalted
  BY SameProperties DEF J, P!IInv
<1> QED BY <1>1, JHolds, PTL

(* One lost exchange does not make sys_reset pass without a reset.         *)
THEOREM SessionOneLossIsNoticed == SessionSpec => []OneLossIsNoticed
<1>1. J => OneLossIsNoticed
  BY SameProperties DEF J, P!IInv
<1> QED BY <1>1, JHolds, PTL

(* Without failed exchanges the check buttons pass and do their work.      *)
THEOREM SessionCleanPasses == SessionSpec => []CleanPasses
<1>1. J => CleanPasses
  BY SameProperties DEF J, P!IInv
<1> QED BY <1>1, JHolds, PTL

-----------------------------------------------------------------------------
(* As long as no request was lost and no left-over report misread, an      *)
(* exchange that data_trans has passed is one that Buttons calls "done";   *)
(* so a press none of whose exchanges it refused has missed nothing.       *)
Heeded ==
  /\ unsent = 0 /\ pc = "reading" => delivered
  /\ Straight /\ refused = 0 => missed = 0 /\ ~ unheard

(* An exchange that went well adds nothing to what was missed.             *)
LEMMA DoneMissesNothing ==
  ASSUME NEW got, B!Exchange(Entry, "done", got), ~ unheard
  PROVE  missed' = missed /\ ~ unheard'
BY DEF B!Exchange

(* A report that data_trans passes is the answer to the exchange's own     *)
(* request, and undamaged.                                                 *)
LEMMA PassedIsDone ==
  ASSUME AcceptedIsOwnIfSent', Read, Straight', verdict' = "ok"
  PROVE  msg_buf'.of = n /\ msg_buf'.intact
<1>0. PICK report \in Reports : Arrives(report)
  BY DEF Read, Receive
<1>1. /\ n' = n /\ msg_buf' = report
      /\ verdict' = BufferVerdict(msg_buf.id, report)
  BY <1>0 DEF Read, Receive, Arrives
<1>2. msg_buf'.of = n
  BY <1>1 DEF AcceptedIsOwnIfSent, AcceptedIsOwn, Straight
<1>3. msg_buf'.intact
  BY <1>1 DEF BufferVerdict
<1> QED BY <1>2, <1>3

(* A read that fails leaves the request in msg_buf, which data_trans does  *)
(* not take for an answer.                                                 *)
LEMMA FailedIsRefused ==
  ASSUME TypeOK, ReadFails PROVE verdict' # "ok"
<1>1. verdict' = BufferVerdict(msg_buf.id, msg_buf)
  BY DEF ReadFails, ReceiveFails
<1>2. msg_buf.id \in Nat
  BY DEF TypeOK, Buffer
<1>3. Wrap(msg_buf.id) # Wrap(msg_buf.id + 1)
  BY <1>2, WrapApart, ConstantsAssumption
<1> QED BY <1>1, <1>3 DEF BufferVerdict

(* Every step keeps it.                                                    *)
LEMMA HeededKept ==
  J /\ Counts /\ AcceptedIsOwnIfSent' /\ TypeOK' /\ Heeded
    /\ [SessionNext]_sessionVars => Heeded'
<1> SUFFICES ASSUME J, Counts, AcceptedIsOwnIfSent', TypeOK', Heeded,
                    [SessionNext]_sessionVars
             PROVE  Heeded'
  OBVIOUS
<1>0. unsent \in Nat /\ unsent' \in Nat /\ refused \in Nat
  BY DEF J, TypeOK, Counts
<1>9. Straight' => Straight
  BY LinkStep, StraightBefore DEF J
<1>1. ASSUME NEW b \in B!Handlers, Press(b) PROVE Heeded'
  <2>1. UNCHANGED <<unsent, pc, delivered>>
    BY <1>1 DEF Press, vars
  <2>2. missed' = 0 /\ ~ unheard'
    BY <1>1 DEF Press, B!Press
  <2> QED BY <2>1, <2>2 DEF Heeded
<1>2. CASE Send
  <2>1. UNCHANGED <<missed, unheard, refused>> /\ delivered' = (unsent' = unsent)
    BY <1>2 DEF Send, window
  <2>2. unsent' = unsent \/ unsent' = unsent + 1
    BY <1>2 DEF Send, Request
  <2>3. ASSUME unsent' = 0 PROVE unsent = 0
    BY <1>0, <2>2, <2>3
  <2>4. unsent' = 0 => delivered'
    BY <2>1, <2>3
  <2> QED BY <1>9, <2>1, <2>3, <2>4 DEF Heeded
<1>3. CASE Reported
  <2>1. UNCHANGED <<unsent, pc, delivered, missed, unheard, refused>>
    BY <1>3 DEF Reported, Answer, window
  <2> QED BY <1>9, <2>1 DEF Heeded
<1>4. CASE Read
  <2>1. /\ pc = "reading" /\ pc' = "idle" /\ unsent' = unsent
        /\ refused' = refused + (IF verdict' = "ok" THEN 0 ELSE 1)
    BY <1>4 DEF Read, Receive, Ended
  <2>2. ASSUME Straight', refused' = 0 PROVE missed' = 0 /\ ~ unheard'
    <3>1. Straight /\ unsent = 0 /\ refused = 0 /\ verdict' = "ok"
      BY <1>0, <1>9, <2>1, <2>2 DEF Straight
    <3>2. delivered /\ missed = 0 /\ ~ unheard
      BY <2>1, <3>1 DEF Heeded
    <3>3. msg_buf'.of = n /\ msg_buf'.intact
      BY <1>4, <2>2, <3>1, PassedIsDone
    <3>4. \E got : B!Exchange(Entry, "done", got)
      BY <1>4, <3>2, <3>3 DEF Read, Ended
    <3> QED BY <3>2, <3>4, DoneMissesNothing
  <2> QED BY <2>1, <2>2 DEF Heeded
<1>5. CASE ReadFails
  <2>1. verdict' # "ok"
    BY <1>5, FailedIsRefused DEF J
  <2>2. pc' = "idle" /\ refused' = refused + 1
    BY <1>5, <2>1 DEF ReadFails, ReceiveFails, Ended
  <2>3. refused' # 0
    BY <1>0, <2>2
  <2> QED BY <2>2, <2>3 DEF Heeded
<1>6. CASE Swap
  <2>1. UNCHANGED <<unsent, pc, delivered, refused, missed, unheard>>
    BY <1>6 DEF Swap, B!Swap, vars, B!history
  <2> QED BY <1>9, <2>1 DEF Heeded
<1>7. CASE Rest \/ UNCHANGED sessionVars
  <2>1. UNCHANGED <<unsent, pc, delivered, refused, missed, unheard>>
    BY <1>7 DEF Rest, sessionVars, vars, window
  <2> QED BY <1>9, <2>1 DEF Heeded
<1> QED BY <1>1, <1>2, <1>3, <1>4, <1>5, <1>6, <1>7 DEF SessionNext

(* Had the handlers looked at what data_trans returns, which none of them  *)
(* does: a check button all of whose exchanges it passed tells the truth   *)
(* about the target, for as long as no WriteFile has failed and no         *)
(* left-over report came in under another id, whatever the reads before    *)
(* and during the press have lost, left behind or damaged.                 *)
THEOREM HeedingSufficesHolds ==
  ASSUME MaxFaults + 1 < IdMod
  PROVE  SessionSpec => []HeedingSuffices
<1>1. SessionInit => Heeded /\ Counts
  <2> SUFFICES ASSUME SessionInit PROVE Heeded /\ Counts
    OBVIOUS
  <2>1. pc = "idle" /\ missed = 0 /\ unheard = FALSE /\ refused = 0
    BY DEF SessionInit, Init, B!Init
  <2> QED BY <2>1 DEF Heeded, Counts
<1>2. SessionSpec => [](AcceptedIsOwnIfSent /\ TypeOK)
  BY ImplementsLink, AcceptedIsOwnIfSentHolds, TypeCorrect, PTL
<1>3. J /\ Counts /\ Heeded => HeedingSuffices
  <2> SUFFICES ASSUME J, Heeded, refused = 0, unsent = 0, misled = 0
               PROVE  /\ Passed("i2c_check") => B!Unlocked
                      /\ Passed("mcu_reset_halt") => B!Unlocked /\ halted
                      /\ Passed("sys_reset") /\ present
                           => wasReset /\ B!Unlocked
    BY DEF HeedingSuffices
  <2>1. missed = 0 /\ ~ unheard
    BY DEF Heeded, Straight
  <2>2. CheckMeansUnlocked /\ HaltMeansHalted /\ CleanPasses
    BY SameProperties DEF J, P!IInv
  <2> QED
    BY <2>1, <2>2
    DEF Passed, CheckMeansUnlocked, HaltMeansHalted, CleanPasses,
        B!CheckMeansUnlocked, B!HaltMeansHalted, B!CleanPasses, B!Passed
<1> QED
  BY <1>1, <1>2, <1>3, HeededKept, CountsKept, JHolds, PTL DEF SessionSpec
=============================================================================
