------------------------------- MODULE Session -------------------------------
(***************************************************************************)
(* The buttons that work on single words (Buttons) over the queue of       *)
(* reports between the tool and the bridge (UsbExchange).                  *)
(*                                                                         *)
(* A handler of CMtp_test_guiDlg blocks the window inside each exchange,   *)
(* so that the exchanges of a press follow each other, and a report that a *)
(* failed ReadFile has left behind is read by a later exchange, of this    *)
(* press or of one long after.  What such a report says is what the        *)
(* target said when its own request was acted on: words keeps that, one    *)
(* entry for each report that is still owed to the tool.                   *)
(*                                                                         *)
(* The bridge acts on its requests in order, and nobody but the bridge     *)
(* looks at the target; so the target may as well act at the end of the    *)
(* exchange whose request was delivered, and the operator changes the chip *)
(* only when the bridge has caught up.                                     *)
(***************************************************************************)
EXTENDS UsbExchange

CONSTANTS
  MaxPresses     (* bound: buttons pressed                                  *)

ASSUME PressesAssumption == MaxPresses \in Nat

VARIABLES
  handler, button, k, fail, printed, m_data, presses,      (* of Buttons:   *)
  missed, unheard, wasOpen, wasReset,                      (* pc, verdict   *)
  present, powered, regs, halted, word,                    (* and lost are  *)
                                                           (* renamed       *)
  delivered,     (* the request of the running exchange reached the bridge  *)
  words,         (* what the replies left in the queue carry                *)
  refused        (* exchanges of this press that data_trans did not pass    *)

B == INSTANCE Buttons WITH
       pc <- handler, verdict <- printed, lost <- missed,
       Faults <- {"unsent", "unread", "wrong", "stale"},
       MaxFaults <- MaxExchanges

window == <<handler, button, k, fail, printed, m_data, presses, missed,
            unheard, wasOpen, wasReset, present, powered, regs, halted, word>>

sessionVars == <<vars, window, delivered, words, refused>>

-----------------------------------------------------------------------------
(* The entry of the script whose exchange runs.                            *)
Entry == B!Script(button)[k + 1]

(* What the bridge's reply to it says; to a command, whatever it likes.    *)
Replies ==
  IF Entry.do = "read" THEN B!TargetReads(Entry.reg) ELSE {"any"}

(* What a caller copies from such a reply, if it comes in undamaged.       *)
Said(reply, intact) ==
  IF reply = "any" \/ ~ intact THEN B!Values ELSE {reply}

(* With this exchange's own reply, whether it has been read or not.        *)
Owed(reply) == IF delivered THEN Append(words, reply) ELSE words

Ended_Repeats(how, got, left) ==
  /\ B!Exchange(Entry, how, got)
  /\ IF verdict' = "ok" THEN B!Onward(button)
     ELSE UNCHANGED <<handler, button, k, printed, presses, wasOpen>>
  /\ words' = left
  /\ refused' = refused + (IF verdict' = "ok" THEN 0 ELSE 1)
  /\ UNCHANGED delivered

(* The exchange is over; how it went, what a read returns, and what is     *)
(* left in the queue.                                                      *)
Ended(how, got, left) ==
  /\ B!Exchange(Entry, how, got)
  /\ B!Onward(button)
  /\ words' = left
  /\ refused' = refused + (IF verdict' = "ok" THEN 0 ELSE 1)
  /\ UNCHANGED delivered

(* A button is pressed; its exchanges fit into the bound.                  *)
Press(b) ==
  /\ n + Len(B!Script(b)) <= MaxExchanges
  /\ B!Press(b)
  /\ refused' = 0
  /\ UNCHANGED <<vars, delivered, words>>

Send_UnlessRefused ==
  /\ handler = "busy"
  /\ verdict \in {"none", "ok"}
  /\ Request
  /\ delivered' = (unsent' = unsent)
  /\ UNCHANGED <<window, words, refused>>

(* The handler's next i2c_wr_word or i2c_rd_word: data_trans sends.        *)
Send ==
  /\ handler = "busy"
  /\ Request
  /\ delivered' = (unsent' = unsent)
  /\ UNCHANGED <<window, words, refused>>

(* ReadFile returns a report: this exchange's, or one left over.  A report *)
(* that was damaged may say anything.                                      *)
Read ==
  /\ handler = "busy"
  /\ Receive
  /\ \E reply \in Replies :
       LET owed == Owed(reply)
           how  == IF ~ delivered THEN "stale"
                   ELSE IF msg_buf'.of = n /\ msg_buf'.intact THEN "done"
                   ELSE "wrong"
       IN  Ended(how, Said(Head(owed), msg_buf'.intact), Tail(owed))

(* ReadFile fails; the caller copies the zeros it has put into dat[].      *)
ReadFails ==
  /\ handler = "busy"
  /\ ReceiveFails
  /\ \E reply \in Replies :
       LET owed == Owed(reply)
       IN  Ended(IF delivered THEN "unread" ELSE "unsent", {"0"},
                 IF sent' = sent THEN owed ELSE Tail(owed))

Reported == Answer /\ UNCHANGED <<window, delivered, words, refused>>

Swap ==
  /\ answered = Len(sent)
  /\ B!Swap
  /\ UNCHANGED <<vars, delivered, words, refused>>

(* The window waits for the operator, or ReadFile for a report that nobody *)
(* owes the tool; or the bound has been reached.                           *)
Rest ==
  /\ handler = "idle" \/ (pc = "reading" /\ sent = <<>>) \/ n = MaxExchanges
  /\ UNCHANGED sessionVars

SessionInit ==
  /\ Init
  /\ B!Init
  /\ delivered = FALSE
  /\ words = <<>>
  /\ refused = 0

SessionNext ==
  \/ \E b \in B!Handlers : Press(b)
  \/ Send \/ Reported \/ Read \/ ReadFails \/ Swap \/ Rest

SessionSpec == SessionInit /\ [][SessionNext]_sessionVars

FairSession ==
  SessionSpec /\ WF_sessionVars(Send) /\ WF_sessionVars(Reported)
              /\ WF_sessionVars(Read)

-----------------------------------------------------------------------------
(* Types of the session's state; words has an entry for each report owed   *)
(* but that of the running exchange.                                       *)
SessionTypeOK ==
  /\ TypeOK
  /\ B!TypeOK
  /\ delivered \in BOOLEAN
  /\ words \in Seq(B!Values \union {"any"})
  /\ Len(words) = Len(sent) - IF pc = "reading" /\ delivered THEN 1 ELSE 0
  /\ refused \in Nat

(* The promises of Buttons, where exchanges now fail for a reason: faults  *)
(* of the link, and the reports they leave in the queue.  "i2c check pass" *)
(* whose read returned its own reply means an unlocked target, ...         *)
CheckMeansUnlocked == B!CheckMeansUnlocked

(* ... "mcu reset & halt pass", likewise, a halted processor, ...          *)
HaltMeansHalted == B!HaltMeansHalted

(* ... and one lost exchange does not let sys_reset pass on an unlocked    *)
(* target that has not been reset.                                         *)
OneLossIsNoticed == B!OneLossIsNoticed

(* A press all of whose exchanges returned their own reply passes on a     *)
(* target that is there, whatever presses went before.                     *)
CleanPasses == B!CleanPasses

(* What the link and the bridge do to a press, Buttons allows.             *)
ButtonsSpec == B!Spec

Passed(b) == handler = "idle" /\ button = b /\ printed = "pass"

(* Had the handlers asked data_trans: a check button each of whose         *)
(* exchanges it passed tells the truth, as long as no request was lost and *)
(* no left-over report came in under another id.                           *)
HeedingSuffices ==
  refused = 0 /\ unsent = 0 /\ misled = 0 =>
    /\ Passed("i2c_check") => B!Unlocked
    /\ Passed("mcu_reset_halt") => B!Unlocked /\ halted
    /\ Passed("sys_reset") /\ present => wasReset /\ B!Unlocked

(* A press ends, unless the window waits for a report that nobody owes.    *)
PressReturns ==
  handler = "busy" ~> handler = "idle" \/ (pc = "reading" /\ sent = <<>>)
=============================================================================
