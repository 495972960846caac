----------------------------- MODULE UsbExchange -----------------------------
(***************************************************************************)
(* One exchange of the tool with its USB-HID bridge: Ci2c_bus::data_trans  *)
(* and usb_msg (user_inc/i2c_lib.h) over Cusb_hid::wr and rd               *)
(* (user_inc/usb_lib.h).                                                   *)
(*                                                                         *)
(* The tool owns a single 64-byte buffer, msg_buf.  An operation adds one  *)
(* to the id it finds there, fills in a command, writes the buffer to the  *)
(* bridge, reads the next input report over the same buffer, and compares  *)
(* the id it finds now with its own plus one.  Nothing is retried, nothing *)
(* is flushed, ReadFile has no timeout, and no caller looks at the result: *)
(* a report that a failed ReadFile left in the input queue stays ahead of  *)
(* every later reply.                                                      *)
(*                                                                         *)
(* The bridge is not part of the repository.  It is modelled from what     *)
(* data_trans expects of it: it takes requests in order and answers each   *)
(* one with the request's id plus one, whenever it gets round to it.       *)
(*                                                                         *)
(* An id here counts without bound and is wrapped where it is compared.    *)
(* The code keeps its low 16 bits; since it only adds one to an id, copies *)
(* it and tests it for equality, the two agree.                            *)
(***************************************************************************)
EXTENDS Integers, Sequences

CONSTANTS
  IdMod,         (* number of values of the uint16 id: 2^16 in the program  *)
  Faults,        (* which link faults may happen, a subset of FaultKinds    *)
  MaxExchanges,  (* bound: exchanges started                                *)
  MaxFaults      (* bound: failed calls and damaged replies                 *)

FaultKinds == {
  "write",       (* WriteFile fails, the request never reaches the bridge   *)
  "read",        (* ReadFile fails, the report stays in the input queue     *)
  "lose",        (* ReadFile fails, the report is gone                      *)
  "garble" }     (* ReadFile returns a report damaged on its way            *)

ASSUME ConstantsAssumption ==
  /\ IdMod \in Nat /\ IdMod > 2
  /\ Faults \subseteq FaultKinds
  /\ MaxExchanges \in Nat
  /\ MaxFaults \in Nat

VARIABLES
  pc,            (* "idle", or "reading" inside usb_msg's m_usb.rd          *)
  msg_buf,       (* the tool's buffer: id, kind, the exchange it belongs to *)
  sent,          (* requests the bridge has, whose reply is not yet read    *)
  answered,      (* how many of them, from the front, have been answered    *)
  verdict,       (* what data_trans made of the last exchange               *)
  n,             (* exchanges started; the last one is number n             *)
  unsent,        (* failed WriteFile calls                                  *)
  unread,        (* failed ReadFile calls that left their report queued     *)
  lost,          (* failed ReadFile calls that consumed it                  *)
  damaged,       (* damaged reports read                                    *)
  misled         (* left-over ones whose id the damage has changed          *)

vars == <<pc, msg_buf, sent, answered, verdict, n, unsent, unread, lost,
          damaged, misled>>

FailedCalls == unsent + unread + lost

FaultCount == FailedCalls + damaged

MayFail(kind) == kind \in Faults /\ FaultCount < MaxFaults

Wrap(id) == id % IdMod

-----------------------------------------------------------------------------
(* The bridge (external).                                                  *)

Reply(request) ==
  [id |-> request.id + 1, of |-> request.of, kind |-> "reply", intact |-> TRUE]

(* What can arrive in its place: the check sum covers the whole report,    *)
(* the id too, which rd copies and the next request counts from.           *)
Damaged(reply) ==
  [id : {reply.id} \union {x \in 0 .. IdMod - 1 : x # Wrap(reply.id)},
   of : {reply.of}, kind : {"reply"}, intact : {FALSE}]

(* The bridge answers its oldest unanswered request.                       *)
Answer ==
  /\ answered < Len(sent)
  /\ answered' = answered + 1
  /\ UNCHANGED <<pc, msg_buf, sent, verdict, n, unsent, unread, lost, damaged,
                 misled>>

-----------------------------------------------------------------------------
(* data_trans's two tests, in their order, of the buffer as usb_msg left   *)
(* it, against the id the request was sent with.                           *)

BufferVerdict_NoIdTest(id, buf) ==
  IF buf.intact THEN "ok" ELSE "fail2"

BufferVerdict(id, buf) ==
  IF Wrap(id + 1) # Wrap(buf.id) THEN "fail1"
  ELSE IF buf.intact THEN "ok" ELSE "fail2"

(* The request an operation builds over whatever the last exchange left in *)
(* msg_buf: wp->id += 1, then cmd, len, dat and the check sum.             *)
NextRequest ==
  [id |-> msg_buf.id + 1, of |-> n + 1, kind |-> "request", intact |-> TRUE]

BridgeTakes_Twice(request) ==
  sent' = sent \o << [id |-> request.id, of |-> request.of],
                     [id |-> request.id, of |-> request.of] >>

(* A WriteFile that succeeds puts the request in the bridge's hands.       *)
BridgeTakes(request) ==
  sent' = Append(sent, [id |-> request.id, of |-> request.of])

(* An operation starts: the request is built and m_usb.wr is called.       *)
(* usb_msg goes on to m_usb.rd whether wr succeeded or not.                *)
Request ==
  /\ pc = "idle"
  /\ n < MaxExchanges
  /\ pc' = "reading"
  /\ n' = n + 1
  /\ msg_buf' = NextRequest
  /\ verdict' = "pending"
  /\ \/ /\ BridgeTakes(NextRequest)
        /\ UNCHANGED unsent
     \/ /\ MayFail("write")
        /\ unsent' = unsent + 1
        /\ UNCHANGED sent
  /\ UNCHANGED <<answered, unread, lost, damaged, misled>>

(* What ReadFile may return for the oldest report in the queue, ...        *)
Reports == {Reply(Head(sent))} \union Damaged(Reply(Head(sent)))

(* ... which rd copies into msg_buf for data_trans to test.                *)
Arrives(report) ==
  /\ report.intact \/ MayFail("garble")
  /\ damaged' = damaged + IF report.intact THEN 0 ELSE 1
  /\ misled' = misled + IF report.of # n /\ report.id # Reply(Head(sent)).id
                        THEN 1 ELSE 0
  /\ msg_buf' = report
  /\ verdict' = BufferVerdict(msg_buf.id, report)
  /\ sent' = Tail(sent)
  /\ answered' = answered - 1

Receive_AwaitsItsOwnId ==
  /\ pc = "reading"
  /\ answered > 0
  /\ \E report \in Reports :
       /\ Arrives(report)
       /\ pc' = IF report.id = msg_buf.id THEN "idle" ELSE "reading"
  /\ UNCHANGED <<n, unsent, unread, lost>>

(* ReadFile returns the oldest report in the input queue, whichever        *)
(* request it answers; it blocks while there is none.                      *)
Receive ==
  /\ pc = "reading"
  /\ answered > 0
  /\ \E report \in Reports : Arrives(report)
  /\ pc' = "idle"
  /\ UNCHANGED <<n, unsent, unread, lost>>

ReceiveFails_Flushes ==
  /\ pc = "reading"
  /\ MayFail("read")
  /\ pc' = "idle"
  /\ verdict' = BufferVerdict(msg_buf.id, msg_buf)
  /\ unread' = unread + 1
  /\ sent' = <<>>
  /\ answered' = 0
  /\ UNCHANGED <<msg_buf, n, unsent, lost, damaged, misled>>

(* ReadFile fails: rd copies nothing, so data_trans tests the request that *)
(* is still in msg_buf.                                                    *)
ReceiveFails ==
  /\ pc = "reading"
  /\ pc' = "idle"
  /\ verdict' = BufferVerdict(msg_buf.id, msg_buf)
  /\ \/ /\ MayFail("read")
        /\ unread' = unread + 1
        /\ UNCHANGED <<sent, answered, lost>>
     \/ /\ MayFail("lose")
        /\ answered > 0
        /\ sent' = Tail(sent)
        /\ answered' = answered - 1
        /\ lost' = lost + 1
        /\ UNCHANGED unread
  /\ UNCHANGED <<msg_buf, n, unsent, damaged, misled>>

(* Between operations the tool waits for the next button; in ReadFile it   *)
(* waits, and the whole window with it, for a report nobody owes it.       *)
Wait == (pc = "idle" \/ sent = <<>>) /\ UNCHANGED vars

-----------------------------------------------------------------------------
(* Ci2c_bus's constructor clears msg_buf.                                  *)
Init ==
  /\ pc = "idle"
  /\ msg_buf = [id |-> 0, of |-> 0, kind |-> "request", intact |-> TRUE]
  /\ sent = <<>>
  /\ answered = 0
  /\ verdict = "none"
  /\ n = 0
  /\ unsent = 0 /\ unread = 0 /\ lost = 0 /\ damaged = 0 /\ misled = 0

Next == Request \/ Answer \/ Receive \/ ReceiveFails \/ Wait

Spec == Init /\ [][Next]_vars

(* The UI thread inside ReadFile returns once a report is queued, and the  *)
(* bridge's firmware answers every request it was given.                   *)
FairSpec == Spec /\ WF_vars(Answer) /\ WF_vars(Receive)

-----------------------------------------------------------------------------
Message == [id : Nat, of : Nat]

Buffer ==
  [id : Nat, of : Nat, kind : {"request", "reply"}, intact : BOOLEAN]

(* Types of the exchange's state.                                          *)
TypeOK ==
  /\ pc \in {"idle", "reading"}
  /\ msg_buf \in Buffer
  /\ sent \in Seq(Message)
  /\ answered \in 0 .. Len(sent)
  /\ verdict \in {"none", "pending", "ok", "fail1", "fail2"}
  /\ n \in Nat /\ unsent \in Nat /\ unread \in Nat /\ lost \in Nat
  /\ damaged \in Nat /\ misled \in Nat

(* An exchange data_trans passes holds the bridge's answer to this very    *)
(* request: neither a reply left over from an earlier one nor the request  *)
(* itself is mistaken for it (the id test of data_trans).                  *)
AcceptedIsOwn ==
  verdict = "ok" => msg_buf.kind = "reply" /\ msg_buf.of = n

(* As long as every request has reached the bridge, and no damage has      *)
(* changed the id of a report that was left over, that is so, whatever     *)
(* reads have failed, whatever they have left in the queue and whatever    *)
(* else is damaged.  A wrong id in the exchange's own reply does no harm:  *)
(* the next request counts from it and nothing older is left to match.  In *)
(* a left-over it does: the tool may then count on from the very number    *)
(* that makes the next left-over look like its own.                        *)
AcceptedIsOwnIfSent == unsent = 0 /\ misled = 0 => AcceptedIsOwn

(* As long as no call has failed, every exchange leaves its own answer in  *)
(* msg_buf, which is what the callers that ignore data_trans's result rely *)
(* on, and passes if it came in undamaged, whatever was damaged before.    *)
DeliveredIsOwn ==
  pc = "idle" /\ n > 0 /\ FailedCalls = 0 =>
    /\ msg_buf.kind = "reply" /\ msg_buf.of = n
    /\ msg_buf.intact => verdict = "ok"

(* usb_msg can block for good only when more requests were lost than       *)
(* reports were left over: ReadFile then waits for an answer to a request  *)
(* WriteFile never delivered.                                              *)
BlocksOnlyWhenOverdrawn ==
  pc = "reading" /\ sent = <<>> => unsent > unread

(* Once a report has been left in the queue the tool is a reply behind for *)
(* good: no later exchange passes data_trans, until a request is lost or a *)
(* left-over report comes in with another id than it was sent with.        *)
StaysBehind ==
  [](pc = "idle" /\ sent # <<>> =>
       [](unsent = 0 /\ misled = 0 => verdict # "ok"))

(* An operation that finds a report owed to the tool, be it its own or one *)
(* left over, returns to the button loop.                                  *)
Completes == pc = "reading" /\ sent # <<>> ~> pc = "idle"
=============================================================================
