---------------------------- MODULE Buttons_proofs ----------------------------
(***************************************************************************)
(* Theorems about Buttons for every fault model, any number of failed      *)
(* exchanges and any sequence of buttons and chips.                        *)
(***************************************************************************)
EXTENDS Buttons, TLAPS

(* While a check button runs without a failed exchange, the target follows *)
(* its script.                                                             *)
Following(b) == pc = "busy" /\ button = b /\ present /\ lost = 0

Opening ==
  /\ k >= 1 => powered
  /\ k >= 2 => "enable" \in regs
  /\ k >= 3 => "key" \in regs

CheckFollows == Following("i2c_check") => ~ fail /\ Opening

HaltFollows ==
  Following("mcu_reset_halt") => ~ fail /\ Opening /\ (k >= 4 => halted)

ResetFollows ==
  Following("sys_reset") =>
    /\ ~ fail
    /\ k < 4 => Opening
    /\ k >= 4 => powered /\ wasReset /\ ~ halted
    /\ k = 4 => regs = {}
    /\ k >= 6 => "enable" \in regs
    /\ k >= 7 => "key" \in regs

(* A target that was unlocked and has not been reset still is, once the    *)
(* reset has been lost; and the check that follows sees it, unless it is   *)
(* lost too.                                                               *)
LossesCount ==
  pc = "busy" /\ button = "sys_reset" /\ wasOpen /\ ~ wasReset =>
    /\ Unlocked
    /\ k >= 4 => lost >= 1
    /\ k >= 5 => fail \/ lost >= 2

Quiet == pc = "busy" => verdict = "none"

IInv ==
  /\ TypeOK /\ Quiet
  /\ CheckFollows /\ HaltFollows /\ ResetFollows /\ LossesCount
  /\ CheckMeansUnlocked /\ HaltMeansHalted /\ OneLossIsNoticed /\ CleanPasses

-----------------------------------------------------------------------------
(* How many exchanges each handler makes.                                  *)
LEMMA ScriptLengths ==
  /\ Len(Script("i2c_check")) = 4
  /\ Len(Script("mcu_reset_halt")) = 5
  /\ Len(Script("sys_reset")) = 8
  /\ Len(Script("mem_read")) = 1
  /\ Len(Script("mem_write")) = 1
BY DEF Script, CheckScript, HaltScript, ResetScript

(* No handler returns before its first exchange.                           *)
LEMMA FirstEntry == \A b \in Handlers : 0 \in 0 .. Len(Script(b)) - 1
<1> SUFFICES ASSUME NEW b \in Handlers PROVE 0 \in 0 .. Len(Script(b)) - 1
  OBVIOUS
<1>1. Len(Script(b)) \in {1, 4, 5, 8}
  BY ScriptLengths DEF Handlers, Checks
<1> QED  BY <1>1

(* The invariant holds when the window opens.                              *)
LEMMA InitHolds == Init => IInv
<1> SUFFICES ASSUME Init PROVE IInv
  OBVIOUS
<1>1. k \in 0 .. Len(Script(button)) - 1
  BY FirstEntry DEF Init
<1>2. presses \in Nat /\ lost \in Nat
  BY DEF Init
<1>3. m_data \in Values /\ word \in Values
  BY DEF Init, Values
<1>7. /\ fail \in BOOLEAN /\ unheard \in BOOLEAN /\ wasOpen \in BOOLEAN
      /\ wasReset \in BOOLEAN /\ halted \in BOOLEAN
  BY DEF Init
<1>4. TypeOK
  BY <1>1, <1>2, <1>3, <1>7 DEF Init, TypeOK
<1>5. Quiet /\ CheckFollows /\ HaltFollows /\ ResetFollows /\ LossesCount
  BY DEF Init, Quiet, CheckFollows, HaltFollows, ResetFollows, LossesCount,
         Following
<1>6. CheckMeansUnlocked /\ HaltMeansHalted /\ OneLossIsNoticed /\ CleanPasses
  BY DEF Init, CheckMeansUnlocked, HaltMeansHalted, OneLossIsNoticed,
         CleanPasses, Passed
<1> QED  BY <1>4, <1>5, <1>6 DEF IInv

(* A press of a button preserves it.                                       *)
LEMMA PressStep == ASSUME IInv, NEW b \in Handlers, Press(b) PROVE IInv'
<1>1. /\ pc' = "busy" /\ button' = b /\ k' = 0 /\ fail' = FALSE
      /\ verdict' = "none" /\ presses' = presses + 1 /\ presses < MaxPresses
      /\ lost' = 0 /\ unheard' = FALSE /\ wasOpen' = Unlocked
      /\ wasReset' = FALSE /\ UNCHANGED <<present, powered, regs, halted, word>>
  BY DEF Press, target
<1>2. /\ ~ (k' >= 1) /\ ~ (k' >= 2) /\ ~ (k' >= 3) /\ ~ (k' >= 4)
      /\ ~ (k' >= 5) /\ ~ (k' >= 6) /\ ~ (k' >= 7) /\ k' # 4
  BY <1>1
<1>3. TypeOK'
  <2>1. m_data' \in Values
    BY DEF Press, IInv, TypeOK, Values
  <2>2. k' \in 0 .. Len(Script(button')) - 1
    BY <1>1, FirstEntry
  <2>3. presses' \in Nat /\ lost' \in Nat
    BY <1>1 DEF IInv, TypeOK
  <2>4. /\ pc' \in {"idle", "busy"} /\ button' \in Handlers
        /\ verdict' \in {"none", "pass", "fail"}
    BY <1>1
  <2>5. fail' \in BOOLEAN /\ unheard' \in BOOLEAN /\ wasReset' \in BOOLEAN
    BY <1>1
  <2>6. wasOpen' \in BOOLEAN
    BY <1>1 DEF Unlocked, Answers, IInv, TypeOK
  <2>7. /\ present' \in BOOLEAN /\ powered' \in BOOLEAN /\ halted' \in BOOLEAN
        /\ regs' \subseteq {"enable", "key"} /\ word' \in Values
    BY <1>1 DEF IInv, TypeOK
  <2> QED  BY <2>1, <2>2, <2>3, <2>4, <2>5, <2>6, <2>7 DEF TypeOK
<1>4. Quiet' /\ CheckFollows' /\ HaltFollows'
  BY <1>1, <1>2 DEF Quiet, CheckFollows, HaltFollows, Opening
<1>5. ResetFollows'
  BY <1>1, <1>2 DEF ResetFollows, Opening
<1>6. LossesCount'
  <2>1. Unlocked' <=> Unlocked
    BY <1>1 DEF Unlocked, Answers
  <2> QED  BY <1>1, <1>2, <2>1 DEF LossesCount
<1>7. /\ CheckMeansUnlocked' /\ HaltMeansHalted' /\ OneLossIsNoticed'
      /\ CleanPasses'
  BY <1>1 DEF CheckMeansUnlocked, HaltMeansHalted, OneLossIsNoticed,
              CleanPasses, Passed
<1> QED  BY <1>3, <1>4, <1>5, <1>6, <1>7 DEF IInv

(* So does another chip in the socket.                                     *)
LEMMA SwapStep == IInv /\ Swap => IInv'
<1> SUFFICES ASSUME IInv, Swap PROVE IInv'
  OBVIOUS
<1>1. /\ pc = "idle" /\ present' \in BOOLEAN /\ regs' = {} /\ halted' = FALSE
      /\ word' = "0" /\ verdict' = "none"
      /\ UNCHANGED <<pc, button, k, fail, m_data, presses, lost, unheard,
                     wasOpen, wasReset, powered>>
  BY DEF Swap, history
<1>2. TypeOK'
  BY <1>1 DEF IInv, TypeOK, Values, Script
<1>3. Quiet' /\ CheckFollows' /\ HaltFollows' /\ ResetFollows' /\ LossesCount'
  BY <1>1 DEF Quiet, CheckFollows, HaltFollows, ResetFollows, LossesCount,
              Following
<1>4. /\ CheckMeansUnlocked' /\ HaltMeansHalted' /\ OneLossIsNoticed'
      /\ CleanPasses'
  BY <1>1 DEF CheckMeansUnlocked, HaltMeansHalted, OneLossIsNoticed,
              CleanPasses, Passed
<1> QED  BY <1>2, <1>3, <1>4 DEF IInv

-----------------------------------------------------------------------------
Hows == {"done"} \union FaultKinds

(* An exchange with what its end makes of a read.                          *)
Exchanged(entry, how) == Exchange(entry, how, Got(entry.reg, how))

(* A command: what the window knows stays, and the target has acted or not.*)
LEMMA Acting ==
  ASSUME TypeOK, NEW r, NEW how, Exchanged(Do(r), how)
  PROVE  /\ UNCHANGED <<fail, m_data, unheard, present>>
         /\ lost' \in Nat
         /\ lost' = IF how = "done" THEN lost ELSE lost + 1
         /\ \/ Acted(how) /\ TargetActs(r)
            \/ ~ Acted(how) /\ UNCHANGED <<target, wasReset>>
<1>1. Do(r).do = "write" /\ Do(r).reg = r
  BY DEF Do
<1>2. lost' \in Nat
  BY DEF TypeOK, Exchanged, Exchange, Acted
<1> QED  BY <1>1, <1>2 DEF Exchanged, Exchange, Acted, TargetActs, target

(* A read: the target stays.                                               *)
LEMMA Looking ==
  ASSUME TypeOK, NEW r, NEW w, NEW how, Exchanged(Look(r, w), how)
  PROVE  /\ UNCHANGED <<target, wasReset>>
         /\ lost' \in Nat
         /\ lost' = IF how = "done" THEN lost ELSE lost + 1
         /\ \E v \in Got(r, how) :
              /\ fail' = (fail \/ v \in w)
              /\ m_data' = IF button = "mem_read" THEN v ELSE m_data
              /\ unheard' = (unheard \/ how # "done")
<1>1. /\ Look(r, w).do = "read" /\ Look(r, w).reg = r /\ Look(r, w).bad = w
      /\ Look(r, w).do # "write"
  BY DEF Look
<1>2. lost' \in Nat
  BY DEF TypeOK, Exchanged, Exchange, Acted
<1> QED  BY <1>1, <1>2 DEF Exchanged, Exchange, Acted

(* What i2c_rd_word returns is one of the values.                          *)
LEMMA GotType ==
  ASSUME TypeOK, NEW r \in {"key", "ctrl", "word"}, NEW how, NEW v \in Got(r, how)
  PROVE  v \in Values
BY DEF Got, TargetReads, Values, TypeOK

(* Every entry of a script is a command or a read of a register.           *)
LEMMA Entries ==
  ASSUME NEW b \in Handlers, NEW i \in 1 .. Len(Script(b))
  PROVE  \/ \E r \in {"power", "enable", "key", "halt", "reset", "word"} :
              Script(b)[i] = Do(r)
         \/ \E r \in {"key", "ctrl", "word"}, w \in SUBSET Values :
              Script(b)[i] = Look(r, w)
<1>1. CASE b = "i2c_check"
  <2>1. i \in 1 .. 4
    BY <1>1, ScriptLengths
  <2>2. Values \ {"1"} \in SUBSET Values
    OBVIOUS
  <2> QED  BY <1>1, <2>1, <2>2 DEF Script, CheckScript
<1>2. CASE b = "mcu_reset_halt"
  <2>1. i \in 1 .. 5
    BY <1>2, ScriptLengths
  <2>2. Values \ {"halted"} \in SUBSET Values
    OBVIOUS
  <2> QED  BY <1>2, <2>1, <2>2 DEF Script, HaltScript
<1>3. CASE b = "sys_reset"
  <2>1. i \in 1 .. 8
    BY <1>3, ScriptLengths
  <2>2. {"0"} \in SUBSET Values /\ {"1"} \in SUBSET Values
    BY DEF Values
  <2> QED  BY <1>3, <2>1, <2>2 DEF Script, ResetScript
<1>4. CASE b = "mem_read"
  <2>1. i = 1
    <3>1. i \in 1 .. 1
      BY <1>4, ScriptLengths
    <3> QED  BY <3>1
  <2>2. Script("mem_read")[1] = Look("word", {})
    BY DEF Script
  <2>3. Script(b)[i] = Look("word", {})
    BY <1>4, <2>1, <2>2
  <2>4. {} \in SUBSET Values
    OBVIOUS
  <2> QED  BY <2>3, <2>4
<1>5. CASE b = "mem_write"
  <2>1. i = 1
    <3>1. i \in 1 .. 1
      BY <1>5, ScriptLengths
    <3> QED  BY <3>1
  <2>2. Script("mem_write")[1] = Do("word")
    BY DEF Script
  <2>3. Script(b)[i] = Do("word")
    BY <1>5, <2>1, <2>2
  <2> QED  BY <2>3
<1> QED  BY <1>1, <1>2, <1>3, <1>4, <1>5 DEF Handlers, Checks

(* Where a handler is after an exchange.                                   *)
LEMMA Handled ==
  ASSUME IInv, NEW b \in Handlers, Handle(b)
  PROVE  /\ TypeOK /\ pc = "busy" /\ button = b /\ verdict = "none"
         /\ k \in Nat /\ k + 1 \in 1 .. Len(Script(b))
         /\ UNCHANGED <<button, presses, wasOpen>>
         /\ \/ /\ k + 1 < Len(Script(b)) /\ k' = k + 1
               /\ pc' = "busy" /\ verdict' = "none"
            \/ /\ k + 1 = Len(Script(b)) /\ k' = 0 /\ pc' = "idle"
               /\ verdict' = IF b \notin Checks THEN "none"
                             ELSE IF fail' THEN "fail" ELSE "pass"
         /\ \E how \in {"done"} \union Faults : Exchanged(Script(b)[k + 1], how)
<1>1. TypeOK /\ pc = "busy" /\ button = b /\ verdict = "none"
  BY DEF Handle, IInv, Quiet
<1>2. Len(Script(b)) \in Nat
  BY ScriptLengths DEF Handlers, Checks
<1>3. k \in Nat /\ k + 1 \in 1 .. Len(Script(b))
  BY <1>1, <1>2 DEF TypeOK
<1> QED  BY <1>1, <1>2, <1>3 DEF Handle, Onward, Exchanged

(* An exchange keeps the types.                                            *)
LEMMA HandledTypes ==
  ASSUME IInv, NEW b \in Handlers, Handle(b)
  PROVE  TypeOK' /\ Quiet'
<1>1. PICK how \in {"done"} \union Faults : Exchanged(Script(b)[k + 1], how)
  BY Handled
<1>2. TypeOK /\ pc = "busy" /\ button = b
  BY Handled
<1>3. k' \in 0 .. Len(Script(button')) - 1
  <2>1. Len(Script(b)) \in Nat
    BY ScriptLengths DEF Handlers, Checks
  <2> QED  BY <1>2, <2>1, Handled
<1>4. /\ pc' \in {"idle", "busy"} /\ button' \in Handlers
      /\ verdict' \in {"none", "pass", "fail"} /\ Quiet'
      /\ presses' \in Nat /\ wasOpen' \in BOOLEAN
  BY <1>2, Handled DEF TypeOK, Quiet
<1>5. CASE \E r \in {"power", "enable", "key", "halt", "reset", "word"} :
             Script(b)[k + 1] = Do(r)
  <2>1. PICK r \in {"power", "enable", "key", "halt", "reset", "word"} :
          Script(b)[k + 1] = Do(r)
    BY <1>5
  <2>2. /\ UNCHANGED <<fail, m_data, unheard, present>>
        /\ lost' \in Nat
        /\ \/ TargetActs(r)
           \/ UNCHANGED <<target, wasReset>>
    BY <1>1, <1>2, <2>1, Acting
  <2>3. CASE TargetActs(r)
    <3>1. /\ powered' \in BOOLEAN /\ halted' \in BOOLEAN /\ wasReset' \in BOOLEAN
      BY <1>2, <2>3 DEF TargetActs, TypeOK, Unlocked, Answers
    <3>2. regs' \subseteq {"enable", "key"} /\ word' \in Values
      BY <1>2, <2>3 DEF TargetActs, TypeOK
    <3> QED  BY <1>2, <1>3, <1>4, <2>2, <3>1, <3>2 DEF TypeOK
  <2>4. CASE UNCHANGED <<target, wasReset>>
    BY <1>2, <1>3, <1>4, <2>2, <2>4 DEF TypeOK, target
  <2> QED  BY <2>2, <2>3, <2>4
<1>6. CASE \E r \in {"key", "ctrl", "word"}, w \in SUBSET Values :
             Script(b)[k + 1] = Look(r, w)
  <2>1. PICK r \in {"key", "ctrl", "word"} : \E w \in SUBSET Values :
          Script(b)[k + 1] = Look(r, w)
    BY <1>6
  <2>2. PICK w \in SUBSET Values : Script(b)[k + 1] = Look(r, w)
    BY <2>1
  <2>3. /\ UNCHANGED <<target, wasReset>>
        /\ lost' \in Nat
        /\ \E v \in Got(r, how) :
             /\ fail' = (fail \/ v \in w)
             /\ m_data' = IF button = "mem_read" THEN v ELSE m_data
             /\ unheard' = (unheard \/ how # "done")
    BY <1>1, <1>2, <2>2, Looking
  <2>4. m_data' \in Values
    BY <1>2, <2>3, GotType DEF TypeOK
  <2>5. fail' \in BOOLEAN /\ unheard' \in BOOLEAN
    BY <2>3
  <2> QED  BY <1>2, <1>3, <1>4, <2>3, <2>4, <2>5 DEF TypeOK, target
<1> QED  BY <1>5, <1>6, Handled, Entries

-----------------------------------------------------------------------------
(* An invariant about one button says nothing while another is handled.    *)
LEMMA OtherButtons ==
  ASSUME IInv, NEW b \in Handlers, Handle(b)
  PROVE  /\ b # "i2c_check" => CheckFollows' /\ CheckMeansUnlocked'
         /\ b # "mcu_reset_halt" => HaltFollows' /\ HaltMeansHalted'
         /\ b # "sys_reset" => ResetFollows' /\ LossesCount' /\ OneLossIsNoticed'
         /\ b \notin Checks => CleanPasses'
<1>1. button' = b
  BY Handled
<1>2. b \notin Checks => verdict' = "none"
  BY Handled
<1> QED
  BY <1>1, <1>2
  DEF CheckFollows, CheckMeansUnlocked, HaltFollows, HaltMeansHalted,
      ResetFollows, LossesCount, OneLossIsNoticed, CleanPasses, Following, Passed

(* What each command does to a target that is there.                       *)
LEMMA PowerActs ==
  ASSUME TypeOK, TargetActs("power")
  PROVE  /\ powered' /\ regs' = regs /\ (halted' <=> halted)
         /\ (wasReset' <=> wasReset) /\ (present' <=> present)
<1>1. powered' = TRUE
  BY DEF TargetActs, TypeOK
<1>2. regs' = regs /\ halted' = halted /\ wasReset' = wasReset /\ present' = present
  BY DEF TargetActs, TypeOK
<1> QED BY <1>1, <1>2

(* The unlock registers are set on a target that is there and powered.    *)
LEMMA UnlockActs ==
  ASSUME TypeOK, NEW r \in {"enable", "key"}, TargetActs(r), present, powered
  PROVE  /\ powered' /\ regs' = regs \union {r} /\ (halted' <=> halted)
         /\ (wasReset' <=> wasReset) /\ (present' <=> present)
<1>1. powered' = TRUE
  BY DEF TargetActs, TypeOK
<1>2. halted' = halted /\ wasReset' = wasReset /\ present' = present
  BY DEF TargetActs, TypeOK
<1>3. regs' = regs \union {r}
  BY DEF TargetActs, TypeOK, Answers
<1> QED BY <1>1, <1>2, <1>3

(* An unlocked target halts.                                              *)
LEMMA HaltActs ==
  ASSUME TypeOK, TargetActs("halt"), Unlocked
  PROVE  /\ powered' /\ regs' = regs /\ halted'
         /\ (wasReset' <=> wasReset) /\ (present' <=> present)
<1>1. powered' = powered /\ halted' = TRUE
  BY DEF TargetActs, TypeOK
<1>2. regs' = regs /\ wasReset' = wasReset /\ present' = present
  BY DEF TargetActs, TypeOK
<1> QED BY <1>1, <1>2 DEF Unlocked, Answers

(* An unlocked target is reset, and locked.                               *)
LEMMA ResetActs ==
  ASSUME TypeOK, TargetActs("reset"), Unlocked
  PROVE  powered' /\ regs' = {} /\ ~ halted' /\ wasReset' /\ (present' <=> present)
<1>1. powered' = powered /\ halted' = FALSE /\ wasReset' = TRUE
  BY DEF TargetActs, TypeOK
<1>2. regs' = {} /\ present' = present
  BY DEF TargetActs, TypeOK
<1> QED BY <1>1, <1>2 DEF Unlocked, Answers

(* A command whose exchange did not fail has been acted on.                *)
LEMMA CleanCommand ==
  ASSUME TypeOK, NEW r, NEW how \in {"done"} \union Faults,
         Exchanged(Do(r), how), lost' = 0
  PROVE  lost = 0 /\ TargetActs(r) /\ (fail' <=> fail) /\ (present' <=> present)
<1>1. lost \in Nat
  BY DEF TypeOK
<1>2. how = "done" /\ lost = 0
  BY <1>1, Acting
<1>3. Acted(how)
  BY <1>2 DEF Acted
<1> QED  BY <1>2, <1>3, Acting

(* A read whose exchange did not fail is the target's.                     *)
LEMMA CleanRead ==
  ASSUME TypeOK, NEW r, NEW w, NEW how \in {"done"} \union Faults,
         Exchanged(Look(r, w), how), lost' = 0
  PROVE  /\ lost = 0 /\ UNCHANGED <<target, wasReset>>
         /\ \E v \in TargetReads(r) : fail' = (fail \/ v \in w)
<1>1. lost \in Nat
  BY DEF TypeOK
<1>2. how = "done" /\ lost = 0
  BY <1>1, Looking
<1> QED  BY <1>2, Looking DEF Got

(* Every exchange of i2c_check preserves the invariant.                    *)
LEMMA CheckStep == ASSUME IInv, i2c_check PROVE IInv'
<1> DEFINE b == "i2c_check"
<1>1. b \in Handlers /\ b \in Checks /\ Handle(b)
  BY DEF Handlers, Checks, i2c_check
<1>2. TypeOK' /\ Quiet'
  BY <1>1, HandledTypes
<1>3. /\ TypeOK /\ pc = "busy" /\ button = b /\ button' = b /\ k \in Nat
      /\ Len(Script(b)) = 4
  BY <1>1, Handled, ScriptLengths
<1>4. PICK how \in {"done"} \union Faults : Exchanged(Script(b)[k + 1], how)
  BY <1>1, Handled
<1>5. \/ k + 1 < 4 /\ k' = k + 1 /\ pc' = "busy" /\ verdict' = "none"
      \/ /\ k = 3 /\ k' = 0 /\ pc' = "idle"
         /\ verdict' = IF fail' THEN "fail" ELSE "pass"
  BY <1>1, <1>3, Handled
<1>6. present /\ lost = 0 => ~ fail /\ Opening
  BY <1>3 DEF IInv, CheckFollows, Following
<1>7. CASE k + 1 < 4 /\ k' = k + 1 /\ pc' = "busy" /\ verdict' = "none"
  <2>1. CheckFollows'
    <3> SUFFICES ASSUME present', lost' = 0 PROVE ~ fail' /\ Opening'
      BY DEF CheckFollows, Following
    <3>1. CASE k = 0
      <4>1. Script(b)[k + 1] = Do("power")
        BY <3>1 DEF Script, CheckScript
      <4>2. /\ lost = 0 /\ TargetActs("power")
            /\ (fail' <=> fail) /\ (present' <=> present)
        BY <1>3, <1>4, <4>1, CleanCommand
      <4>3. ~ fail' /\ powered'
        BY <1>3, <1>6, <4>2, PowerActs
      <4>4. ~ (k' >= 2) /\ ~ (k' >= 3)
        BY <1>7, <3>1
      <4> QED  BY <4>3, <4>4 DEF Opening
    <3>2. CASE k = 1
      <4>1. Script(b)[k + 1] = Do("enable")
        BY <3>2 DEF Script, CheckScript
      <4>2. /\ lost = 0 /\ TargetActs("enable")
            /\ (fail' <=> fail) /\ (present' <=> present)
        BY <1>3, <1>4, <4>1, CleanCommand
      <4>3. present /\ powered /\ ~ fail
        BY <1>6, <3>2, <4>2 DEF Opening
      <4>4. powered' /\ "enable" \in regs'
        BY <1>3, <4>2, <4>3, UnlockActs
      <4>5. ~ (k' >= 3)
        BY <1>7, <3>2
      <4> QED  BY <4>2, <4>3, <4>4, <4>5 DEF Opening
    <3>3. CASE k = 2
      <4>1. Script(b)[k + 1] = Do("key")
        BY <3>3 DEF Script, CheckScript
      <4>2. /\ lost = 0 /\ TargetActs("key")
            /\ (fail' <=> fail) /\ (present' <=> present)
        BY <1>3, <1>4, <4>1, CleanCommand
      <4>3. present /\ powered /\ ~ fail /\ "enable" \in regs
        BY <1>6, <3>3, <4>2 DEF Opening
      <4>4. powered' /\ "enable" \in regs' /\ "key" \in regs'
        BY <1>3, <4>2, <4>3, UnlockActs
      <4> QED  BY <4>2, <4>3, <4>4 DEF Opening
    <3> QED  BY <1>3, <1>7, <3>1, <3>2, <3>3
  <2>2. CheckMeansUnlocked' /\ CleanPasses'
    BY <1>7 DEF CheckMeansUnlocked, CleanPasses, Passed
  <2> QED  BY <1>1, <1>2, <2>1, <2>2, OtherButtons DEF IInv
<1>8. CASE /\ k = 3 /\ k' = 0 /\ pc' = "idle"
           /\ verdict' = IF fail' THEN "fail" ELSE "pass"
  <2>1. Script(b)[k + 1] = Look("key", Values \ {"1"})
    BY <1>8 DEF Script, CheckScript
  <2>2. UNCHANGED <<target, wasReset>>
    BY <1>3, <1>4, <2>1, Looking
  <2>3. CheckFollows'
    BY <1>8 DEF CheckFollows, Following
  <2>4. (Unlocked' <=> Unlocked) /\ (present' <=> present)
    BY <2>2 DEF target, Unlocked, Answers
  <2>5. CheckMeansUnlocked'
    <3> SUFFICES ASSUME ~ fail', ~ unheard' PROVE Unlocked
      BY <1>8, <2>4 DEF CheckMeansUnlocked, Passed
    <3>1. PICK v \in Got("key", how) :
            /\ fail' = (fail \/ v \in Values \ {"1"})
            /\ unheard' = (unheard \/ how # "done")
      BY <1>3, <1>4, <2>1, Looking
    <3>2. how = "done" /\ v \in TargetReads("key")
      BY <3>1 DEF Got
    <3>3. v = "1"
      BY <1>3, <3>1, GotType
    <3> QED  BY <3>2, <3>3 DEF TargetReads
  <2>6. CleanPasses'
    <3> SUFFICES ASSUME present', lost' = 0
                 PROVE  verdict' = "pass" /\ Unlocked'
      BY <1>3 DEF CleanPasses
    <3>1. PICK v \in TargetReads("key") : fail' = (fail \/ v \in Values \ {"1"})
      BY <1>3, <1>4, <2>1, CleanRead
    <3>2. lost = 0
      BY <1>3, <1>4, <2>1, CleanRead
    <3>3. present /\ ~ fail /\ powered /\ "enable" \in regs /\ "key" \in regs
      BY <1>6, <1>8, <2>4, <3>2 DEF Opening
    <3>4. Unlocked /\ v = "1"
      BY <3>1, <3>3 DEF TargetReads, Unlocked, Answers
    <3> QED  BY <1>8, <2>4, <3>1, <3>3, <3>4
  <2> QED  BY <1>1, <1>2, <2>3, <2>5, <2>6, OtherButtons DEF IInv
<1> QED  BY <1>5, <1>7, <1>8

(* Every exchange of mcu_reset_halt preserves it.                          *)
LEMMA HaltStep == ASSUME IInv, mcu_reset_halt PROVE IInv'
<1> DEFINE b == "mcu_reset_halt"
<1>1. b \in Handlers /\ b \in Checks /\ Handle(b)
  BY DEF Handlers, Checks, mcu_reset_halt
<1>2. TypeOK' /\ Quiet'
  BY <1>1, HandledTypes
<1>3. /\ TypeOK /\ pc = "busy" /\ button = b /\ button' = b /\ k \in Nat
      /\ Len(Script(b)) = 5
  BY <1>1, Handled, ScriptLengths
<1>4. PICK how \in {"done"} \union Faults : Exchanged(Script(b)[k + 1], how)
  BY <1>1, Handled
<1>5. \/ k + 1 < 5 /\ k' = k + 1 /\ pc' = "busy" /\ verdict' = "none"
      \/ /\ k = 4 /\ k' = 0 /\ pc' = "idle"
         /\ verdict' = IF fail' THEN "fail" ELSE "pass"
  <2>1. Len(Script(b)) = 5
    BY <1>3
  <2>2. CASE /\ k + 1 < Len(Script(b)) /\ k' = k + 1
             /\ pc' = "busy" /\ verdict' = "none"
    BY <2>1, <2>2
  <2>3. CASE /\ k + 1 = Len(Script(b)) /\ k' = 0 /\ pc' = "idle"
             /\ verdict' = IF b \notin Checks THEN "none"
                           ELSE IF fail' THEN "fail" ELSE "pass"
    <3>1. k = 4
      <4>1. k + 1 = 5
        BY <2>1, <2>3
      <4> QED  BY <1>3, <4>1
    <3> QED  BY <1>1, <2>3, <3>1
  <2> QED  BY <1>1, <2>2, <2>3, Handled
<1>6. present /\ lost = 0 => ~ fail /\ Opening /\ (k >= 4 => halted)
  <2>1. HaltFollows
    BY DEF IInv
  <2>2. present /\ lost = 0 => Following("mcu_reset_halt")
    BY <1>3 DEF Following
  <2> QED  BY <2>1, <2>2 DEF HaltFollows
<1>7. CASE k + 1 < 5 /\ k' = k + 1 /\ pc' = "busy" /\ verdict' = "none"
  <2>1. HaltFollows'
    <3> SUFFICES ASSUME present', lost' = 0
                 PROVE  ~ fail' /\ Opening' /\ (k' >= 4 => halted')
      BY DEF HaltFollows, Following
    <3>1. CASE k = 0
      <4>1. Script(b)[k + 1] = Do("power")
        BY <3>1 DEF Script, HaltScript
      <4>2. /\ lost = 0 /\ TargetActs("power")
            /\ (fail' <=> fail) /\ (present' <=> present)
        BY <1>3, <1>4, <4>1, CleanCommand
      <4>3. ~ fail' /\ powered'
        BY <1>3, <1>6, <4>2, PowerActs
      <4>4. ~ (k' >= 2) /\ ~ (k' >= 3) /\ ~ (k' >= 4)
        BY <1>7, <3>1
      <4> QED  BY <4>3, <4>4 DEF Opening
    <3>2. CASE k = 1
      <4>1. Script(b)[k + 1] = Do("enable")
        BY <3>2 DEF Script, HaltScript
      <4>2. /\ lost = 0 /\ TargetActs("enable")
            /\ (fail' <=> fail) /\ (present' <=> present)
        BY <1>3, <1>4, <4>1, CleanCommand
      <4>3. present /\ powered /\ ~ fail
        BY <1>6, <3>2, <4>2 DEF Opening
      <4>4. powered' /\ "enable" \in regs'
        BY <1>3, <4>2, <4>3, UnlockActs
      <4>5. ~ (k' >= 3) /\ ~ (k' >= 4)
        BY <1>7, <3>2
      <4> QED  BY <4>2, <4>3, <4>4, <4>5 DEF Opening
    <3>3. CASE k = 2
      <4>1. Script(b)[k + 1] = Do("key")
        BY <3>3 DEF Script, HaltScript
      <4>2. /\ lost = 0 /\ TargetActs("key")
            /\ (fail' <=> fail) /\ (present' <=> present)
        BY <1>3, <1>4, <4>1, CleanCommand
      <4>3. present /\ powered /\ ~ fail /\ "enable" \in regs
        BY <1>6, <3>3, <4>2 DEF Opening
      <4>4. powered' /\ "enable" \in regs' /\ "key" \in regs'
        BY <1>3, <4>2, <4>3, UnlockActs
      <4>5. ~ (k' >= 4)
        BY <1>7, <3>3
      <4> QED  BY <4>2, <4>3, <4>4, <4>5 DEF Opening
    <3>4. CASE k = 3
      <4>1. Script(b)[k + 1] = Do("halt")
        BY <3>4 DEF Script, HaltScript
      <4>2. /\ lost = 0 /\ TargetActs("halt")
            /\ (fail' <=> fail) /\ (present' <=> present)
        BY <1>3, <1>4, <4>1, CleanCommand
      <4>3. present /\ powered /\ ~ fail /\ "enable" \in regs /\ "key" \in regs
        BY <1>6, <3>4, <4>2 DEF Opening
      <4>4. Unlocked
        BY <4>3 DEF Unlocked, Answers
      <4>5. powered' /\ regs' = regs /\ halted'
        BY <1>3, <4>2, <4>4, HaltActs
      <4> QED  BY <4>2, <4>3, <4>5 DEF Opening
    <3> QED  BY <1>3, <1>7, <3>1, <3>2, <3>3, <3>4
  <2>2. HaltMeansHalted' /\ CleanPasses'
    BY <1>7 DEF HaltMeansHalted, CleanPasses, Passed
  <2> QED  BY <1>1, <1>2, <2>1, <2>2, OtherButtons DEF IInv
<1>8. CASE /\ k = 4 /\ k' = 0 /\ pc' = "idle"
           /\ verdict' = IF fail' THEN "fail" ELSE "pass"
  <2>1. Script(b)[k + 1] = Look("ctrl", Values \ {"halted"})
    BY <1>8 DEF Script, HaltScript
  <2>2. UNCHANGED <<target, wasReset>>
    BY <1>3, <1>4, <2>1, Looking
  <2>3. HaltFollows'
    BY <1>8 DEF HaltFollows, Following
  <2>4. (Unlocked' <=> Unlocked) /\ (present' <=> present) /\ (halted' <=> halted)
    BY <2>2 DEF target, Unlocked, Answers
  <2>5. HaltMeansHalted'
    <3> SUFFICES ASSUME ~ fail', ~ unheard' PROVE Unlocked /\ halted
      BY <1>8, <2>4 DEF HaltMeansHalted, Passed
    <3>1. PICK v \in Got("ctrl", how) :
            /\ fail' = (fail \/ v \in Values \ {"halted"})
            /\ unheard' = (unheard \/ how # "done")
      BY <1>3, <1>4, <2>1, Looking
    <3>2. how = "done" /\ v \in TargetReads("ctrl")
      BY <3>1 DEF Got
    <3>3. v = "halted"
      BY <1>3, <3>1, GotType
    <3> QED  BY <3>2, <3>3 DEF TargetReads
  <2>6. CleanPasses'
    <3> SUFFICES ASSUME present', lost' = 0
                 PROVE  verdict' = "pass" /\ Unlocked'
      BY <1>3 DEF CleanPasses
    <3>1. PICK v \in TargetReads("ctrl") :
            fail' = (fail \/ v \in Values \ {"halted"})
      BY <1>3, <1>4, <2>1, CleanRead
    <3>2. lost = 0
      BY <1>3, <1>4, <2>1, CleanRead
    <3>3. /\ present /\ ~ fail /\ powered /\ "enable" \in regs /\ "key" \in regs
          /\ halted
      BY <1>6, <1>8, <2>4, <3>2 DEF Opening
    <3>4. Unlocked /\ v = "halted"
      BY <3>1, <3>3 DEF TargetReads, Unlocked, Answers
    <3> QED  BY <1>8, <2>4, <3>1, <3>3, <3>4
  <2> QED  BY <1>1, <1>2, <2>3, <2>5, <2>6, OtherButtons DEF IInv
<1> QED  BY <1>5, <1>7, <1>8

(* An unlocked target stays unlocked through every command but the reset.  *)
LEMMA StaysOpen ==
  ASSUME TypeOK, NEW r \in {"power", "enable", "key"}, NEW how,
         Exchanged(Do(r), how), Unlocked
  PROVE  Unlocked' /\ (wasReset' <=> wasReset) /\ (fail' <=> fail) /\ lost' >= lost
<1>1. lost \in Nat
  BY DEF TypeOK
<1>2. lost' >= lost
  BY <1>1, Acting
<1>3. (fail' <=> fail) /\ (present' <=> present)
  BY Acting
<1>4. TargetActs(r) \/ UNCHANGED <<target, wasReset>>
  BY Acting
<1>5. CASE TargetActs(r)
  <2>1. present /\ powered /\ {"enable", "key"} \subseteq regs
    BY DEF Unlocked, Answers
  <2>2. powered' /\ regs \subseteq regs' /\ (wasReset' <=> wasReset)
    BY <1>5, <2>1, PowerActs, UnlockActs
  <2> QED  BY <1>2, <1>3, <2>1, <2>2 DEF Unlocked, Answers
<1>6. CASE UNCHANGED <<target, wasReset>>
  BY <1>2, <1>3, <1>6 DEF target, Unlocked, Answers
<1> QED  BY <1>4, <1>5, <1>6

(* An unlocked target that a reset left as it was has not heard of it.     *)
LEMMA ResetLost ==
  ASSUME TypeOK, NEW how, Exchanged(Do("reset"), how), Unlocked, ~ wasReset'
  PROVE  Unlocked' /\ lost' >= 1
<1>1. lost \in Nat
  BY DEF TypeOK
<1>2. ~ TargetActs("reset")
  BY ResetActs
<1>3. ~ Acted(how) /\ UNCHANGED <<target, wasReset>>
  BY <1>2, Acting
<1>4. lost' = lost + 1
  <2>1. how # "done"
    BY <1>3 DEF Acted
  <2> QED  BY <2>1, Acting
<1>5. Unlocked'
  BY <1>3 DEF target, Unlocked, Answers
<1> QED  BY <1>1, <1>4, <1>5

(* The exchanges of sys_reset.                                             *)
LEMMA ResetEntries ==
  /\ Script("sys_reset")[1] = Do("power")
  /\ Script("sys_reset")[2] = Do("enable")
  /\ Script("sys_reset")[3] = Do("key")
  /\ Script("sys_reset")[4] = Do("reset")
  /\ Script("sys_reset")[5] = Look("key", {"1"})
  /\ Script("sys_reset")[6] = Do("enable")
  /\ Script("sys_reset")[7] = Do("key")
  /\ Script("sys_reset")[8] = Look("key", {"0"})
BY DEF Script, ResetScript

(* Where sys_reset is after an exchange.                                   *)
LEMMA ResetMoves ==
  ASSUME IInv, sys_reset
  PROVE  /\ TypeOK /\ TypeOK' /\ Quiet' /\ k \in 0 .. 7
         /\ pc = "busy" /\ button = "sys_reset" /\ button' = "sys_reset"
         /\ wasOpen' = wasOpen
         /\ \/ k < 7 /\ k' = k + 1 /\ pc' = "busy" /\ verdict' = "none"
            \/ /\ k = 7 /\ k' = 0 /\ pc' = "idle"
               /\ verdict' = IF fail' THEN "fail" ELSE "pass"
<1> DEFINE b == "sys_reset"
<1>1. b \in Handlers /\ b \in Checks /\ Handle(b)
  BY DEF Handlers, Checks, sys_reset
<1>2. TypeOK' /\ Quiet'
  BY <1>1, HandledTypes
<1>3. Len(Script(b)) = 8
  BY ScriptLengths
<1>4. /\ TypeOK /\ pc = "busy" /\ button = b /\ button' = b
      /\ wasOpen' = wasOpen
  BY <1>1, Handled
<1>5. k \in 0 .. 7
  <2>1. k \in 0 .. Len(Script(button)) - 1
    BY <1>4 DEF TypeOK
  <2>2. Len(Script(button)) - 1 = 7
    BY <1>3, <1>4
  <2> QED  BY <2>1, <2>2
<1>6. CASE /\ k + 1 < Len(Script(b)) /\ k' = k + 1
           /\ pc' = "busy" /\ verdict' = "none"
  <2>1. k < 7
    <3>1. k + 1 < 8
      BY <1>3, <1>6
    <3> QED  BY <1>5, <3>1
  <2> QED  BY <1>2, <1>4, <1>5, <1>6, <2>1
<1>7. CASE /\ k + 1 = Len(Script(b)) /\ k' = 0 /\ pc' = "idle"
           /\ verdict' = IF b \notin Checks THEN "none"
                         ELSE IF fail' THEN "fail" ELSE "pass"
  <2>1. k = 7
    <3>1. k + 1 = 8
      BY <1>3, <1>7
    <3> QED  BY <1>5, <3>1
  <2>2. verdict' = IF fail' THEN "fail" ELSE "pass"
    BY <1>1, <1>7
  <2> QED  BY <1>2, <1>4, <1>5, <1>7, <2>1, <2>2
<1> QED  BY <1>1, <1>6, <1>7, Handled

(* The exchange that sys_reset makes.                                      *)
LEMMA ResetExchange ==
  ASSUME IInv, sys_reset
  PROVE  \E how \in {"done"} \union Faults :
           Exchanged(Script("sys_reset")[k + 1], how)
BY Handled DEF sys_reset, Handlers, Checks

(* While sys_reset runs clean, the target follows it.                     *)
LEMMA ResetFollowsStep ==
  ASSUME IInv, sys_reset, k < 7
  PROVE  ResetFollows'
<1>1. /\ TypeOK /\ k \in 0 .. 7 /\ pc = "busy" /\ button = "sys_reset"
      /\ button' = "sys_reset" /\ k' = k + 1 /\ pc' = "busy"
  BY ResetMoves
<1>2. PICK how \in {"done"} \union Faults :
        Exchanged(Script("sys_reset")[k + 1], how)
  BY ResetExchange
<1>3. Following("sys_reset")' => present' /\ lost' = 0
  BY DEF Following
<1>4. present /\ lost = 0 =>
        /\ ~ fail
        /\ k < 4 => Opening
        /\ k >= 4 => powered /\ wasReset /\ ~ halted
        /\ k = 4 => regs = {}
        /\ k >= 6 => "enable" \in regs
        /\ k >= 7 => "key" \in regs
  <2>1. ResetFollows
    BY DEF IInv
  <2>2. present /\ lost = 0 => Following("sys_reset")
    BY <1>1 DEF Following
  <2> QED  BY <2>1, <2>2 DEF ResetFollows
<1> SUFFICES ASSUME present', lost' = 0
             PROVE  /\ ~ fail'
                    /\ k' < 4 => Opening'
                    /\ k' >= 4 => powered' /\ wasReset' /\ ~ halted'
                    /\ k' = 4 => regs' = {}
                    /\ k' >= 6 => "enable" \in regs'
                    /\ k' >= 7 => "key" \in regs'
  BY <1>3 DEF ResetFollows
<1>5. CASE k = 0
  <2>1. /\ lost = 0 /\ TargetActs("power")
        /\ (fail' <=> fail) /\ (present' <=> present)
    BY <1>1, <1>2, <1>5, ResetEntries, CleanCommand
  <2>2. present /\ ~ fail
    BY <1>4, <1>5, <2>1
  <2>3. powered'
    BY <1>1, <2>1, PowerActs
  <2>4. /\ k' < 4 /\ ~ (k' >= 2) /\ ~ (k' >= 3) /\ ~ (k' >= 4)
        /\ ~ (k' >= 6) /\ ~ (k' >= 7) /\ k' # 4
    BY <1>1, <1>5
  <2> QED  BY <2>1, <2>2, <2>3, <2>4 DEF Opening
<1>6. CASE k = 1
  <2>1. /\ lost = 0 /\ TargetActs("enable")
        /\ (fail' <=> fail) /\ (present' <=> present)
    BY <1>1, <1>2, <1>6, ResetEntries, CleanCommand
  <2>2. k < 4 /\ k >= 1
    BY <1>6
  <2>3. present /\ ~ fail /\ powered
    BY <1>4, <1>6, <2>1, <2>2 DEF Opening
  <2>4. powered' /\ "enable" \in regs'
    BY <1>1, <2>1, <2>3, UnlockActs
  <2>5. /\ k' < 4 /\ ~ (k' >= 3) /\ ~ (k' >= 4) /\ ~ (k' >= 6)
        /\ ~ (k' >= 7) /\ k' # 4
    BY <1>1, <1>6
  <2> QED  BY <2>1, <2>3, <2>4, <2>5 DEF Opening
<1>7. CASE k = 2
  <2>1. /\ lost = 0 /\ TargetActs("key")
        /\ (fail' <=> fail) /\ (present' <=> present)
    BY <1>1, <1>2, <1>7, ResetEntries, CleanCommand
  <2>2. k < 4 /\ k >= 2
    BY <1>7
  <2>3. present /\ ~ fail /\ powered /\ "enable" \in regs
    BY <1>4, <1>7, <2>1, <2>2 DEF Opening
  <2>4. powered' /\ "enable" \in regs' /\ "key" \in regs'
    BY <1>1, <2>1, <2>3, UnlockActs
  <2>5. /\ k' < 4 /\ ~ (k' >= 4) /\ ~ (k' >= 6) /\ ~ (k' >= 7)
        /\ k' # 4
    BY <1>1, <1>7
  <2> QED  BY <2>1, <2>3, <2>4, <2>5 DEF Opening
<1>8. CASE k = 3
  <2>1. /\ lost = 0 /\ TargetActs("reset")
        /\ (fail' <=> fail) /\ (present' <=> present)
    BY <1>1, <1>2, <1>8, ResetEntries, CleanCommand
  <2>2. k < 4 /\ k >= 3
    BY <1>8
  <2>3. present /\ ~ fail /\ powered /\ "enable" \in regs /\ "key" \in regs
    BY <1>4, <1>8, <2>1, <2>2 DEF Opening
  <2>4. Unlocked
    BY <2>3 DEF Unlocked, Answers
  <2>5. powered' /\ wasReset' /\ ~ halted' /\ regs' = {}
    BY <1>1, <2>1, <2>4, ResetActs
  <2>6. ~ (k' < 4) /\ ~ (k' >= 6) /\ ~ (k' >= 7)
    BY <1>1, <1>8
  <2> QED  BY <2>1, <2>3, <2>5, <2>6 DEF Opening
<1>9. CASE k = 4
  <2>1. Exchanged(Look("key", {"1"}), how)
    BY <1>2, <1>9, ResetEntries
  <2>2. PICK v \in TargetReads("key") : fail' = (fail \/ v \in {"1"})
    BY <1>1, <2>1, CleanRead
  <2>3. /\ lost = 0 /\ powered' = powered /\ regs' = regs /\ halted' = halted
        /\ present' = present /\ wasReset' = wasReset
    BY <1>1, <2>1, CleanRead DEF target
  <2>4. k >= 4 /\ k >= 4
    BY <1>9
  <2>5. present /\ ~ fail /\ powered /\ wasReset /\ ~ halted /\ regs = {}
    BY <1>4, <1>9, <2>3, <2>4
  <2>6. v # "1"
    BY <2>2, <2>5 DEF TargetReads, Answers, Unlocked
  <2>7. powered' /\ wasReset' /\ ~ halted' /\ regs' = {} /\ ~ fail'
    BY <2>2, <2>3, <2>5, <2>6
  <2>8. ~ (k' < 4) /\ ~ (k' >= 6) /\ ~ (k' >= 7) /\ k' # 4
    BY <1>1, <1>9
  <2> QED  BY <2>3, <2>5, <2>7, <2>8
<1>10. CASE k = 5
  <2>1. /\ lost = 0 /\ TargetActs("enable")
        /\ (fail' <=> fail) /\ (present' <=> present)
    BY <1>1, <1>2, <1>10, ResetEntries, CleanCommand
  <2>2. k >= 4 /\ k >= 5
    BY <1>10
  <2>3. present /\ ~ fail /\ powered /\ wasReset /\ ~ halted
    BY <1>4, <1>10, <2>1, <2>2
  <2>4. powered' /\ wasReset' /\ ~ halted' /\ "enable" \in regs'
    BY <1>1, <2>1, <2>3, UnlockActs
  <2>5. ~ (k' < 4) /\ ~ (k' >= 7) /\ k' # 4
    BY <1>1, <1>10
  <2> QED  BY <2>1, <2>3, <2>4, <2>5
<1>11. CASE k = 6
  <2>1. /\ lost = 0 /\ TargetActs("key")
        /\ (fail' <=> fail) /\ (present' <=> present)
    BY <1>1, <1>2, <1>11, ResetEntries, CleanCommand
  <2>2. k >= 4 /\ k >= 6
    BY <1>11
  <2>3. present /\ ~ fail /\ powered /\ wasReset /\ ~ halted /\ "enable" \in regs
    BY <1>4, <1>11, <2>1, <2>2
  <2>4. powered' /\ wasReset' /\ ~ halted' /\ "enable" \in regs' /\ "key" \in regs'
    BY <1>1, <2>1, <2>3, UnlockActs
  <2>5. ~ (k' < 4) /\ k' # 4
    BY <1>1, <1>11
  <2> QED  BY <2>1, <2>3, <2>4, <2>5
<1> QED  BY <1>1, <1>5, <1>6, <1>7, <1>8, <1>9, <1>10, <1>11

(* While sys_reset runs, a lost reset is paid for.                         *)
LEMMA LossesCountStep ==
  ASSUME IInv, sys_reset, k < 7
  PROVE  LossesCount'
<1>1. /\ TypeOK /\ k \in 0 .. 7 /\ pc = "busy" /\ button = "sys_reset"
      /\ wasOpen' = wasOpen /\ k' = k + 1 /\ lost \in Nat
  BY ResetMoves DEF TypeOK
<1>2. PICK how \in {"done"} \union Faults :
        Exchanged(Script("sys_reset")[k + 1], how)
  BY ResetExchange
<1>3. wasOpen /\ ~ wasReset =>
        /\ Unlocked
        /\ k >= 4 => lost >= 1
        /\ k >= 5 => fail \/ lost >= 2
  BY <1>1 DEF IInv, LossesCount
<1> SUFFICES ASSUME wasOpen, ~ wasReset'
             PROVE  /\ Unlocked'
                    /\ k' >= 4 => lost' >= 1
                    /\ k' >= 5 => fail' \/ lost' >= 2
  BY <1>1 DEF LossesCount
<1>4. ~ wasReset
  BY <1>2 DEF Exchanged, Exchange, Acted, TargetActs
<1>5. Unlocked
  BY <1>3, <1>4
<1>6. lost' \in Nat /\ lost' >= lost
  BY <1>1, <1>2 DEF Exchanged, Exchange, Acted
<1>7. CASE k \in {0, 1, 2}
  <2>1. Unlocked'
    BY <1>1, <1>2, <1>5, <1>7, ResetEntries, StaysOpen
  <2>2. ~ (k' >= 4) /\ ~ (k' >= 5)
    BY <1>1, <1>7
  <2> QED  BY <2>1, <2>2
<1>8. CASE k = 3
  <2>1. Unlocked' /\ lost' >= 1
    BY <1>1, <1>2, <1>5, <1>8, ResetEntries, ResetLost
  <2>2. ~ (k' >= 5)
    BY <1>1, <1>8
  <2> QED  BY <2>1, <2>2
<1>9. CASE k = 4
  <2>1. Exchanged(Look("key", {"1"}), how)
    BY <1>2, <1>9, ResetEntries
  <2>2. Unlocked'
    BY <1>1, <1>5, <2>1, Looking DEF target, Unlocked, Answers
  <2>3. lost >= 1
    BY <1>3, <1>4, <1>9
  <2>4. lost' >= 1
    BY <1>1, <1>6, <2>3
  <2>5. CASE how = "done"
    <3>1. PICK v \in Got("key", how) : fail' = (fail \/ v \in {"1"})
      BY <1>1, <2>1, Looking
    <3>2. v = "1"
      BY <1>5, <2>5, <3>1 DEF Got, TargetReads, Unlocked
    <3> QED  BY <2>2, <2>4, <3>1, <3>2
  <2>6. CASE how # "done"
    <3>1. lost' = lost + 1
      BY <1>1, <2>1, <2>6, Looking
    <3>2. lost' >= 2
      BY <1>1, <2>3, <3>1
    <3> QED  BY <2>2, <2>4, <3>2
  <2> QED  BY <2>5, <2>6
<1>10. CASE k \in {5, 6}
  <2>1. k >= 4 /\ k >= 5
    BY <1>10
  <2>2. lost >= 1 /\ (fail \/ lost >= 2)
    BY <1>3, <1>4, <2>1
  <2>3. Unlocked' /\ (fail' <=> fail)
    BY <1>1, <1>2, <1>5, <1>10, ResetEntries, StaysOpen
  <2>4. lost' >= 1 /\ (lost >= 2 => lost' >= 2)
    BY <1>1, <1>6, <2>2
  <2> QED  BY <2>2, <2>3, <2>4
<1> QED  BY <1>1, <1>7, <1>8, <1>9, <1>10

(* The last read of sys_reset, and its verdict.                            *)
LEMMA ResetEnds ==
  ASSUME IInv, sys_reset, k = 7
  PROVE  OneLossIsNoticed' /\ CleanPasses'
<1>1. /\ TypeOK /\ pc = "busy" /\ button = "sys_reset" /\ wasOpen' = wasOpen
      /\ verdict' = IF fail' THEN "fail" ELSE "pass"
  BY ResetMoves
<1>2. lost \in Nat
  BY <1>1 DEF TypeOK
<1>3. PICK how \in {"done"} \union Faults : Exchanged(Look("key", {"0"}), how)
  BY ResetExchange, ResetEntries
<1>4. UNCHANGED <<target, wasReset>>
  BY <1>1, <1>3, Looking
<1>5. lost' \in Nat /\ lost' >= lost
  BY <1>2, <1>3 DEF Exchanged, Exchange, Acted
<1>6. fail => fail'
  BY <1>1, <1>3, Looking
<1>7. k >= 4 /\ k >= 5 /\ k >= 6 /\ k >= 7
  OBVIOUS
<1>8. OneLossIsNoticed'
  <2> SUFFICES ASSUME ~ fail', wasOpen, ~ wasReset, lost' <= 1 PROVE FALSE
    BY <1>1, <1>4 DEF OneLossIsNoticed, Passed
  <2>1. fail \/ lost >= 2
    BY <1>1, <1>7 DEF IInv, LossesCount
  <2>2. lost >= 2
    BY <1>6, <2>1
  <2> QED  BY <1>2, <1>5, <2>2
<1>9. CleanPasses'
  <2> SUFFICES ASSUME present', lost' = 0
               PROVE  verdict' = "pass" /\ Unlocked' /\ wasReset' /\ ~ halted'
    BY DEF CleanPasses
  <2>1. PICK v \in TargetReads("key") : fail' = (fail \/ v \in {"0"})
    BY <1>1, <1>3, CleanRead
  <2>2. present /\ lost = 0
    BY <1>1, <1>3, <1>4, CleanRead DEF target
  <2>3. Following("sys_reset")
    BY <1>1, <2>2 DEF Following
  <2>4. ResetFollows
    BY DEF IInv
  <2>5. /\ ~ fail /\ powered /\ wasReset /\ ~ halted
        /\ "enable" \in regs /\ "key" \in regs
    BY <1>7, <2>3, <2>4 DEF ResetFollows
  <2>6. Unlocked
    BY <2>2, <2>5 DEF Unlocked, Answers
  <2>7. v = "1"
    BY <2>1, <2>6 DEF TargetReads, Unlocked
  <2>8. Unlocked' /\ wasReset' /\ ~ halted'
    BY <1>4, <2>5, <2>6 DEF target, Unlocked, Answers
  <2>9. ~ fail'
    BY <2>1, <2>5, <2>7
  <2> QED  BY <1>1, <2>8, <2>9
<1> QED  BY <1>8, <1>9

(* Every exchange of sys_reset preserves the invariant.                    *)
LEMMA ResetStep == ASSUME IInv, sys_reset PROVE IInv'
<1>1. "sys_reset" \in Handlers /\ Handle("sys_reset") /\ "sys_reset" # "i2c_check"
      /\ "sys_reset" # "mcu_reset_halt"
  BY DEF Handlers, Checks, sys_reset
<1>2. /\ TypeOK' /\ Quiet' /\ CheckFollows' /\ HaltFollows'
      /\ CheckMeansUnlocked' /\ HaltMeansHalted'
  BY <1>1, ResetMoves, OtherButtons
<1>3. CASE k < 7 /\ k' = k + 1 /\ pc' = "busy" /\ verdict' = "none"
  <2>1. OneLossIsNoticed' /\ CleanPasses'
    BY <1>3 DEF OneLossIsNoticed, CleanPasses, Passed
  <2> QED  BY <1>2, <1>3, <2>1, ResetFollowsStep, LossesCountStep DEF IInv
<1>4. CASE k = 7 /\ pc' = "idle"
  <2>1. ResetFollows' /\ LossesCount'
    BY <1>4 DEF ResetFollows, LossesCount, Following
  <2> QED  BY <1>2, <1>4, <2>1, ResetEnds DEF IInv
<1> QED  BY <1>3, <1>4, ResetMoves

(* The two buttons that print no verdict.                                  *)
LEMMA WordSteps ==
  ASSUME IInv, NEW b \in {"mem_read", "mem_write"}, Handle(b)
  PROVE  IInv'
<1>1. b \in Handlers /\ b \notin Checks
  BY DEF Handlers, Checks
<1>2. b # "i2c_check" /\ b # "mcu_reset_halt" /\ b # "sys_reset"
  OBVIOUS
<1>3. TypeOK' /\ Quiet'
  BY <1>1, HandledTypes
<1>4. /\ CheckFollows' /\ HaltFollows' /\ ResetFollows' /\ LossesCount'
      /\ CheckMeansUnlocked' /\ HaltMeansHalted' /\ OneLossIsNoticed'
      /\ CleanPasses'
  BY <1>1, <1>2, OtherButtons
<1> QED  BY <1>3, <1>4 DEF IInv

(* And so does a step that changes nothing.                                *)
LEMMA StutterStep == IInv /\ UNCHANGED vars => IInv'
<1> SUFFICES ASSUME IInv, UNCHANGED vars PROVE IInv'
  OBVIOUS
<1>1. /\ UNCHANGED <<pc, button, k, fail, verdict, m_data, presses>>
      /\ UNCHANGED <<lost, unheard, wasOpen, wasReset>>
      /\ UNCHANGED <<present, powered, regs, halted, word>>
  BY DEF vars, history, target
<1>2. TypeOK' /\ Quiet'
  BY <1>1 DEF IInv, TypeOK, Quiet, Script
<1>3. CheckFollows' /\ HaltFollows' /\ ResetFollows' /\ LossesCount'
  BY <1>1 DEF IInv, CheckFollows, HaltFollows, ResetFollows, LossesCount,
              Following, Opening, Unlocked, Answers
<1>4. /\ CheckMeansUnlocked' /\ HaltMeansHalted' /\ OneLossIsNoticed'
      /\ CleanPasses'
  BY <1>1 DEF IInv, CheckMeansUnlocked, HaltMeansHalted, OneLossIsNoticed,
              CleanPasses, Passed, Unlocked, Answers
<1> QED  BY <1>2, <1>3, <1>4 DEF IInv

(* The invariant is inductive.                                             *)
LEMMA EveryStep == IInv /\ [Next]_vars => IInv'
<1> SUFFICES ASSUME IInv, [Next]_vars PROVE IInv'
  OBVIOUS
<1>1. ASSUME NEW b \in Handlers, Press(b) PROVE IInv'
  BY <1>1, PressStep
<1>2. CASE mem_read
  BY <1>2, WordSteps DEF mem_read
<1>3. CASE mem_write
  BY <1>3, WordSteps DEF mem_write
<1>4. CASE i2c_check
  BY <1>4, CheckStep
<1>5. CASE mcu_reset_halt
  BY <1>5, HaltStep
<1>6. CASE sys_reset
  BY <1>6, ResetStep
<1>7. CASE Swap
  BY <1>7, SwapStep
<1>8. CASE UNCHANGED vars
  BY <1>8, StutterStep
<1> QED
  BY <1>1, <1>2, <1>3, <1>4, <1>5, <1>6, <1>7, <1>8 DEF Next

-----------------------------------------------------------------------------
(* Everything that the buttons rely on, in one inductive invariant.        *)
THEOREM IInvHolds == Spec => []IInv
BY InitHolds, EveryStep, PTL DEF Spec

(* The window's and the target's state keep their types.                   *)
THEOREM TypeCorrect == Spec => []TypeOK
<1>1. IInv => TypeOK
  BY DEF IInv
<1> QED  BY <1>1, IInvHolds, PTL

(* "i2c check pass" after a read that was answered: the target is there,   *)
(* powered and unlocked, however many commands were lost (i2c_check).      *)
THEOREM CheckMeansUnlockedHolds == Spec => []CheckMeansUnlocked
<1>1. IInv => CheckMeansUnlocked
  BY DEF IInv
<1> QED  BY <1>1, IInvHolds, PTL

(* "mcu reset & halt pass" after a read that was answered: the processor   *)
(* is halted (mcu_reset_halt).                                             *)
THEOREM HaltMeansHaltedHolds == Spec => []HaltMeansHalted
<1>1. IInv => HaltMeansHalted
  BY DEF IInv
<1> QED  BY <1>1, IInvHolds, PTL

(* One lost exchange does not hide, from a target that was unlocked, that  *)
(* it has not been reset (sys_reset).                                      *)
THEOREM OneLossIsNoticedHolds == Spec => []OneLossIsNoticed
<1>1. IInv => OneLossIsNoticed
  BY DEF IInv
<1> QED  BY <1>1, IInvHolds, PTL

(* Without faults the check buttons pass and do their work, whatever was   *)
(* pressed before (i2c_check, mcu_reset_halt, sys_reset).                  *)
THEOREM CleanPassesHolds == Spec => []CleanPasses
<1>1. IInv => CleanPasses
  BY DEF IInv
<1> QED  BY <1>1, IInvHolds, PTL
=============================================================================
