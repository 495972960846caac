------------------------------- MODULE Buttons -------------------------------
(***************************************************************************)
(* The buttons of CMtp_test_guiDlg that work on single words of the        *)
(* target: mem_read, mem_write, i2c_check, mcu_reset_halt and sys_reset,   *)
(* pressed in any order.                                                   *)
(*                                                                         *)
(* A button is a script of exchanges: i2c_power_on, i2c_wr_word,           *)
(* i2c_rd_word.  Nobody looks at data_trans's result.  A word whose        *)
(* exchange failed reads as zero, because i2c_bus_rd32 clears the bytes it *)
(* asks for before it asks.                                                *)
(*                                                                         *)
(* The target is external.  It is what the scripts use it as: 0xFFFFFF00   *)
(* and 0x40014018 unlock it, 0x40014018 then reads as one, 0x40014014      *)
(* halts its processor or resets the chip, and a reset locks it again.  A  *)
(* locked target does not read as one.  No target at all reads as all      *)
(* ones.  The operator may put another chip into the socket between        *)
(* buttons.                                                                *)
(***************************************************************************)
EXTENDS Integers, Sequences

CONSTANTS
  Faults,        (* how an exchange may fail, a subset of FaultKinds        *)
  MaxFaults,     (* bound: failed exchanges in one press of a button        *)
  MaxPresses     (* bound: buttons pressed                                  *)

FaultKinds == {
  "unsent",      (* WriteFile and ReadFile both fail                        *)
  "unread",      (* the bridge acts, ReadFile fails                         *)
  "wrong",       (* the bridge acts, what is read is not its reply          *)
  "stale" }      (* WriteFile fails, an older reply is read                 *)

VARIABLES
  pc,            (* "idle" or "busy"                                        *)
  button,        (* the button being handled, or the last one               *)
  k,             (* exchanges of its script so far                          *)
  fail,          (* the handler's variable                                  *)
  verdict,       (* what it has printed: "none", "pass" or "fail"           *)
  m_data,        (* the data field of the window                            *)
  presses,       (* buttons pressed                                         *)
  lost,          (* failed exchanges of this press                          *)
  unheard,       (* one of them was a read                                  *)
  wasOpen,       (* the target was unlocked when the button was pressed     *)
  wasReset,      (* the target has been reset since then                    *)
  present, powered, regs, halted, word      (* the target                   *)

target  == <<present, powered, regs, halted, word>>
history == <<lost, unheard, wasOpen, wasReset>>
vars == <<pc, button, k, fail, verdict, m_data, presses, history, target>>

(* Words: the values the handlers compare with, and nothing else.          *)
Values == {"0", "1", "halted", "ones"}

-----------------------------------------------------------------------------
(* The target (external).                                                  *)

Answers  == present /\ powered
Unlocked == Answers /\ {"enable", "key"} \subseteq regs

(* What reading a register may give.                                       *)
TargetReads(r) ==
  IF ~ Answers THEN {"ones"}
  ELSE IF ~ Unlocked THEN {"0", "ones"}
  ELSE CASE r = "key"  -> {"1"}
         [] r = "ctrl" -> {IF halted THEN "halted" ELSE "0"}
         [] r = "word" -> {word}

(* What a command does when the bridge acts on it.                         *)
TargetActs(r) ==
  LET reset == r = "reset" /\ Unlocked
  IN  /\ powered' = (powered \/ r = "power")
      /\ regs' = IF reset THEN {}
                 ELSE IF Answers /\ r \in {"enable", "key"} THEN regs \union {r}
                 ELSE regs
      /\ halted' = IF reset THEN FALSE
                   ELSE halted \/ (r = "halt" /\ Unlocked)
      /\ word' = IF r = "word" /\ Unlocked THEN m_data ELSE word
      /\ wasReset' = (wasReset \/ reset)
      /\ UNCHANGED present

(* Another chip, or none, in the socket.                                   *)
Swap ==
  /\ pc = "idle"
  /\ present' \in BOOLEAN
  /\ regs' = {}
  /\ halted' = FALSE
  /\ word' = "0"
  /\ verdict' = "none"
  /\ UNCHANGED <<pc, button, k, fail, m_data, presses, history, powered>>

-----------------------------------------------------------------------------
(* A command, and a read with the values the handler takes for a failure.  *)
Do(r)          == [do |-> "write", reg |-> r, bad |-> {}]
Look(r, wrong) == [do |-> "read", reg |-> r, bad |-> wrong]

CheckScript_AnyAnswer ==
  <<Do("power"), Do("enable"), Do("key"), Look("key", {"0"})>>

(* if(1 != i2c_rd_word(0x40014018))                                        *)
CheckScript ==
  <<Do("power"), Do("enable"), Do("key"), Look("key", Values \ {"1"})>>

HaltScript_LooksAtKey ==
  <<Do("power"), Do("enable"), Do("key"), Do("halt"),
    Look("key", Values \ {"1"})>>

(* if(0x00010000 != i2c_rd_word(0x40014014))                               *)
HaltScript ==
  <<Do("power"), Do("enable"), Do("key"), Do("halt"),
    Look("ctrl", Values \ {"halted"})>>

ResetScript_OneCheck ==
  <<Do("power"), Do("enable"), Do("key"), Do("reset"),
    Do("enable"), Do("key"), Look("key", {"0"})>>

ResetScript_NoUnlock ==
  <<Do("power"), Do("enable"), Do("key"), Do("reset"), Look("key", {"1"}),
    Look("key", {"0"})>>

(* if(1 == i2c_rd_word(0x40014018)), and later if(0 == ...)                *)
ResetScript ==
  <<Do("power"), Do("enable"), Do("key"), Do("reset"), Look("key", {"1"}),
    Do("enable"), Do("key"), Look("key", {"0"})>>

Script(b) ==
  CASE b = "i2c_check"      -> CheckScript
    [] b = "mcu_reset_halt" -> HaltScript
    [] b = "sys_reset"      -> ResetScript
    [] b = "mem_read"       -> <<Look("word", {})>>
    [] b = "mem_write"      -> <<Do("word")>>

Checks  == {"i2c_check", "mcu_reset_halt", "sys_reset"}
Handlers == Checks \union {"mem_read", "mem_write"}

(* A button is pressed; the user may have typed another value before.      *)
Press(b) ==
  /\ pc = "idle"
  /\ presses < MaxPresses
  /\ pc' = "busy"
  /\ button' = b
  /\ k' = 0
  /\ fail' = FALSE
  /\ verdict' = "none"
  /\ m_data' \in {m_data} \union (IF b = "mem_write" THEN {"0", "1"} ELSE {})
  /\ presses' = presses + 1
  /\ lost' = 0
  /\ unheard' = FALSE
  /\ wasOpen' = Unlocked
  /\ wasReset' = FALSE
  /\ UNCHANGED target

Acted(how) == how \notin {"unsent", "stale"}

(* What i2c_rd_word may return.                                            *)
Got(r, how) ==
  IF how = "done" THEN TargetReads(r)
  ELSE IF how \in {"wrong", "stale"} THEN Values
  ELSE {"0"}

(* An exchange of a script; a read returns one of got.                     *)
Exchange(entry, how, got) ==
  /\ how = "done" \/ lost < MaxFaults
  /\ lost' = IF how = "done" THEN lost ELSE lost + 1
  /\ IF Acted(how) /\ entry.do = "write"
     THEN TargetActs(entry.reg)
     ELSE UNCHANGED <<target, wasReset>>
  /\ IF entry.do = "read"
     THEN \E v \in got :
            /\ fail' = (fail \/ v \in entry.bad)
            /\ m_data' = IF button = "mem_read" THEN v ELSE m_data
            /\ unheard' = (unheard \/ how # "done")
     ELSE UNCHANGED <<fail, m_data, unheard>>

Onward_OneMore(b) ==
  /\ IF k + 1 <= Len(Script(b))
     THEN /\ k' = k + 1
          /\ UNCHANGED <<pc, verdict>>
     ELSE /\ k' = 0
          /\ pc' = "idle"
          /\ verdict' = IF b \notin Checks THEN "none"
                        ELSE IF fail' THEN "fail" ELSE "pass"
  /\ UNCHANGED <<button, presses, wasOpen>>

(* After the last one the handler prints its verdict and returns.          *)
Onward(b) ==
  /\ IF k + 1 < Len(Script(b))
     THEN /\ k' = k + 1
          /\ UNCHANGED <<pc, verdict>>
     ELSE /\ k' = 0
          /\ pc' = "idle"
          /\ verdict' = IF b \notin Checks THEN "none"
                        ELSE IF fail' THEN "fail" ELSE "pass"
  /\ UNCHANGED <<button, presses, wasOpen>>

Handle(b) ==
  /\ pc = "busy"
  /\ button = b
  /\ LET entry == Script(b)[k + 1]
     IN  \E how \in {"done"} \union Faults :
           Exchange(entry, how, Got(entry.reg, how))
  /\ Onward(b)

mem_read       == Handle("mem_read")
mem_write      == Handle("mem_write")
i2c_check      == Handle("i2c_check")
mcu_reset_halt == Handle("mcu_reset_halt")
sys_reset      == Handle("sys_reset")

-----------------------------------------------------------------------------
(* The dialog's constructor has switched the target's power off, if the    *)
(* bridge has heard of it; else the target is as it was left.              *)
Init ==
  /\ pc = "idle"
  /\ button \in Handlers
  /\ k = 0
  /\ fail = FALSE
  /\ verdict = "none"
  /\ m_data = "ones"
  /\ presses = 0
  /\ lost = 0
  /\ unheard = FALSE
  /\ wasOpen = FALSE
  /\ wasReset = FALSE
  /\ present \in BOOLEAN
  /\ powered \in BOOLEAN
  /\ regs \in IF Answers THEN SUBSET {"enable", "key"} ELSE {{}}
  /\ halted \in IF Answers THEN BOOLEAN ELSE {FALSE}
  /\ word = "0"

Next ==
  \/ \E b \in Handlers : Press(b)
  \/ mem_read \/ mem_write \/ i2c_check \/ mcu_reset_halt \/ sys_reset
  \/ Swap

Spec == Init /\ [][Next]_vars

-----------------------------------------------------------------------------
(* Types of the window's and the target's state.                           *)
TypeOK ==
  /\ pc \in {"idle", "busy"}
  /\ button \in Handlers
  /\ k \in 0 .. Len(Script(button)) - 1
  /\ fail \in BOOLEAN /\ unheard \in BOOLEAN
  /\ wasOpen \in BOOLEAN /\ wasReset \in BOOLEAN
  /\ verdict \in {"none", "pass", "fail"}
  /\ m_data \in Values /\ word \in Values
  /\ presses \in Nat /\ lost \in Nat
  /\ present \in BOOLEAN /\ powered \in BOOLEAN /\ halted \in BOOLEAN
  /\ regs \subseteq {"enable", "key"}

Passed(b) == pc = "idle" /\ button = b /\ verdict = "pass"

(* "i2c check pass", when its read was answered, means a target that is    *)
(* there, powered and unlocked, whatever else was lost on the way.         *)
CheckMeansUnlocked == Passed("i2c_check") /\ ~ unheard => Unlocked

(* "mcu reset & halt pass" means, likewise, a processor that is halted.    *)
HaltMeansHalted ==
  Passed("mcu_reset_halt") /\ ~ unheard => Unlocked /\ halted

(* On a target that was unlocked when the button was pressed, no single    *)
(* lost exchange lets sys_reset pass without a reset.                      *)
OneLossIsNoticed ==
  Passed("sys_reset") /\ wasOpen /\ lost <= 1 => wasReset

(* Without faults every check button passes on a target that is there, in  *)
(* whatever state the buttons before have left it, and does its work:      *)
(* after sys_reset the processor runs, and the target is unlocked again.   *)
CleanPasses ==
  pc = "idle" /\ verdict # "none" /\ present /\ lost = 0 =>
    /\ verdict = "pass"
    /\ Unlocked
    /\ button = "sys_reset" => wasReset /\ ~ halted

(* "sys_reset pass" means that the target has been reset.                  *)
ResetMeansReset == Passed("sys_reset") => wasReset
=============================================================================
