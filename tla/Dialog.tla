-------------------------------- MODULE Dialog --------------------------------
(***************************************************************************)
(* The window around the download buttons: a file is chosen with load_hex, *)
(* downloads are pressed one after the other, on the same chip or on       *)
(* another, and the program may be killed and started again at any time.   *)
(*                                                                         *)
(* A press finds the target as the presses before have left it: powered,   *)
(* unlocked and halted after a download that failed, with part of another  *)
(* image and with the flag words in its eFlash.  The file is read again at *)
(* every press, whatever has become of it since load_hex named it.         *)
(***************************************************************************)
EXTENDS Download

CONSTANTS
  MaxPresses     (* bound: downloads pressed                                *)

ASSUME PressesAssumption == MaxPresses \in Nat
ASSUME NoFileAssumption == \E l \in Loads : l.kind = "none"

VARIABLES
  file_name,     (* "NULL", "empty" (the file dialog was cancelled) or      *)
                 (* "path"                                                  *)
  presses        (* downloads pressed                                       *)

dialogVars == <<vars, file_name, presses>>

-----------------------------------------------------------------------------
(* What a press may make of the file name: no file, one that fopen cannot  *)
(* open, or whatever the file holds by then.                               *)
Opened(name) ==
  {l \in Loads : CASE name = "NULL"  -> l.kind = "none"
                   [] name = "empty" -> l.kind = "unopened"
                   [] name = "path"  -> l.kind # "none"}

(* load_hex forgets the last file before it asks for another.              *)
load_hex ==
  /\ pc = "over"
  /\ file_name' \in {"empty", "path"}
  /\ verdict' = "none"
  /\ UNCHANGED <<op, load, pc, k, tmp, failed, unheard, target, presses>>

(* mtp_cp1_test or mtp_cp2_test is called.  A transfer whose last packet   *)
(* was lost is still open.                                                 *)
Press ==
  /\ pc = "over"
  /\ presses < MaxPresses
  /\ presses' = presses + 1
  /\ op' \in {"cp1", "cp2"}
  /\ load' \in Opened(file_name)
  /\ pc' = "power"
  /\ tmp' = <<>>
  /\ verdict' = "none"
  /\ failed' = 0
  /\ unheard' = FALSE
  /\ UNCHANGED <<k, target, file_name>>

Erased == {[a \in Offset |-> b] : b \in Byte}

(* Another chip is put into the socket.                                    *)
Swap ==
  /\ pc = "over"
  /\ verdict' = "none"
  /\ regs' = {}
  /\ \E e \in Erased : mem' = [s \in {"flash", "sram"} |-> e]
  /\ cursor' = NoCursor
  /\ UNCHANGED <<op, load, pc, k, tmp, failed, unheard, powered, file_name,
                 presses>>

(* i2c_power_off; only the eFlash outlives it.                             *)
PowerOff ==
  /\ powered' = FALSE
  /\ regs' = {}
  /\ \E e \in Erased : mem' = [mem EXCEPT !["sram"] = e]
  /\ cursor' = NoCursor

(* The program is killed, in the middle of a download or not, and started  *)
(* again: the window's constructor asks the bridge to switch the target    *)
(* off, and does not learn whether it has; it may wait for the answer for  *)
(* ever, like every exchange.                                              *)
Restart ==
  /\ k' = 0
  /\ tmp' = <<>>
  /\ verdict' = "none"
  /\ failed' = 0
  /\ unheard' = FALSE
  /\ file_name' = "NULL"
  /\ \E how \in {"done"} \union Faults :
       /\ IF Acted(how) THEN PowerOff ELSE UNCHANGED target
       /\ pc' = IF how = "blocked" THEN "blocked" ELSE "over"
  /\ UNCHANGED <<op, load, presses>>

Download == Next /\ UNCHANGED <<file_name, presses>>

DialogInit ==
  /\ op \in {"cp1", "cp2"}
  /\ load \in Opened("NULL")
  /\ pc = "over"
  /\ k = 0
  /\ tmp = <<>>
  /\ verdict = "none"
  /\ failed = 0
  /\ unheard = FALSE
  /\ powered \in BOOLEAN
  /\ regs = {}
  /\ \E e \in Erased : mem = [s \in {"flash", "sram"} |-> e]
  /\ cursor = NoCursor
  /\ file_name = "NULL"
  /\ presses = 0

DialogNext == load_hex \/ Press \/ Swap \/ Restart \/ Download

DialogSpec == DialogInit /\ [][DialogNext]_dialogVars

-----------------------------------------------------------------------------
(* Types of the window's state.                                            *)
DialogTypeOK ==
  /\ TypeOK
  /\ file_name \in {"NULL", "empty", "path"}
  /\ presses \in 0 .. MaxPresses

(* A download whose exchanges all went well passes exactly when its image  *)
(* does not contradict the flag words, whatever the downloads before it    *)
(* have left in the target: partial images, flag words without an image,   *)
(* registers that are already open, a processor that is already halted.    *)
RetryRecovers == CleanVerdict

(* A pass on bytes that came from the target means that this chip holds    *)
(* this image: not the one before it, and not one downloaded earlier.      *)
FreshPassMeansProgrammed == HeardPassMeansProgrammed

(* Before a file was chosen, and once the file dialog has been cancelled,  *)
(* a download does no more to the target than switch it on: the file       *)
(* chosen before is forgotten, and a file without bytes is not downloaded. *)
NothingTouched == file_name # "path" /\ Download => UNCHANGED <<regs, mem>>

CancelledTouchesNothing == [][NothingTouched]_dialogVars

(* A download changes no byte but those of the image's words in its own    *)
(* memory and the flag words in the eFlash: a packet lost in the middle    *)
(* moves what follows down, never out of the image.  It takes the loss of  *)
(* every access of the prologue and of the packet with the address to let  *)
(* the bytes of this image go where a transaction of another one stands.   *)
StoredInside ==
  mem' # mem /\ Download /\ failed <= Len(Prologue) =>
    \A s \in {"flash", "sram"}, a \in Offset :
      mem'[s][a] # mem[s][a] =>
        \/ s = Base /\ a < Bytes(load)
        \/ /\ s = "flash"
           /\ \E f \in DOMAIN Flags : a \in At(f) .. At(f) + WordBytes - 1

WritesStayInside == [][StoredInside]_dialogVars
=============================================================================
